----------------------------- MODULE RestClient -----------------------------
(***************************************************************************)
(* The REST client library: resources, whose id follows what the service   *)
(* has answered, and a list of them that is fetched when it is used and    *)
(* expires when it is changed.  The client has one thread; every request   *)
(* is one step of client and service, and other clients' requests come     *)
(* between two of them, also within `+=` and `del`, which send several.    *)
(* A request fails without effect (Refuse), or it has its effect and the   *)
(* answer is lost; both raise an exception here.                           *)
(* Sources: rest_client/_resource.py, rest_client/_resource_list.py.       *)
(*                                                                         *)
(* The objects of the program are members of a finite set, and are blank   *)
(* again once nothing refers to them.  A request needs the resource's      *)
(* parent, which every method takes as an argument: it is always there.    *)
(***************************************************************************)
EXTENDS RestService, FiniteSets, SequencesExt

CONSTANTS Objects, \* resource objects: a number of them at once
          MaxHeld, \* bound on the objects the program holds
          MaxLost  \* bound on the POSTs whose answers are lost

ASSUME ClientAssumption ==
  /\ Objects \subseteq Nat \ {0}
  /\ MaxHeld \in Nat /\ MaxLost \in Nat

VARIABLES objs,    \* id and _id_reason of every object
          held,    \* objects the program has a reference to
          list,    \* the objects in the ResourceList
          expired, \* _expired of the ResourceList
          call,    \* `+=` or `del` under way, and the objects it has to do
          maker,   \* history: the object every row was made from
          lost,    \* history: POSTs whose answer was lost
          behind   \* history: the collection was changed through the list
                   \* and has not been fetched since

clientVars == <<objs, held, list, expired, call, maker, lost, behind>>
vars == <<serverVars, clientVars>>

Nobody == 0

IDReason == {"NOT_YET_CREATED", "DOES_HAVE_AN_ID", "HAS_BEEN_DELETED"}

Resource == [id : {None} \union 1 .. MaxRow, reason : IDReason]
Pending  == [id |-> None, reason |-> "NOT_YET_CREATED"]
Fetched(r) == [id |-> r, reason |-> "DOES_HAVE_AN_ID"]

Idle == [op |-> "none", todo |-> << >>]

Init ==
  /\ ServiceInit
  /\ objs = [o \in Objects |-> Pending]
  /\ held = {} /\ list = << >> /\ expired = TRUE /\ call = Idle
  /\ maker = << >> /\ lost = 0 /\ behind = FALSE

-----------------------------------------------------------------------------
(* References.                                                             *)

Free == Objects \ (held \union Range(list))

Rank(x, set) == Cardinality({y \in set : y < x})

(* The objects are now `os`, of which those in `keep` are referred to; a    *)
(* row that is new was made from o.                                        *)
Settle(os, keep, o) ==
  /\ objs' = [p \in Objects |-> IF p \in keep THEN os[p] ELSE Pending]
  /\ maker' = [r \in rows' |-> IF r \notin rows THEN o
                               ELSE IF maker[r] \in keep THEN maker[r] ELSE Nobody]

New ==
  /\ call = Idle /\ Cardinality(held) < MaxHeld
  /\ \E o \in Free : (\A p \in Free : o <= p) /\ held' = held \union {o}
  /\ UNCHANGED <<serverVars, objs, list, expired, call, maker, lost, behind>>

(* resource = client.schedules[k]                                          *)
Take(o) ==
  /\ call = Idle /\ ~ expired /\ Cardinality(held) < MaxHeld
  /\ o \in Range(list) \ held
  /\ held' = held \union {o}
  /\ UNCHANGED <<serverVars, objs, list, expired, call, maker, lost, behind>>

Drop(o) ==
  /\ call = Idle
  /\ held' = held \ {o}
  /\ UNCHANGED <<serverVars, list, expired, call, lost, behind>>
  /\ Settle(objs, held' \union Range(list), Nobody)

(* resource.id = id, to create the row with PUT.                           *)
Claim(o, id) ==
  /\ call = Idle /\ objs[o] = Pending
  /\ objs' = [objs EXCEPT ![o].id = id]
  /\ UNCHANGED <<serverVars, held, list, expired, call, maker, lost, behind>>

-----------------------------------------------------------------------------
(* What the answer to a request does to the object.                        *)

\* Mutant: the reason is not updated with the id.
DeletedUnreasoned(o) == [objs EXCEPT ![o].id = None]

Deleted(o) == [objs EXCEPT ![o] = [id |-> None, reason |-> "HAS_BEEN_DELETED"]]

Updated(o, id) == [objs EXCEPT ![o] = Fetched(id)]

\* Mutant: an object that has an id is posted again.
MayPostAgain(o) == TRUE

MayPost(o) == objs[o].id = None

(* The answer may be lost, so the object is as it was.                     *)
Answered(os) == {objs, os}

(* Requests of a single resource.                                          *)

Request(o) == call = Idle /\ o \in held /\ UNCHANGED <<held, list, expired, call, behind>>

GetResource(o) ==
  /\ Request(o) /\ objs[o].id # None /\ Get(objs[o].id)
  /\ objs' = Updated(o, objs[o].id)
  /\ UNCHANGED <<maker, lost>>

Post(o) ==
  /\ Request(o) /\ MayPost(o) /\ Create
  /\ \/ Settle(Updated(o, NextRow), Objects, o) /\ UNCHANGED lost
     \/ Settle(objs, Objects, o) /\ lost < MaxLost /\ lost' = lost + 1

Put(o) ==
  LET id == objs[o].id
  IN  /\ Request(o) /\ id # None /\ Update(id)
      /\ \E os \in Answered(Updated(o, id)) : Settle(os, Objects, o)
      /\ UNCHANGED lost

(* The list is not told.                                                   *)
DeleteResource(o) ==
  /\ Request(o) /\ objs[o].id # None /\ Delete(objs[o].id)
  /\ \E os \in Answered(Deleted(o)) : Settle(os, Objects, Nobody)
  /\ UNCHANGED lost

-----------------------------------------------------------------------------
(* The list.                                                               *)

(* expire, clear; also what += does with an iterator: the check of its     *)
(* elements' types uses it up, nothing is posted, and the list expires.    *)
Expire ==
  /\ call = Idle
  /\ list' = << >> /\ expired' = TRUE
  /\ UNCHANGED <<serverVars, held, call, lost, behind>>
  /\ Settle(objs, held, Nobody)

(* refresh, which every access to an expired list calls: the list is       *)
(* emptied, the rows are fetched, and each becomes an object.              *)
Refresh ==
  LET free      == Objects \ held
      Gets(o, r) == Rank(o, free) = Rank(r, rows)
      fresh     == {o \in free : \E r \in rows : Gets(o, r)}
  IN  /\ call = Idle /\ List
      /\ list' = SetToSortSeq(fresh, <) /\ expired' = FALSE /\ behind' = FALSE
      /\ UNCHANGED <<held, call, lost>>
      /\ objs' = [o \in Objects |-> IF o \in held THEN objs[o]
                                    ELSE IF o \in fresh
                                    THEN Fetched(CHOOSE r \in rows : Gets(o, r))
                                    ELSE Pending]
      /\ maker' = [r \in rows |-> IF maker[r] \in held THEN maker[r] ELSE Nobody]

(* The list is emptied before the request that fails; a list that was not  *)
(* expired still is not, and is taken to be empty.                         *)
RefreshFails ==
  /\ call = Idle /\ Refuse
  /\ list' = << >>
  /\ UNCHANGED <<held, expired, call, lost, behind>>
  /\ Settle(objs, held, Nobody)

(* += and append; del with an index or a slice.                            *)
Add(value) ==
  /\ call = Idle /\ call' = [op |-> "add", todo |-> value]
  /\ UNCHANGED <<serverVars, objs, held, list, expired, maker, lost, behind>>

DelItems(i, j) ==
  /\ call = Idle /\ ~ expired
  /\ call' = [op |-> "del", todo |-> SubSeq(list, i, j)]
  /\ UNCHANGED <<serverVars, objs, held, list, expired, maker, lost, behind>>

(* One element is done: made or deleted, so the objects are now `os`.  If  *)
(* it was the last, or raised an exception, the list expires (finally).    *)
\* Mutant: the list only expires when the call succeeds.
ContinueExpiring(raised, os, o) ==
  IF Len(call.todo) > 1 /\ ~ raised
  THEN /\ call' = [call EXCEPT !.todo = Tail(@)]
       /\ Settle(os, Objects, o)
       /\ UNCHANGED <<held, list, expired>>
  ELSE /\ call' = Idle
       /\ list' = (IF raised THEN list ELSE << >>) /\ expired' = (expired \/ ~ raised)
       /\ Settle(os, held \union Range(list'), o)
       /\ UNCHANGED held

Continue(raised, os, o) ==
  IF Len(call.todo) > 1 /\ ~ raised
  THEN /\ call' = [call EXCEPT !.todo = Tail(@)]
       /\ Settle(os, Objects, o)
       /\ UNCHANGED <<held, list, expired>>
  ELSE /\ call' = Idle
       /\ list' = << >> /\ expired' = TRUE
       /\ Settle(os, held, o)
       /\ UNCHANGED held

AddNext ==
  LET o == Head(call.todo)
  IN  /\ call.op = "add" /\ MayPost(o) /\ Create
      /\ \/ Continue(FALSE, Updated(o, NextRow), o) /\ UNCHANGED lost
         \/ Continue(TRUE, objs, o) /\ lost < MaxLost /\ lost' = lost + 1
      /\ behind' = TRUE

DelNext ==
  LET o == Head(call.todo)
  IN  /\ call.op = "del" /\ objs[o].id # None /\ Delete(objs[o].id)
      /\ Continue(FALSE, Deleted(o), Nobody) \/ Continue(TRUE, objs, Nobody)
      /\ behind' = TRUE /\ UNCHANGED lost

(* An element that cannot be posted or deleted, or whose request fails.    *)
CallFails ==
  /\ call # Idle
  /\ Refuse
  /\ Continue(TRUE, objs, Nobody)
  /\ UNCHANGED <<lost, behind>>

-----------------------------------------------------------------------------
(* Any other request that fails, logging in and out, other clients.        *)

RequestFails == call = Idle /\ Refuse /\ UNCHANGED clientVars

Session == call = Idle /\ (Logout \/ \E u \in users : Login(u)) /\ UNCHANGED clientVars

Environment ==
  /\ Others
  /\ UNCHANGED <<held, list, expired, call, lost, behind>>
  /\ Settle(objs, Objects, Nobody)

Values == {<<o>> : o \in held} \union {<<o, p>> : o, p \in held}

Next ==
  \/ New \/ Expire \/ Refresh \/ RefreshFails \/ AddNext \/ DelNext
  \/ CallFails \/ RequestFails \/ Session \/ Environment
  \/ \E o \in held : \/ Drop(o) \/ GetResource(o) \/ Post(o) \/ Put(o)
                     \/ DeleteResource(o) \/ \E id \in 1 .. MaxRow : Claim(o, id)
  \/ \E value \in Values : Add(value)
  \/ \E o \in Objects : Take(o)
  \/ \E i \in 1 .. Len(list) : \E j \in i .. Len(list) : DelItems(i, j)

Spec == Init /\ [][Next]_vars

-----------------------------------------------------------------------------
(* An id the service has assigned is known as such, and only such an id;   *)
(* ids are in use or used up; an expired list holds nothing.               *)
TypeOK ==
  /\ rows \subseteq 1 .. lastRow /\ lastRow \in 0 .. MaxRow
  /\ users \subseteq 1 .. lastUser /\ lastUser \in 1 .. MaxUser
  /\ cookie \in 0 .. lastUser
  /\ objs \in [Objects -> Resource] /\ held \subseteq Objects
  /\ \A o \in Objects : objs[o].reason = "DOES_HAVE_AN_ID" => objs[o].id \in 1 .. lastRow
  /\ expired \in BOOLEAN /\ (expired => list = << >>)

(* Every row this client has made is known to the object it was made from, *)
(* except one for each POST whose answer was lost: however calls fail,     *)
(* and are repeated with the objects that still have no id, nothing is     *)
(* created twice.                                                          *)
NoStrays ==
  Cardinality({r \in rows : maker[r] # Nobody /\ objs[maker[r]].id # r}) <= lost

(* A list that is not expired was fetched after everything that was done   *)
(* through it, also when that was cut short by a failure: += and del may   *)
(* have done a part of what they were asked.                               *)
OwnChangesShown == call = Idle /\ ~ expired => ~ behind

(* An id that an object was given by the service never comes to denote a   *)
(* row made by another POST, and neither does the user_id in a session     *)
(* come to denote another user: at worst they denote nothing.  (A PUT      *)
(* brings back the row whose id it has.)                                   *)
StaleIsHarmless ==
  [][/\ \A r \in rows' \ rows, o \in Objects :
          objs[o].id = r /\ objs[o].reason = "DOES_HAVE_AN_ID" =>
            maker'[r] # Nobody /\ objs[maker'[r]].id = r
     /\ cookie \notin users' \ users]_vars
=============================================================================
