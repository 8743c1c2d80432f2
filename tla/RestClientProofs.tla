-------------------------- MODULE RestClientProofs --------------------------
(***************************************************************************)
(* Theorems about RestClient, for any number of objects, rows and users.   *)
(***************************************************************************)
EXTENDS RestClient, FiniteSetTheorems, SequenceTheorems, TLAPS

(* A `+=` under way has objects that the program holds; every row has a    *)
(* maker.                                                                  *)
CallOK ==
  /\ call \in [op : {"none", "add", "del"}, todo : {call.todo}]
  /\ call.op = "none" => call = Idle
  /\ call.op = "add" => call.todo \in Seq(held) /\ call.todo # << >>

Typed ==
  /\ TypeOK /\ CallOK
  /\ maker \in [rows -> Objects \union {Nobody}]
  /\ lost \in Nat

Strays == {r \in rows : maker[r] # Nobody /\ objs[maker[r]].id # r}

USE ServiceAssumption, ClientAssumption DEF ServiceAssumption, ClientAssumption

-----------------------------------------------------------------------------
(* The parts of a step.                                                    *)

LEMMA InitTyped == Init => Typed
BY DEF Init, ServiceInit, Typed, TypeOK, CallOK, Idle, Pending, Resource, IDReason,
       None, Nobody

(* Settling keeps objects and makers what they are.                        *)
LEMMA SettleTyped ==
  ASSUME Typed, NEW os \in [Objects -> Resource], NEW keep,
         NEW o \in Objects \union {Nobody}, Settle(os, keep, o)
  PROVE  /\ objs' \in [Objects -> Resource]
         /\ maker' \in [rows' -> Objects \union {Nobody}]
         /\ \A p \in Objects : objs'[p] \in {os[p], Pending}
BY DEF Settle, Typed, Resource, IDReason, Pending, None, Nobody

LEMMA DeletedObject ==
  ASSUME Typed, NEW o
  PROVE  /\ Deleted(o) \in [Objects -> Resource]
         /\ \A p \in Objects :
              IF p = o THEN Deleted(o)[p] = [id |-> None, reason |-> "HAS_BEEN_DELETED"]
                       ELSE Deleted(o)[p] = objs[p]
<1>1. objs \in [Objects -> Resource]
  BY DEF Typed, TypeOK
<1>2. [id |-> None, reason |-> "HAS_BEEN_DELETED"] \in Resource
  BY DEF Resource, IDReason
<1> QED BY <1>1, <1>2 DEF Deleted

LEMMA UpdatedObject ==
  ASSUME Typed, NEW o, NEW id \in 1 .. MaxRow
  PROVE  /\ Updated(o, id) \in [Objects -> Resource]
         /\ \A p \in Objects : IF p = o THEN Updated(o, id)[p].id = id
                                         ELSE Updated(o, id)[p] = objs[p]
<1>1. objs \in [Objects -> Resource]
  BY DEF Typed, TypeOK
<1>2. Fetched(id) \in Resource /\ Fetched(id).id = id
  BY DEF Resource, IDReason, Fetched
<1> QED BY <1>1, <1>2 DEF Updated

(* What the service does keeps its ids in order, and only adds to lastRow. *)
ServerTyped ==
  /\ rows \subseteq 1 .. lastRow /\ lastRow \in 0 .. MaxRow
  /\ users \subseteq 1 .. lastUser /\ lastUser \in 1 .. MaxUser
  /\ cookie \in 0 .. lastUser

LEMMA ServerSteps ==
  ASSUME ServerTyped,
         \/ Create \/ List \/ Refuse \/ Logout \/ Others
         \/ UNCHANGED serverVars
         \/ \E id \in 1 .. MaxRow : Update(id) \/ Delete(id) \/ Get(id)
         \/ \E u \in users : Login(u)
  PROVE  ServerTyped' /\ lastRow <= lastRow'
<1> USE DEF ServerTyped
<1>1. CASE Create
  BY <1>1 DEF Create, NextRow
<1>2. CASE OthersCreate
  BY <1>2 DEF OthersCreate, NextRow
<1>3. CASE List
  BY <1>3 DEF List, serverVars
<1>4. CASE UNCHANGED serverVars
  BY <1>4 DEF serverVars
<1>5. CASE Refuse
  BY <1>5 DEF Refuse, None
<1>6. CASE Logout
  BY <1>6 DEF Logout, None
<1>7. CASE OthersCreateUser
  BY <1>7 DEF OthersCreateUser
<1>8. ASSUME NEW u \in users, OthersDeleteUser(u)
      PROVE  ServerTyped' /\ lastRow <= lastRow'
  BY <1>8 DEF OthersDeleteUser
<1>9. ASSUME NEW u \in users, Login(u)
      PROVE  ServerTyped' /\ lastRow <= lastRow'
  BY <1>9 DEF Login
<1>10. ASSUME NEW id \in rows, OthersDelete(id)
       PROVE  ServerTyped' /\ lastRow <= lastRow'
  BY <1>10 DEF OthersDelete
<1>11. ASSUME NEW id \in 1 .. MaxRow, Update(id)
       PROVE  ServerTyped' /\ lastRow <= lastRow'
  BY <1>11 DEF Update, Greater
<1>12. ASSUME NEW id \in 1 .. MaxRow, Delete(id)
       PROVE  ServerTyped' /\ lastRow <= lastRow'
  BY <1>12 DEF Delete
<1>13. ASSUME NEW id \in 1 .. MaxRow, Get(id)
       PROVE  ServerTyped' /\ lastRow <= lastRow'
  BY <1>13 DEF Get, serverVars
<1> HIDE DEF ServerTyped
<1> QED
  BY <1>1, <1>2, <1>3, <1>4, <1>5, <1>6, <1>7, <1>8, <1>9, <1>10, <1>11, <1>12, <1>13
     DEF Others

LEMMA TailShorter ==
  ASSUME NEW S, NEW s \in Seq(S), Len(s) > 1
  PROVE  Tail(s) \in Seq(S) /\ Tail(s) # << >>
<1>1. s # << >>
  BY EmptySeq
<1>2. Tail(s) \in Seq(S) /\ Len(Tail(s)) = Len(s) - 1 /\ Len(s) \in Nat
  BY <1>1, HeadTailProperties, LenProperties
<1>3. Len(Tail(s)) # 0
  BY <1>2
<1>4. Len(<< >>) = 0
  BY EmptySeq
<1> QED BY <1>2, <1>3, <1>4

(* A call that goes on, or ends.                                           *)
LEMMA ContinueTyped ==
  ASSUME Typed, call # Idle, NEW os \in [Objects -> Resource],
         NEW raised \in BOOLEAN, NEW o \in Objects \union {Nobody},
         Continue(raised, os, o)
  PROVE  /\ CallOK' /\ held' = held /\ expired' \in BOOLEAN
         /\ expired' => list' = << >>
         /\ call' = Idle => expired'
         /\ \E keep \in {held, Objects} : Settle(os, keep, o)
<1>1. CASE Len(call.todo) > 1 /\ ~ raised
  <2>1. call' = [op |-> call.op, todo |-> Tail(call.todo)]
    BY <1>1 DEF Continue, Typed, CallOK
  <2> call.op # "none"
    BY DEF Typed, CallOK
  <2>2. ASSUME call.op = "add"
        PROVE  Tail(call.todo) \in Seq(held) /\ Tail(call.todo) # << >>
    <3>1. call.todo \in Seq(held) /\ call.todo # << >>
      BY <2>2 DEF Typed, CallOK
    <3>2. Len(call.todo) > 1
      BY <1>1
    <3> QED BY <3>1, <3>2, TailShorter
  <2>3. held' = held /\ list' = list /\ expired' = expired /\ Settle(os, Objects, o)
    BY <1>1 DEF Continue
  <2> QED BY <2>1, <2>2, <2>3 DEF Typed, TypeOK, CallOK, Idle
<1>2. CASE ~ (Len(call.todo) > 1 /\ ~ raised)
  <2>1. call' = Idle /\ held' = held /\ list' = << >> /\ expired' = TRUE /\ Settle(os, held, o)
    BY <1>2 DEF Continue
  <2> QED BY <2>1 DEF CallOK, Idle
<1> QED BY <1>1, <1>2

-----------------------------------------------------------------------------
(* The invariant.                                                          *)

LEMMA StepTyped == Typed /\ [Next]_vars => Typed'
<1> SUFFICES ASSUME Typed, [Next]_vars PROVE Typed'
  OBVIOUS
<1> DEFINE ClientTyped == /\ objs \in [Objects -> Resource] /\ held \subseteq Objects
                          /\ expired \in BOOLEAN /\ (expired => list = << >>)
                          /\ CallOK
                          /\ maker \in [rows -> Objects \union {Nobody}]
                          /\ lost \in Nat
           Assigned == \A o \in Objects : objs[o].reason = "DOES_HAVE_AN_ID"
                                            => objs[o].id \in 1 .. lastRow
<1>1. ServerTyped /\ ClientTyped /\ Assigned
  BY DEF Typed, TypeOK, ServerTyped
<1>2. SUFFICES ServerTyped' /\ ClientTyped' /\ Assigned'
  BY DEF Typed, TypeOK, ServerTyped
<1> USE DEF Resource
<1>3. ASSUME UNCHANGED serverVars, ClientTyped', objs' = objs
      PROVE  ServerTyped' /\ ClientTyped' /\ Assigned'
  <2>1. ServerTyped' /\ lastRow' = lastRow
    BY <1>1, <1>3, ServerSteps DEF serverVars
  <2> QED BY <1>1, <1>3, <2>1
<1>4. CASE UNCHANGED vars
  <2>1. ClientTyped'
    BY <1>1, <1>4 DEF vars, serverVars, clientVars, CallOK, Idle
  <2> QED BY <1>3, <1>4, <2>1 DEF vars, clientVars
<1>5. CASE New
  <2>1. ClientTyped'
    BY <1>1, <1>5 DEF New, Free, CallOK, Idle, serverVars
  <2> QED BY <1>3, <1>5, <2>1 DEF New
<1>6. ASSUME NEW o \in Objects, Take(o)
      PROVE  ServerTyped' /\ ClientTyped' /\ Assigned'
  <2>1. ClientTyped'
    BY <1>1, <1>6 DEF Take, CallOK, Idle, serverVars
  <2> QED BY <1>3, <1>6, <2>1 DEF Take
<1>7. ASSUME NEW o \in held, Drop(o)
      PROVE  ServerTyped' /\ ClientTyped' /\ Assigned'
  <2>1. /\ objs' \in [Objects -> Resource]
        /\ maker' \in [rows' -> Objects \union {Nobody}]
        /\ \A p \in Objects : objs'[p] \in {objs[p], Pending}
    BY <1>1, <1>7, SettleTyped DEF Drop
  <2>2. ClientTyped'
    BY <1>1, <1>7, <2>1 DEF Drop, CallOK, Idle
  <2>3. ServerTyped' /\ lastRow' = lastRow
    BY <1>1, <1>7, ServerSteps DEF Drop, serverVars
  <2> QED BY <1>1, <2>1, <2>2, <2>3 DEF Pending
<1>8. ASSUME NEW o \in held, NEW id \in 1 .. MaxRow, Claim(o, id)
      PROVE  ServerTyped' /\ ClientTyped' /\ Assigned'
  <2>1. ServerTyped' /\ lastRow' = lastRow
    BY <1>1, <1>8, ServerSteps DEF Claim, serverVars
  <2>2. ClientTyped'
    BY <1>1, <1>8 DEF Claim, CallOK, Idle, serverVars
  <2>3. \A p \in Objects : objs'[p] = objs[p] \/ objs'[p].reason = "NOT_YET_CREATED"
    BY <1>1, <1>8 DEF Claim, Pending
  <2> QED BY <1>1, <2>1, <2>2, <2>3
<1>9. ASSUME NEW o \in held, GetResource(o)
      PROVE  ServerTyped' /\ ClientTyped' /\ Assigned'
  <2>1. o \in Objects /\ objs[o].id \in 1 .. MaxRow /\ objs[o].id \in rows
    BY <1>1, <1>9 DEF GetResource, Get, None
  <2>2. ServerTyped' /\ lastRow' = lastRow /\ rows' = rows
    BY <1>1, <1>9, <2>1, ServerSteps DEF GetResource, Get, serverVars
  <2>3. /\ objs' \in [Objects -> Resource]
        /\ \A p \in Objects : objs'[p] = objs[p] \/ objs'[p].id = objs[o].id
    BY <1>9, <2>1, UpdatedObject DEF GetResource
  <2>4. ClientTyped'
    BY <1>1, <1>9, <2>2, <2>3 DEF GetResource, Request, CallOK, Idle
  <2>5. objs[o].id \in 1 .. lastRow
    BY <1>1, <2>1 DEF ServerTyped
  <2> QED BY <1>1, <2>2, <2>3, <2>4, <2>5
(* The requests that write: the objects become `os` and what is assigned   *)
(* stays assigned.                                                         *)
<1>10. ASSUME NEW os \in [Objects -> Resource], NEW keep, NEW o \in Objects \union {Nobody},
              Settle(os, keep, o), ServerTyped', lastRow <= lastRow',
              \A p \in Objects : \/ os[p] = objs[p]
                                 \/ os[p].id \in 1 .. lastRow'
                                 \/ os[p].reason # "DOES_HAVE_AN_ID"
       PROVE  /\ objs' \in [Objects -> Resource]
              /\ maker' \in [rows' -> Objects \union {Nobody}]
              /\ Assigned'
  <2>1. /\ objs' \in [Objects -> Resource]
        /\ maker' \in [rows' -> Objects \union {Nobody}]
        /\ \A p \in Objects : objs'[p] \in {os[p], Pending}
    BY <1>10, SettleTyped
  <2>2. \A id \in 1 .. lastRow : id \in 1 .. lastRow'
    BY <1>1, <1>10 DEF ServerTyped
  <2> QED BY <1>1, <1>10, <2>1, <2>2 DEF Pending
<1>11. ASSUME NEW o \in held, Request(o), lost' \in Nat
       PROVE  /\ CallOK' /\ held' \subseteq Objects /\ lost' \in Nat
              /\ expired' \in BOOLEAN /\ (expired' => list' = << >>)
  BY <1>1, <1>11 DEF Request, CallOK, Idle
<1>12. ASSUME Create
       PROVE  NextRow \in 1 .. MaxRow /\ lastRow' = NextRow /\ ServerTyped' /\ lastRow <= lastRow'
  BY <1>1, <1>12, ServerSteps DEF ServerTyped, Create, NextRow
<1>13. ASSUME NEW o \in held, Post(o)
       PROVE  ServerTyped' /\ ClientTyped' /\ Assigned'
  <2>1. /\ Request(o) /\ Create /\ lost' \in Nat /\ o \in Objects
        /\ \E os \in Answered(Updated(o, NextRow)) : Settle(os, Objects, o)
    BY <1>1, <1>13 DEF Post, Answered
  <2>2. PICK os \in Answered(Updated(o, NextRow)) : Settle(os, Objects, o)
    BY <2>1
  <2>3. /\ os \in [Objects -> Resource]
        /\ \A p \in Objects : os[p] = objs[p] \/ os[p].id = NextRow
    BY <1>1, <1>12, <2>1, <2>2, UpdatedObject DEF Answered
  <2>4. NextRow \in 1 .. lastRow'
    BY <1>12, <2>1
  <2> QED BY <1>10, <1>11, <1>12, <2>1, <2>2, <2>3, <2>4
<1>14. ASSUME NEW o \in held, Put(o)
       PROVE  ServerTyped' /\ ClientTyped' /\ Assigned'
  <2> DEFINE id == objs[o].id
  <2>1. /\ Request(o) /\ Update(id) /\ lost' \in Nat /\ o \in Objects
        /\ id \in 1 .. MaxRow
    BY <1>1, <1>14 DEF Put, None
  <2>2. PICK os \in Answered(Updated(o, id)) : Settle(os, Objects, o)
    BY <1>14 DEF Put
  <2>3. /\ os \in [Objects -> Resource]
        /\ \A p \in Objects : os[p] = objs[p] \/ os[p].id = id
    BY <1>1, <2>1, <2>2, UpdatedObject DEF Answered
  <2>4. ServerTyped' /\ lastRow <= lastRow'
    BY <1>1, <2>1, ServerSteps
  <2>5. id \in 1 .. lastRow'
    BY <1>1, <2>1 DEF Update, Greater, ServerTyped
  <2> QED BY <1>10, <1>11, <2>1, <2>2, <2>3, <2>4, <2>5
<1>15. ASSUME NEW o \in held, DeleteResource(o)
       PROVE  ServerTyped' /\ ClientTyped' /\ Assigned'
  <2>1. /\ Request(o) /\ Delete(objs[o].id) /\ lost' \in Nat /\ o \in Objects
        /\ objs[o].id \in 1 .. MaxRow
    BY <1>1, <1>15 DEF DeleteResource, None
  <2>2. PICK os \in Answered(Deleted(o)) : Settle(os, Objects, Nobody)
    BY <1>15 DEF DeleteResource
  <2>3. /\ os \in [Objects -> Resource]
        /\ \A p \in Objects : os[p] = objs[p] \/ os[p].reason = "HAS_BEEN_DELETED"
    BY <1>1, <2>1, <2>2, DeletedObject DEF Answered
  <2>4. ServerTyped' /\ lastRow <= lastRow'
    BY <1>1, <2>1, ServerSteps
  <2> QED BY <1>10, <1>11, <2>1, <2>2, <2>3, <2>4
<1>16. CASE Expire \/ RefreshFails
  <2>1. /\ Settle(objs, held, Nobody) /\ call = Idle /\ call' = Idle
        /\ held' = held /\ lost' = lost /\ list' = << >> /\ expired' \in BOOLEAN
        /\ UNCHANGED serverVars \/ Refuse
    BY <1>1, <1>16 DEF Expire, RefreshFails
  <2>2. ServerTyped' /\ lastRow <= lastRow'
    BY <1>1, <2>1, ServerSteps
  <2>3. CallOK'
    BY <2>1 DEF CallOK, Idle
  <2> QED BY <1>1, <1>10, <2>1, <2>2, <2>3
<1>17. CASE Refresh
  <2>1. /\ List /\ call' = Idle /\ held' = held /\ lost' = lost /\ expired' = FALSE
        /\ maker' = [r \in rows |-> IF maker[r] \in held THEN maker[r] ELSE Nobody]
    BY <1>17 DEF Refresh
  <2>2. ServerTyped' /\ lastRow' = lastRow /\ rows' = rows
    BY <1>1, <2>1, ServerSteps DEF List, serverVars
  <2>3. \A p \in Objects : \/ objs'[p] = objs[p] \/ objs'[p] = Pending
                           \/ \E r \in rows : objs'[p] = Fetched(r)
    BY <1>17 DEF Refresh
  <2>4. \A r \in rows : Fetched(r) \in Resource /\ Fetched(r).id \in 1 .. lastRow
    BY <1>1 DEF ServerTyped, Fetched, IDReason
  <2>5. Pending \in Resource /\ Pending.reason # "DOES_HAVE_AN_ID"
    BY DEF Pending, IDReason
  <2>6. objs' \in [Objects -> Resource]
    <3>1. \A p \in Objects : objs'[p] \in Resource
      BY <1>1, <2>3, <2>4, <2>5
    <3>2. objs' = [p \in Objects |-> objs'[p]]
      BY <1>17 DEF Refresh
    <3> QED BY <3>1, <3>2
  <2>7. Assigned'
    BY <1>1, <2>2, <2>3, <2>4, <2>5
  <2>8. maker' \in [rows' -> Objects \union {Nobody}]
    BY <1>1, <2>1, <2>2
  <2>9. CallOK'
    BY <2>1 DEF CallOK, Idle
  <2> QED BY <1>1, <2>1, <2>2, <2>6, <2>7, <2>8, <2>9
<1>18. ASSUME NEW value \in Values, Add(value)
       PROVE  ServerTyped' /\ ClientTyped' /\ Assigned'
  <2>1. value \in Seq(held) /\ value # << >>
    <3>1. CASE \E o \in held : value = <<o>>
      BY <3>1
    <3>2. CASE \E o, p \in held : value = <<o, p>>
      BY <3>2
    <3> QED BY <3>1, <3>2 DEF Values
  <2>2. ClientTyped'
    BY <1>1, <1>18, <2>1 DEF Add, CallOK, Idle, serverVars
  <2> QED BY <1>3, <1>18, <2>2 DEF Add
<1>19. ASSUME NEW i, NEW j, DelItems(i, j)
       PROVE  ServerTyped' /\ ClientTyped' /\ Assigned'
  <2>1. ClientTyped'
    BY <1>1, <1>19 DEF DelItems, CallOK, Idle, serverVars
  <2> QED BY <1>3, <1>19, <2>1 DEF DelItems
<1>20. ASSUME NEW os \in [Objects -> Resource], NEW raised \in BOOLEAN,
              NEW o \in Objects \union {Nobody}, Continue(raised, os, o),
              ServerTyped', lastRow <= lastRow', lost' \in Nat, call # Idle,
              \A p \in Objects : \/ os[p] = objs[p]
                                 \/ os[p].id \in 1 .. lastRow'
                                 \/ os[p].reason # "DOES_HAVE_AN_ID"
       PROVE  ServerTyped' /\ ClientTyped' /\ Assigned'
  <2>1. /\ CallOK' /\ held' = held /\ expired' \in BOOLEAN /\ (expired' => list' = << >>)
        /\ \E keep \in {held, Objects} : Settle(os, keep, o)
    BY <1>20, ContinueTyped
  <2>2. PICK keep \in {held, Objects} : Settle(os, keep, o)
    BY <2>1
  <2>3. /\ objs' \in [Objects -> Resource]
        /\ maker' \in [rows' -> Objects \union {Nobody}]
        /\ Assigned'
    BY <1>10, <1>20, <2>2
  <2> QED BY <1>1, <1>20, <2>1, <2>3
<1>21. CASE AddNext
  <2> DEFINE o == Head(call.todo)
  <2>1. /\ Create /\ lost' \in Nat /\ call.op = "add"
        /\ \E raised \in BOOLEAN, os \in {objs, Updated(o, NextRow)} : Continue(raised, os, o)
    <3>1. Create /\ call.op = "add" /\ (lost' = lost \/ lost' = lost + 1)
      BY <1>21 DEF AddNext
    <3>2. Continue(FALSE, Updated(o, NextRow), o) \/ Continue(TRUE, objs, o)
      BY <1>21 DEF AddNext
    <3>3. lost' \in Nat
      BY <1>1, <3>1
    <3> QED BY <3>1, <3>2, <3>3
  <2>2. o \in held /\ call # Idle
    BY <1>1, <2>1, HeadTailProperties DEF CallOK, Idle
  <2>3. PICK raised \in BOOLEAN, os \in {objs, Updated(o, NextRow)} : Continue(raised, os, o)
    BY <2>1
  <2>4. /\ os \in [Objects -> Resource]
        /\ \A p \in Objects : os[p] = objs[p] \/ os[p].id = NextRow
    BY <1>1, <1>12, <2>1, <2>3, UpdatedObject
  <2>5. NextRow \in 1 .. lastRow'
    BY <1>12, <2>1
  <2> QED BY <1>1, <1>12, <1>20, <2>1, <2>2, <2>3, <2>4, <2>5
<1>22. CASE DelNext
  <2> DEFINE o == Head(call.todo)
  <2>1. /\ Delete(objs[o].id) /\ lost' = lost /\ call # Idle
        /\ \E raised \in BOOLEAN, os \in {objs, Deleted(o)} : Continue(raised, os, Nobody)
    <3>1. Delete(objs[o].id) /\ lost' = lost /\ call # Idle
      BY <1>22 DEF DelNext, Idle
    <3>2. Continue(FALSE, Deleted(o), Nobody) \/ Continue(TRUE, objs, Nobody)
      BY <1>22 DEF DelNext
    <3> QED BY <3>1, <3>2
  <2>2. PICK raised \in BOOLEAN, os \in {objs, Deleted(o)} : Continue(raised, os, Nobody)
    BY <2>1
  <2>3. /\ os \in [Objects -> Resource]
        /\ \A p \in Objects : os[p] = objs[p] \/ os[p].reason = "HAS_BEEN_DELETED"
    BY <1>1, <2>2, DeletedObject
  <2>4. ServerTyped' /\ lastRow <= lastRow'
    <3>1. rows' \subseteq rows /\ UNCHANGED <<lastRow, users, lastUser, cookie>>
      BY <2>1 DEF Delete
    <3> QED BY <1>1, <3>1 DEF ServerTyped
  <2> QED BY <1>1, <1>20, <2>1, <2>2, <2>3, <2>4
<1>23. CASE CallFails
  <2>1. ServerTyped' /\ lastRow <= lastRow'
    BY <1>1, <1>23, ServerSteps DEF CallFails
  <2> QED BY <1>1, <1>20, <1>23, <2>1 DEF CallFails
<1>24. CASE RequestFails \/ Session
  <2>1. UNCHANGED clientVars /\ rows' = rows
    BY <1>24 DEF RequestFails, Session, Refuse, Logout, Login
  <2>2. ServerTyped' /\ lastRow' = lastRow
    BY <1>1, <1>24, ServerSteps DEF RequestFails, Session, Refuse, Logout, Login
  <2>3. ClientTyped'
    BY <1>1, <2>1 DEF clientVars, CallOK, Idle
  <2> QED BY <1>1, <2>1, <2>2, <2>3 DEF clientVars
<1>25. CASE Environment
  <2>1. /\ Others /\ Settle(objs, Objects, Nobody)
        /\ UNCHANGED <<held, list, expired, call, lost, behind>>
    BY <1>25 DEF Environment
  <2>2. ServerTyped' /\ lastRow <= lastRow'
    BY <1>1, <2>1, ServerSteps
  <2>3. CallOK'
    BY <1>1, <2>1 DEF CallOK
  <2> QED BY <1>1, <1>10, <2>1, <2>2, <2>3
<1> QED
  BY <1>4, <1>5, <1>6, <1>7, <1>8, <1>9, <1>13, <1>14, <1>15, <1>16, <1>17, <1>18, <1>19,
     <1>21, <1>22, <1>23, <1>24, <1>25 DEF Next

-----------------------------------------------------------------------------
(* Strays.                                                                 *)

(* A row that is not new was no stray unless it is one before; a row that  *)
(* is new is none if its maker knows it.                                   *)
LEMMA SettleStrays ==
  ASSUME Typed, NEW os, NEW keep, NEW o \in Objects \union {Nobody}, Settle(os, keep, o),
         \A p \in Objects : os[p].id # objs[p].id => objs[p].id \notin rows'
  PROVE  \A r \in Strays' : r \in Strays \/ (r \notin rows /\ o # Nobody /\ objs'[o].id # r)
<1> SUFFICES ASSUME NEW r \in Strays', r \in rows PROVE r \in Strays
  BY DEF Settle, Strays
<1>1. r \in rows' /\ maker'[r] # Nobody /\ objs'[maker'[r]].id # r
  BY DEF Strays
<1>2. maker'[r] = maker[r] /\ maker[r] \in keep /\ maker[r] \in Objects
  BY <1>1 DEF Settle, Typed
<1>3. objs'[maker[r]] = os[maker[r]]
  BY <1>2 DEF Settle
<1>4. os[maker[r]].id # r
  BY <1>1, <1>2, <1>3
<1> QED BY <1>1, <1>2, <1>4 DEF Strays

(* A step leaves the strays what they were, or one more answer is lost.    *)
LEMMA StepStrays ==
  Typed /\ [Next]_vars =>
    \/ Strays' \subseteq Strays /\ lost' = lost
    \/ Strays' \subseteq Strays \union {lastRow'} /\ lost' = lost + 1
<1> SUFFICES ASSUME Typed, [Next]_vars
    PROVE  \/ Strays' \subseteq Strays /\ lost' = lost
           \/ Strays' \subseteq Strays \union {lastRow'} /\ lost' = lost + 1
  OBVIOUS
<1> USE DEF Nobody
<1>1. /\ objs \in [Objects -> Resource] /\ held \subseteq Objects
      /\ maker \in [rows -> Objects \union {Nobody}] /\ lost \in Nat
      /\ rows \subseteq 1 .. lastRow
  BY DEF Typed, TypeOK
<1>2. ASSUME UNCHANGED <<rows, objs, maker, lost>> PROVE Strays' = Strays /\ lost' = lost
  BY <1>2 DEF Strays
<1>3. CASE UNCHANGED vars \/ New \/ RequestFails \/ Session
  BY <1>2, <1>3 DEF vars, clientVars, serverVars, New, RequestFails, Session, Refuse,
                    Login, Logout
<1>4. ASSUME NEW o, Take(o) PROVE Strays' = Strays /\ lost' = lost
  BY <1>2, <1>4 DEF Take, serverVars
<1>5. ASSUME NEW value, Add(value) PROVE Strays' = Strays /\ lost' = lost
  BY <1>2, <1>5 DEF Add, serverVars
<1>6. ASSUME NEW i, NEW j, DelItems(i, j) PROVE Strays' = Strays /\ lost' = lost
  BY <1>2, <1>6 DEF DelItems, serverVars
(* The rows and the objects referred to stay what they are.                *)
<1>7. ASSUME NEW keep, Settle(objs, keep, Nobody), lost' = lost
      PROVE  Strays' \subseteq Strays /\ lost' = lost
  BY <1>7, SettleStrays
<1>8. ASSUME NEW o \in held, Drop(o) PROVE Strays' \subseteq Strays /\ lost' = lost
  BY <1>7, <1>8 DEF Drop
<1>9. CASE Expire \/ RefreshFails \/ Environment
  BY <1>7, <1>9 DEF Expire, RefreshFails, Environment
<1>10. ASSUME NEW o \in held, NEW id \in 1 .. MaxRow, Claim(o, id)
       PROVE  Strays' \subseteq Strays /\ lost' = lost
  <2>1. /\ rows' = rows /\ maker' = maker /\ lost' = lost /\ objs[o].id = 0
        /\ \A p \in Objects : p # o => objs'[p] = objs[p]
    BY <1>1, <1>10 DEF Claim, serverVars, Pending, None
  <2>2. \A r \in rows : r # 0
    BY <1>1
  <2> QED BY <1>1, <2>1, <2>2 DEF Strays
<1>11. ASSUME NEW o \in held, GetResource(o)
       PROVE  Strays' \subseteq Strays /\ lost' = lost
  <2>1. rows' = rows /\ maker' = maker /\ lost' = lost
    BY <1>11 DEF GetResource, Get, serverVars
  <2>2. \A p \in Objects : objs'[p].id = objs[p].id
    BY <1>1, <1>11 DEF GetResource, Updated, Fetched
  <2> QED BY <1>1, <2>1, <2>2 DEF Strays
(* The row that is new is lastRow'; its maker knows it if it was answered. *)
<1>12. ASSUME NEW o \in Objects, NEW os, NEW keep, Create, Settle(os, keep, o), objs[o].id = 0,
              \/ os = objs /\ lost' = lost + 1
              \/ os = Updated(o, NextRow) /\ lost' = lost /\ o \in keep
       PROVE  \/ Strays' \subseteq Strays /\ lost' = lost
              \/ Strays' \subseteq Strays \union {lastRow'} /\ lost' = lost + 1
  <2>1. rows' = rows \union {lastRow'} /\ lastRow' = NextRow
    BY <1>12 DEF Create
  <2>2. 0 \notin rows'
    BY <1>1, <1>12 DEF Create, NextRow, Typed, TypeOK
  <2>3. \A p \in Objects : os[p].id # objs[p].id => p = o
    BY <1>1, <1>12 DEF Updated
  <2>4. \A r \in Strays' : r \in Strays \/ (r \notin rows /\ objs'[o].id # r)
    BY <1>12, <2>2, <2>3, SettleStrays
  <2>5. Strays' \subseteq Strays \union {lastRow'}
    BY <2>1, <2>4 DEF Strays
  <2>6. CASE os = Updated(o, NextRow) /\ lost' = lost /\ o \in keep
    <3>1. objs'[o].id = NextRow
      BY <1>1, <1>12, <2>6 DEF Settle, Updated, Fetched
    <3> QED BY <2>1, <2>4, <2>5, <2>6, <3>1
  <2> QED BY <1>12, <2>5, <2>6
<1>13. ASSUME NEW o \in held, Post(o)
       PROVE  \/ Strays' \subseteq Strays /\ lost' = lost
              \/ Strays' \subseteq Strays \union {lastRow'} /\ lost' = lost + 1
  <2>1. Create /\ objs[o].id = 0 /\ o \in Objects
    BY <1>1, <1>13 DEF Post, MayPost, None
  <2>2. CASE Settle(Updated(o, NextRow), Objects, o) /\ lost' = lost
    BY <1>12, <2>1, <2>2
  <2>3. CASE Settle(objs, Objects, o) /\ lost' = lost + 1
    BY <1>12, <2>1, <2>3
  <2> QED BY <1>13, <2>2, <2>3 DEF Post
<1>14. ASSUME NEW o \in held, Put(o) PROVE Strays' \subseteq Strays /\ lost' = lost
  <2>1. rows' = rows \union {objs[o].id} /\ o \in Objects /\ lost' = lost
    BY <1>1, <1>14 DEF Put, Update
  <2>2. PICK os \in Answered(Updated(o, objs[o].id)) : Settle(os, Objects, o)
    BY <1>14 DEF Put
  <2>3. \A p \in Objects : os[p].id = objs[p].id
    BY <1>1, <2>1, <2>2 DEF Answered, Updated, Fetched
  <2>4. objs'[o].id = objs[o].id
    BY <2>1, <2>2, <2>3 DEF Settle
  <2>5. \A r \in Strays' : r \in Strays \/ (r \notin rows /\ objs'[o].id # r)
    BY <2>1, <2>2, <2>3, SettleStrays
  <2> QED BY <2>1, <2>4, <2>5 DEF Strays
(* An object that forgets the id of a row makes no stray of a row that is  *)
(* deleted.                                                                *)
<1>15. ASSUME NEW o, NEW os \in {objs, Deleted(o)}, NEW keep, Delete(objs[o].id),
              Settle(os, keep, Nobody), lost' = lost
       PROVE  Strays' \subseteq Strays /\ lost' = lost
  <2>1. rows' = rows \ {objs[o].id}
    BY <1>15 DEF Delete
  <2>2. \A p \in Objects : os[p].id # objs[p].id => p = o
    BY <1>1, <1>15 DEF Deleted
  <2> QED BY <1>15, <2>1, <2>2, SettleStrays
<1>16. ASSUME NEW o \in held, DeleteResource(o) PROVE Strays' \subseteq Strays /\ lost' = lost
  BY <1>15, <1>16 DEF DeleteResource, Answered
<1>17. CASE Refresh
  <2>1. /\ rows' = rows /\ lost' = lost
        /\ maker' = [r \in rows |-> IF maker[r] \in held THEN maker[r] ELSE Nobody]
        /\ \A p \in Objects : p \in held => objs'[p] = objs[p]
    BY <1>17 DEF Refresh, List, serverVars
  <2> QED BY <1>1, <2>1 DEF Strays
<1>18. ASSUME NEW os, NEW raised \in BOOLEAN, NEW o \in Objects \union {Nobody},
              Continue(raised, os, o)
       PROVE  \E keep \in {held, Objects} : Settle(os, keep, o)
  BY <1>18 DEF Continue
<1>19. CASE AddNext
  <2> DEFINE o == Head(call.todo)
  <2>1. Create /\ objs[o].id = 0 /\ call.op = "add"
    BY <1>19 DEF AddNext, MayPost, None
  <2>2. o \in held /\ o \in Objects
    BY <1>1, <2>1, HeadTailProperties DEF Typed, CallOK
  <2>3. CASE Continue(FALSE, Updated(o, NextRow), o) /\ lost' = lost
    <3>1. PICK keep \in {held, Objects} : Settle(Updated(o, NextRow), keep, o)
      BY <1>18, <2>2, <2>3
    <3> QED BY <1>12, <2>1, <2>2, <2>3, <3>1
  <2>4. CASE Continue(TRUE, objs, o) /\ lost' = lost + 1
    <3>1. PICK keep \in {held, Objects} : Settle(objs, keep, o)
      BY <1>18, <2>2, <2>4
    <3> QED BY <1>12, <2>1, <2>2, <2>4, <3>1
  <2> QED BY <1>19, <2>3, <2>4 DEF AddNext
<1>20. CASE DelNext
  <2> DEFINE o == Head(call.todo)
  <2>1. Delete(objs[o].id) /\ lost' = lost
    BY <1>20 DEF DelNext
  <2>2. CASE Continue(FALSE, Deleted(o), Nobody)
    <3>1. PICK keep \in {held, Objects} : Settle(Deleted(o), keep, Nobody)
      BY <1>18, <2>2
    <3> QED BY <1>15, <2>1, <3>1
  <2>3. CASE Continue(TRUE, objs, Nobody)
    <3>1. PICK keep \in {held, Objects} : Settle(objs, keep, Nobody)
      BY <1>18, <2>3
    <3> QED BY <1>7, <2>1, <3>1
  <2> QED BY <1>20, <2>2, <2>3 DEF DelNext
<1>21. CASE CallFails
  <2>1. Continue(TRUE, objs, Nobody) /\ lost' = lost
    BY <1>21 DEF CallFails
  <2>2. PICK keep \in {held, Objects} : Settle(objs, keep, Nobody)
    BY <1>18, <2>1
  <2> QED BY <1>7, <2>1, <2>2
<1> QED
  BY <1>3, <1>4, <1>5, <1>6, <1>8, <1>9, <1>10, <1>11, <1>13, <1>14, <1>16, <1>17, <1>19,
     <1>20, <1>21 DEF Next

-----------------------------------------------------------------------------
(* What a list shows.                                                      *)

(* Only fetching takes `behind` back, and only that ends `expired`.        *)
LEMMA StepShown == Typed /\ OwnChangesShown /\ [Next]_vars => OwnChangesShown'
<1> SUFFICES ASSUME Typed, OwnChangesShown, [Next]_vars PROVE OwnChangesShown'
  OBVIOUS
<1> USE DEF OwnChangesShown
<1>1. ASSUME call = Idle, expired' = expired, behind' = behind PROVE OwnChangesShown'
  BY <1>1
<1>2. ASSUME UNCHANGED <<call, expired, behind>> PROVE OwnChangesShown'
  BY <1>2
<1>3. CASE UNCHANGED vars \/ New \/ RequestFails \/ Session \/ Environment
  BY <1>2, <1>3 DEF vars, clientVars, New, RequestFails, Session, Environment
<1>4. ASSUME NEW o, Take(o) \/ Drop(o) \/ (\E id \in 1 .. MaxRow : Claim(o, id))
      PROVE  OwnChangesShown'
  BY <1>2, <1>4 DEF Take, Drop, Claim
<1>5. ASSUME NEW o, GetResource(o) \/ Post(o) \/ Put(o) \/ DeleteResource(o)
      PROVE  OwnChangesShown'
  BY <1>2, <1>5 DEF GetResource, Post, Put, DeleteResource, Request
<1>6. ASSUME NEW value, Add(value) PROVE OwnChangesShown'
  BY <1>1, <1>6 DEF Add
<1>7. ASSUME NEW i, NEW j, DelItems(i, j) PROVE OwnChangesShown'
  BY <1>1, <1>7 DEF DelItems
<1>8. CASE Expire
  BY <1>8 DEF Expire
<1>9. CASE Refresh
  BY <1>9 DEF Refresh
<1>10. CASE RefreshFails
  BY <1>2, <1>10 DEF RefreshFails
(* A call that goes on is not idle, and one that ends expires the list.    *)
<1>11. ASSUME call # Idle, NEW raised \in BOOLEAN, NEW os, NEW o, Continue(raised, os, o)
       PROVE  OwnChangesShown'
  <2>1. CASE Len(call.todo) > 1 /\ ~ raised
    <3>1. call' = [op |-> call.op, todo |-> Tail(call.todo)]
      BY <1>11, <2>1 DEF Continue, Typed, CallOK
    <3>2. call.op # "none"
      BY <1>11 DEF Typed, CallOK
    <3> QED BY <3>1, <3>2 DEF Idle
  <2>2. CASE ~ (Len(call.todo) > 1 /\ ~ raised)
    BY <1>11, <2>2 DEF Continue
  <2> QED BY <2>1, <2>2
<1>12. CASE AddNext \/ DelNext
  <2> DEFINE o == Head(call.todo)
  <2>1. CASE AddNext
    <3>1. call # Idle
      BY <2>1 DEF AddNext, Idle
    <3>2. Continue(FALSE, Updated(o, NextRow), o) \/ Continue(TRUE, objs, o)
      BY <2>1 DEF AddNext
    <3> QED BY <1>11, <3>1, <3>2
  <2>2. CASE DelNext
    <3>1. call # Idle
      BY <2>2 DEF DelNext, Idle
    <3>2. Continue(FALSE, Deleted(o), Nobody) \/ Continue(TRUE, objs, Nobody)
      BY <2>2 DEF DelNext
    <3> QED BY <1>11, <3>1, <3>2
  <2> QED BY <1>12, <2>1, <2>2
<1>13. CASE CallFails
  BY <1>11, <1>13 DEF CallFails
<1> QED
  BY <1>3, <1>4, <1>5, <1>6, <1>7, <1>8, <1>9, <1>10, <1>12, <1>13 DEF Next

-----------------------------------------------------------------------------
(* Ids that are stale.                                                     *)

(* A row is made with an id that no row had, or by the object that claims  *)
(* the id; a user with one that no user had.                               *)
LEMMA StepFresh ==
  Typed /\ [Next]_vars =>
    /\ \A r \in rows' \ rows : \/ r = lastRow + 1
                               \/ maker'[r] \in Objects /\ objs[maker'[r]].id = r
    /\ \A u \in users' \ users : u = lastUser + 1
<1> SUFFICES ASSUME Typed, [Next]_vars
    PROVE  /\ \A r \in rows' \ rows : \/ r = lastRow + 1
                                      \/ maker'[r] \in Objects /\ objs[maker'[r]].id = r
           /\ \A u \in users' \ users : u = lastUser + 1
  OBVIOUS
<1> DEFINE Fresh == /\ \A r \in rows' \ rows : \/ r = lastRow + 1
                                               \/ maker'[r] \in Objects /\ objs[maker'[r]].id = r
                    /\ \A u \in users' \ users : u = lastUser + 1
<1>1. ASSUME rows' \subseteq rows, users' \subseteq users PROVE Fresh
  BY <1>1
<1>2. ASSUME Create \/ OthersCreate PROVE Fresh
  BY <1>2 DEF Create, OthersCreate, NextRow
<1>3. ASSUME OthersCreateUser PROVE Fresh
  BY <1>3 DEF OthersCreateUser
<1>4. CASE UNCHANGED vars \/ New \/ Expire \/ Refresh
  BY <1>1, <1>4 DEF vars, serverVars, New, Expire, Refresh, List
<1>5. CASE RefreshFails \/ CallFails \/ RequestFails
  BY <1>1, <1>5 DEF RefreshFails, CallFails, RequestFails, Refuse
<1>6. CASE AddNext
  BY <1>2, <1>6 DEF AddNext
<1>7. CASE DelNext
  BY <1>1, <1>7 DEF DelNext, Delete
<1>8. CASE Session
  BY <1>1, <1>8 DEF Session, Login, Logout
<1>9. CASE Environment
  <2>1. ASSUME NEW id, OthersDelete(id) \/ OthersDeleteUser(id) PROVE Fresh
    BY <1>1, <2>1 DEF OthersDelete, OthersDeleteUser
  <2> QED BY <1>2, <1>3, <1>9, <2>1 DEF Environment, Others
<1>10. ASSUME NEW o, Drop(o) \/ Take(o) \/ (\E id \in 1 .. MaxRow : Claim(o, id)) PROVE Fresh
  BY <1>1, <1>10 DEF Drop, Take, Claim, serverVars
<1>11. ASSUME NEW o, GetResource(o) \/ DeleteResource(o) PROVE Fresh
  BY <1>1, <1>11 DEF GetResource, DeleteResource, Get, Delete, serverVars
<1>12. ASSUME NEW o, Post(o) PROVE Fresh
  BY <1>2, <1>12 DEF Post
<1>13. ASSUME NEW o \in held, Put(o) PROVE Fresh
  <2>1. /\ rows' = rows \union {objs[o].id} /\ users' = users
        /\ \E os : Settle(os, Objects, o)
    BY <1>13 DEF Put, Update
  <2>2. \A r \in rows' \ rows : maker'[r] = o
    BY <2>1 DEF Settle
  <2>3. o \in Objects
    BY DEF Typed, TypeOK
  <2> QED BY <2>1, <2>2, <2>3
<1>14. ASSUME NEW value, Add(value) PROVE Fresh
  BY <1>1, <1>14 DEF Add, serverVars
<1>15. ASSUME NEW i, NEW j, DelItems(i, j) PROVE Fresh
  BY <1>1, <1>15 DEF DelItems, serverVars
<1> QED
  BY <1>4, <1>5, <1>6, <1>7, <1>8, <1>9, <1>10, <1>11, <1>12, <1>13, <1>14, <1>15 DEF Next

-----------------------------------------------------------------------------
(* The theorems.                                                           *)

(* The types hold: in particular, an id that an object was given by the    *)
(* service is one the service has assigned, and an expired list is empty.  *)
THEOREM ClientTyped == Spec => []TypeOK
<1>1. Spec => []Typed
  BY InitTyped, StepTyped, PTL DEF Spec
<1>2. Typed => TypeOK
  BY DEF Typed
<1> QED BY <1>1, <1>2, PTL

(* However `+=` and `post` fail and are repeated, there are no more rows   *)
(* without an object that knows them than answers were lost.               *)
StraysBounded == Typed /\ IsFiniteSet(Strays) /\ Cardinality(Strays) <= lost

THEOREM NoStraysEver == Spec => []NoStrays
<1>1. Init => StraysBounded
  <2>1. ASSUME Init PROVE Strays = {} /\ lost = 0
    BY <2>1 DEF Init, ServiceInit, Strays
  <2> QED BY <2>1, InitTyped, FS_EmptySet DEF StraysBounded
<1>2. StraysBounded /\ [Next]_vars => StraysBounded'
  <2> SUFFICES ASSUME StraysBounded, [Next]_vars PROVE StraysBounded'
    OBVIOUS
  <2>1. Typed' /\ lost \in Nat /\ IsFiniteSet(Strays) /\ Cardinality(Strays) <= lost
    BY StepTyped DEF StraysBounded, Typed
  <2>2. ASSUME NEW S, IsFiniteSet(S), Strays' \subseteq S
        PROVE  IsFiniteSet(Strays') /\ Cardinality(Strays') <= Cardinality(S)
    BY <2>2, FS_Subset
  <2>3. CASE Strays' \subseteq Strays /\ lost' = lost
    <3>1. /\ IsFiniteSet(Strays') /\ Cardinality(Strays') <= Cardinality(Strays)
          /\ Cardinality(Strays) \in Nat /\ Cardinality(Strays') \in Nat
      BY <2>1, <2>2, <2>3, FS_CardinalityType
    <3> QED BY <2>1, <2>3, <3>1 DEF StraysBounded
  <2>4. CASE Strays' \subseteq Strays \union {lastRow'} /\ lost' = lost + 1
    <3> DEFINE S == Strays \union {lastRow'}
    <3>1. IsFiniteSet(S) /\ Cardinality(S) <= Cardinality(Strays) + 1
      <4>1. CASE lastRow' \in Strays
        <5>1. S = Strays
          BY <4>1
        <5>2. IsFiniteSet(Strays) /\ Cardinality(Strays) <= Cardinality(Strays) + 1
          BY <2>1, FS_CardinalityType
        <5> HIDE DEF S
        <5> QED BY <5>1, <5>2
      <4>2. CASE lastRow' \notin Strays
        <5>1. IsFiniteSet(S) /\ Cardinality(S) = Cardinality(Strays) + 1
          BY <2>1, <4>2, FS_AddElement
        <5>2. Cardinality(Strays) \in Nat
          BY <2>1, FS_CardinalityType
        <5> HIDE DEF S
        <5> QED BY <5>1, <5>2
      <4> QED BY <4>1, <4>2
    <3>2. /\ IsFiniteSet(Strays') /\ Cardinality(Strays') <= Cardinality(S)
          /\ Cardinality(Strays) \in Nat /\ Cardinality(Strays') \in Nat
          /\ Cardinality(S) \in Nat
      BY <2>1, <2>2, <2>4, <3>1, FS_CardinalityType
    <3> QED BY <2>1, <2>4, <3>1, <3>2 DEF StraysBounded
  <2> QED BY <2>3, <2>4, StepStrays DEF StraysBounded
<1>3. StraysBounded => NoStrays
  BY DEF StraysBounded, NoStrays, Strays
<1> QED BY <1>1, <1>2, <1>3, PTL DEF Spec

(* A list that is not expired was fetched after all that was done through  *)
(* it, whether `+=` and `del` succeeded, failed or did a part of it.       *)
THEOREM ChangesShown == Spec => []OwnChangesShown
<1>1. Init => Typed /\ OwnChangesShown
  BY InitTyped DEF Init, OwnChangesShown
<1>2. Typed /\ OwnChangesShown /\ [Next]_vars => (Typed /\ OwnChangesShown)'
  BY StepTyped, StepShown
<1> QED BY <1>1, <1>2, PTL DEF Spec

(* The id in an object, and the user_id in a session, come to denote       *)
(* nothing that was made since.                                            *)
THEOREM StaleHarmless == Spec => StaleIsHarmless
<1>1. Typed /\ [Next]_vars =>
        [/\ \A r \in rows' \ rows, o \in Objects :
              objs[o].id = r /\ objs[o].reason = "DOES_HAVE_AN_ID" =>
                maker'[r] # Nobody /\ objs[maker'[r]].id = r
         /\ cookie \notin users' \ users]_vars
  <2> SUFFICES ASSUME Typed, [Next]_vars
      PROVE  /\ \A r \in rows' \ rows, o \in Objects :
                   objs[o].id = r /\ objs[o].reason = "DOES_HAVE_AN_ID" =>
                     maker'[r] # Nobody /\ objs[maker'[r]].id = r
             /\ cookie \notin users' \ users
    OBVIOUS
  <2>1. /\ \A r \in rows' \ rows : \/ r = lastRow + 1
                                   \/ maker'[r] \in Objects /\ objs[maker'[r]].id = r
        /\ \A u \in users' \ users : u = lastUser + 1
    BY StepFresh
  <2>2. /\ lastRow \in Nat /\ lastUser \in Nat /\ cookie \in 0 .. lastUser
        /\ \A o \in Objects : objs[o].reason = "DOES_HAVE_AN_ID" => objs[o].id \in 1 .. lastRow
    BY DEF Typed, TypeOK
  <2>3. \A o \in Objects : objs[o].reason = "DOES_HAVE_AN_ID" => objs[o].id # lastRow + 1
    BY <2>2
  <2>4. cookie # lastUser + 1
    BY <2>2
  <2>5. Nobody \notin Objects
    BY DEF Nobody
  <2> QED BY <2>1, <2>3, <2>4, <2>5
<1>2. Spec => []Typed
  BY InitTyped, StepTyped, PTL DEF Spec
<1> QED BY <1>1, <1>2, PTL DEF Spec, StaleIsHarmless
=============================================================================
