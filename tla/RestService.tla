---------------------------- MODULE RestService ----------------------------
(***************************************************************************)
(* The service as one of its clients meets it: the rows of a collection    *)
(* (client.schedules), the ids they get, and the session that every        *)
(* request but a login needs.  The session is a signed cookie the client   *)
(* keeps, so it outlives the user it names.  Other clients POST and DELETE *)
(* between any two requests of this one; they do not create rows by PUT,   *)
(* which routers/base.py warns about.                                      *)
(* Sources: service/routers/base.py, routers/auth.py, dependencies.py.     *)
(***************************************************************************)
EXTENDS Integers

CONSTANTS MaxRow,  \* bound on the ids of rows
          MaxUser  \* bound on the ids of users

ASSUME ServiceAssumption == MaxRow \in Nat /\ MaxUser \in Nat /\ MaxUser >= 1

VARIABLES rows,     \* ids of the rows
          lastRow,  \* sqlite_autoincrement: the greatest id a row ever had
          users,    \* ids of the users
          lastUser, \* sqlite_autoincrement of the users
          cookie    \* this client's session: the user_id in it, or None

serverVars == <<rows, lastRow, users, lastUser, cookie>>

None == 0

Greater(a, b) == IF a >= b THEN a ELSE b

(* The first engine on a new database adds an administrator.               *)
ServiceInit ==
  /\ rows = {} /\ lastRow = 0
  /\ users = {1} /\ lastUser = 1
  /\ cookie = None

-----------------------------------------------------------------------------
(* What a request does once it is answered.                                *)

(* current_user.                                                           *)
LoggedIn == cookie \in users

\* Mutant: without autoincrement, SQLite reuses the ids after the greatest one left.
NextRowReused == IF rows = {} THEN 1 ELSE 1 + CHOOSE r \in rows : \A q \in rows : q <= r

NextRow == lastRow + 1

(* POST                                                                    *)
Create ==
  /\ LoggedIn /\ NextRow <= MaxRow
  /\ rows' = rows \union {NextRow}
  /\ lastRow' = NextRow
  /\ UNCHANGED <<users, lastUser, cookie>>

(* PUT creates a row with any id, or writes the one there is.              *)
Update(id) ==
  /\ LoggedIn
  /\ rows' = rows \union {id}
  /\ lastRow' = Greater(lastRow, id)
  /\ UNCHANGED <<users, lastUser, cookie>>

(* DELETE is content with a row that is gone.                              *)
Delete(id) ==
  /\ LoggedIn
  /\ rows' = rows \ {id}
  /\ UNCHANGED <<lastRow, users, lastUser, cookie>>

(* GET of the collection, or of one row of it.                             *)
List    == LoggedIn /\ UNCHANGED serverVars
Get(id) == LoggedIn /\ id \in rows /\ UNCHANGED serverVars

(* A request that changes no row: refused by the service, 404, or never    *)
(* arrived.  A 401 for a user who is gone clears the session; if it does   *)
(* not arrive, the client keeps its cookie.                                *)
Refuse ==
  /\ cookie' \in IF LoggedIn THEN {cookie} ELSE {cookie, None}
  /\ UNCHANGED <<rows, lastRow, users, lastUser>>

(* The cookie changes with the answer, and not if it is lost.              *)
Login(u) ==
  /\ u \in users
  /\ cookie' = u
  /\ UNCHANGED <<rows, lastRow, users, lastUser>>

Logout ==
  /\ cookie' = None
  /\ UNCHANGED <<rows, lastRow, users, lastUser>>

-----------------------------------------------------------------------------
(* Other clients.  They need a user to log in as, and once the last one is *)
(* deleted nobody can add another: the administrator is only created with  *)
(* the table.                                                              *)

OthersCreate ==
  /\ users # {} /\ NextRow <= MaxRow
  /\ rows' = rows \union {NextRow}
  /\ lastRow' = NextRow
  /\ UNCHANGED <<users, lastUser, cookie>>

OthersDelete(id) ==
  /\ users # {}
  /\ rows' = rows \ {id}
  /\ UNCHANGED <<lastRow, users, lastUser, cookie>>

OthersCreateUser ==
  /\ users # {} /\ lastUser < MaxUser
  /\ users' = users \union {lastUser + 1}
  /\ lastUser' = lastUser + 1
  /\ UNCHANGED <<rows, lastRow, cookie>>

OthersDeleteUser(u) ==
  /\ users' = users \ {u}
  /\ UNCHANGED <<rows, lastRow, lastUser, cookie>>

Others ==
  \/ OthersCreate
  \/ \E id \in rows : OthersDelete(id)
  \/ OthersCreateUser
  \/ \E u \in users : OthersDeleteUser(u)
=============================================================================
