------------------------------- MODULE Store -------------------------------
(***************************************************************************)
(* The server's persistent state: the three SQLite tables behind           *)
(* server/src/data/store.cpp.  Every insert is a statement of its own that *)
(* SQLite commits at once, so the tables survive a crash of the server     *)
(* between any two of them.  A call of the Store that throws inside SQLite *)
(* (disk full, database locked, I/O error) returns false to its caller;    *)
(* a step of the server names in `bad' the calls of it that fail so, and   *)
(* `faults' counts the steps that had one.  A failing query fails before   *)
(* its first row.                                                          *)
(***************************************************************************)
EXTENDS Data

CONSTANTS NoAccount,     \* "no row in userinfo"
          InitAccount,   \* the passwords of the accounts in the database file
          InitFriend,    \* the friend pairs in the database file
          MaxFaults      \* bound: steps with a failing Store call

ASSUME StoreAssumption ==
  /\ NoAccount \notin Nat
  /\ InitAccount \in [User -> Password \cup {NoAccount}]
  /\ InitFriend \subseteq User \X User
  /\ \A u, v \in User : <<u, v>> \in InitFriend => <<v, u>> \in InitFriend
  /\ MaxFaults \in Nat

VARIABLES userinfo,      \* id -> password: id is the PRIMARY KEY
          friendinfo,    \* <<id, friendid>> -> number of such rows: no key at all
          messageinfo,   \* the rows in rowid order
          faults         \* steps in which a Store call has failed

tables == <<userinfo, friendinfo, messageinfo>>

StoreInit ==
  /\ userinfo = InitAccount
  /\ friendinfo = [pair \in User \X User |-> IF pair \in InitFriend THEN 1 ELSE 0]
  /\ messageinfo = <<>>
  /\ faults = 0

StoreTypeOK ==
  /\ userinfo \in [User -> Password \cup {NoAccount}]
  /\ friendinfo \in [User \X User -> Nat]
  /\ messageinfo \in Seq(Message)
  /\ faults \in 0 .. MaxFaults

\* Which of `calls' fail in this step, within the bound on such steps.
Failing(calls, bad) ==
  /\ bad \in SUBSET calls
  /\ bad # {} => faults < MaxFaults
  /\ faults' = IF bad = {} THEN faults ELSE faults + 1

-----------------------------------------------------------------------------
\* Queries.  getPersional by id reports success from the values it read: an
\* account whose id or password is 0 is one it never finds.  (Nor one without a
\* name, but the sign dialog registers none.)
getPersional(id) == userinfo[id] # NoAccount /\ id # 0 /\ userinfo[id] # 0

\* By name the statement is '... = '%?%'': it has no parameter to bind, bind
\* throws, and the search fails whatever the name.
getPersionalByName(id) == FALSE

getFriend(id) == {friend \in User : friendinfo[<<id, friend>>] > 0}

\* Variant of getMessage: the latest row first.
getMessageDescending(id) ==
  LET rows == {row \in DOMAIN messageinfo : id \in {messageinfo[row].sender, messageinfo[row].receiver}}
      last == Cardinality(rows)
  IN  [k \in 1 .. last |-> messageinfo[Nth(rows, last + 1 - k)]]

\* The rows in the order of their rowids.
getMessage(id) ==
  Select(messageinfo,
    {row \in DOMAIN messageinfo : id \in {messageinfo[row].sender, messageinfo[row].receiver}})

\* Inserts, as the next value of the table.
insertPersional(id, password) == [userinfo EXCEPT ![id] = password]

insertFriend(table, id, friend) == [table EXCEPT ![<<id, friend>>] = @ + 1]

insertMessage(row) == Append(messageinfo, row)
=============================================================================
