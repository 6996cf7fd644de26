--------------------------- MODULE RowLocksProofs ---------------------------
(***************************************************************************)
(* The transactions of RowLocks implement the atomic operations of Escrow, *)
(* whatever the orders and the transactions are.  The argument is that of  *)
(* two-phase locking, made exact for these handlers: a row that somebody   *)
(* has locked does not change, so every transaction works on the database  *)
(* as it is (Faithful); when it ends it has locked the rows it writes      *)
(* (Asked); an order row that a placement writes without a lock did not    *)
(* exist for anybody else (Known); and the orders a batch has listed are   *)
(* still all there are, because a placement needs the row of the customer  *)
(* that the batch holds (Listed).                                          *)
(***************************************************************************)
EXTENDS RowLocks, Iteration, FiniteSetTheorems, TLAPS

Batches == {t \in Txns : t.kind \in {"fee", "call", "force"}}

DbOK ==
  /\ db = [r \in Rows |-> db[r]]
  /\ db["customer"] \in Int /\ db["position"] \in [qty : Int, avail : Int]
  /\ \A o \in Orders : db[o] \in {"none", "pending", "filled", "cancelled"}

Shape ==
  /\ DbOK
  /\ seen = [t \in Txns |-> seen[t]]
  /\ TypeOK
  /\ \A t \in Txns : pc[t] = "run" => mode[t] \in Modes(t)
  /\ \A t \in Txns : pc[t] # "run" => DOMAIN seen[t] = {} /\ want[t] = "nothing"

\* Nobody has locked a row that another has.
Alone == \A t, u \in Txns : DOMAIN seen[t] \cap DOMAIN seen[u] # {} => t = u

\* What a transaction has read under a lock is what the row still holds.
Faithful == \A t \in Txns : \A r \in DOMAIN seen[t] : seen[t][r] = db[r]

\* The orders a transaction is about, waits for or has locked have been placed.
Known == \A t \in Txns :
  /\ t.kind \in {"match", "instant", "cancel"} /\ pc[t] = "run" => db[t.order] # "none"
  /\ \A o \in todo[t] \cup ((DOMAIN seen[t] \cup {want[t]}) \cap Orders) : db[o] # "none"

\* A transaction that waits for nothing has locked the rows it is about to write:
\* s are its rows, q is its list and m what it found outside these rows.
Complete(t, s, q, m) ==
  /\ t.kind \in {"match", "instant", "cancel"} => t.order \in DOMAIN s
  /\ t.kind \in {"match", "instant", "cancel"} /\ m # "skip" /\ s[t.order] = "pending" =>
       IF m = "fill" THEN {"customer", "position"} \subseteq DOMAIN s
       ELSE (IF t.order \in Buys THEN "customer" ELSE "position") \in DOMAIN s
  /\ t.kind = "place" => "customer" \in DOMAIN s
  /\ t.kind = "place" /\ t.order \in Sells => "position" \in DOMAIN s
  /\ t \in Batches /\ "position" \in DOMAIN s /\ s["position"].qty > 0 /\ m # "pay" =>
       q \subseteq DOMAIN s

Asked == \A t \in Txns : Ready(t) => Complete(t, seen[t], todo[t], mode[t])

\* The orders that a batch settles, of the orders S.
Listable(t, S) == IF t.kind = "force" THEN S \cap Sells ELSE S

\* A batch that holds the position holds the customer as well, and all that is
\* pending is what its query has returned.
Listed == \A t \in Batches :
  /\ "position" \in DOMAIN seen[t] \cup {want[t]} => "customer" \in DOMAIN seen[t]
  /\ "position" \in DOMAIN seen[t] => Listable(t, Atomic!Pending(db)) \subseteq todo[t]
  /\ t.kind = "force" => todo[t] \subseteq Sells

LockInv == Shape /\ Alone /\ Faithful /\ Known /\ Asked /\ Listed

-----------------------------------------------------------------------------
\* What a transaction is about.
LEMMA Kinds ==
  ASSUME NEW t \in Txns
  PROVE  \/ t.kind \in {"match", "instant", "cancel", "place"} /\ t.order \in Orders
         \/ t.kind \in {"fee", "call", "force"}
  BY RowLocksAssumption DEF TxnRecords

\* The rows of the customer and of the position are no orders.
LEMMA RowNames ==
  /\ "customer" \notin Orders /\ "position" \notin Orders /\ "nothing" \notin Rows
  /\ Sells \subseteq Orders /\ IsFiniteSet(Orders) /\ InitialShares \in Nat
  BY RowLocksAssumption DEF Atomic!LegalConstants, IsFiniteSet, Atomic!IsFiniteSet

\* Which query a transaction of each kind makes next.
LEMMA ByKind ==
  ASSUME NEW t, NEW s, NEW q
  PROVE  /\ t.kind \in {"match", "instant", "cancel"} => Candidates(t, s, q) = SettleRows(t, s)
         /\ t.kind = "place" => Candidates(t, s, q) = PlaceRows(t, s)
         /\ t.kind \in {"fee", "call"} => Candidates(t, s, q) = BatchRows(t, s, q)
         /\ t.kind = "force" => Candidates(t, s, q) = ForceRows(s, q)
  BY DEF Candidates

\* What a transaction may ask for when it has the rows s and the list q: a row it
\* does not have, an order that it is about or has listed, and the position in
\* a batch only when it has the customer.
LEMMA Asks ==
  ASSUME NEW t \in Txns, NEW s, NEW q \in SUBSET Orders
  PROVE  /\ Candidates(t, s, q) \subseteq Rows \ DOMAIN s
         /\ \A o \in Candidates(t, s, q) \cap Orders :
              o \in q \/ (t.kind \in {"match", "instant", "cancel"} /\ o = t.order)
         /\ t \in Batches /\ "position" \in Candidates(t, s, q) => "customer" \in DOMAIN s
  <1> USE RowNames DEF Rows
  <1>1. CASE t.kind \in {"match", "instant", "cancel"}
    BY <1>1, Kinds, ByKind DEF SettleRows, FillRows, ReleaseRows, Batches
  <1>2. CASE t.kind = "place"
    BY <1>2, Kinds, ByKind DEF PlaceRows, Batches
  <1>3. CASE t.kind \in {"fee", "call"}
    BY <1>3, ByKind DEF BatchRows, Batches
  <1>4. CASE t.kind = "force"
    BY <1>4, ByKind DEF ForceRows, Batches
  <1> QED BY <1>1, <1>2, <1>3, <1>4, Kinds

\* A transaction that has nothing left to ask for has what it needs.
LEMMA NothingLeft ==
  ASSUME NEW t \in Txns, NEW s, NEW q \in SUBSET Orders, Candidates(t, s, q) = {},
         t.kind = "force" => mode[t] = "do"
  PROVE  Complete(t, s, q, mode[t])
  <1> USE RowNames DEF Rows, Complete, Batches
  <1>1. CASE t.kind \in {"match", "instant", "cancel"}
    BY <1>1, ByKind DEF SettleRows, FillRows, ReleaseRows, StillPending
  <1>2. CASE t.kind = "place"
    BY <1>2, ByKind DEF PlaceRows
  <1>3. CASE t.kind \in {"fee", "call"}
    BY <1>3, ByKind DEF BatchRows
  <1>4. CASE t.kind = "force"
    BY <1>4, ByKind DEF ForceRows
  <1> QED BY <1>1, <1>2, <1>3, <1>4, Kinds

\* A transaction that has read nothing has locked nothing.
LEMMA NoRows == DOMAIN << >> = {}
  OBVIOUS

\* At the start nothing is locked and no order exists.
LEMMA LocksInit == Init => LockInv
  <1> SUFFICES ASSUME Init PROVE LockInv
    OBVIOUS
  <1> USE RowNames, NoRows DEF Init, Rows
  <1>1. /\ db = [r \in Rows |-> IF r = "customer" THEN 0
                                ELSE IF r = "position"
                                     THEN [qty |-> InitialShares, avail |-> InitialShares]
                                     ELSE "none"]
    BY DEF Atomic!Init, Atomic!Rows, Atomic!Shares
  <1>2. DbOK
    BY <1>1 DEF DbOK
  <1>3. Shape
    BY <1>1, <1>2 DEF Shape, TypeOK, DbOK
  <1>4. Alone /\ Faithful /\ Known /\ Asked /\ Listed
    BY <1>1 DEF Alone, Faithful, Known, Asked, Listed, Ready, Batches
  <1> QED BY <1>3, <1>4 DEF LockInv

\* What the choice of the next row establishes, when the rows s and the list q
\* become those of the transaction.
LEMMA AskForOK ==
  ASSUME NEW t \in Txns, NEW s, NEW q \in SUBSET Orders, Shape, AskFor(t, s, q)
  PROVE  /\ want' = [want EXCEPT ![t] = want'[t]]
         /\ want'[t] \in (Rows \ DOMAIN s) \cup {"nothing"}
         /\ want'[t] \in Orders =>
              \/ want'[t] \in q
              \/ t.kind \in {"match", "instant", "cancel"} /\ want'[t] = t.order
         /\ t \in Batches /\ want'[t] = "position" => "customer" \in DOMAIN s
         /\ want'[t] = "nothing" => Candidates(t, s, q) = {}
  <1>1. PICK r \in Candidates(t, s, q) \cup {"nothing"} :
          /\ r = "nothing" <=> Candidates(t, s, q) = {}
          /\ want' = [want EXCEPT ![t] = r]
    BY DEF AskFor
  <1>2. want'[t] = r
    BY <1>1 DEF Shape, TypeOK
  <1>3. r \in Candidates(t, s, q) \/ (r = "nothing" /\ Candidates(t, s, q) = {})
    BY <1>1
  <1>4. CASE r \in Candidates(t, s, q)
    <2>1. r \in Rows \ DOMAIN s /\ r # "nothing"
      BY <1>4, Asks, RowNames
    <2>2. r \in Orders => (r \in q \/ (t.kind \in {"match", "instant", "cancel"} /\ r = t.order))
      BY <1>4, Asks
    <2>3. t \in Batches /\ r = "position" => "customer" \in DOMAIN s
      BY <1>4, Asks
    <2> QED BY <1>1, <1>2, <2>1, <2>2, <2>3
  <1>5. CASE r = "nothing" /\ Candidates(t, s, q) = {}
    BY <1>1, <1>2, <1>5, RowNames DEF Rows
  <1> QED BY <1>3, <1>4, <1>5

\* What a transaction may find outside these rows.
LEMMA ModesOf ==
  ASSUME NEW t \in Txns
  PROVE  /\ Modes(t) \subseteq {"fill", "drop", "skip", "pay", "release", "close", "do"}
         /\ t.kind \in {"match", "instant"} => Modes(t) \subseteq {"fill", "drop", "skip"}
         /\ t.kind \in {"fee", "call"} => Modes(t) = {"pay", "release", "close"}
         /\ t.kind \in {"cancel", "place", "force"} => Modes(t) = {"do"}
  <1>1. t.kind \in {"match", "instant"} =>
          Modes(t) = IF t.order \in Marketable THEN {"fill", "drop"} ELSE {"fill", "drop", "skip"}
    BY DEF Modes
  <1>2. t.kind \in {"fee", "call"} => Modes(t) = {"pay", "release", "close"}
    BY DEF Modes
  <1>3. t.kind \in {"cancel", "place", "force"} => Modes(t) = {"do"}
    BY DEF Modes
  <1> QED BY <1>1, <1>2, <1>3, Kinds

\* A transaction that has locked nothing has a first row to ask for.
LEMMA FirstAsk ==
  ASSUME NEW t \in Txns, NEW s, NEW q, DOMAIN s = {}
  PROVE  Candidates(t, s, q) # {}
  <1>1. CASE t.kind \in {"match", "instant", "cancel"}
    BY <1>1, ByKind DEF SettleRows
  <1>2. CASE t.kind = "place"
    BY <1>2, ByKind DEF PlaceRows
  <1>3. CASE t.kind \in {"fee", "call"}
    BY <1>3, ByKind DEF BatchRows
  <1>4. CASE t.kind = "force"
    BY <1>4, ByKind DEF ForceRows
  <1> QED BY <1>1, <1>2, <1>3, <1>4, Kinds

\* Beginning locks nothing and leaves the rows alone.
LEMMA BeginInv ==
  ASSUME LockInv, NEW t \in Txns, Begin(t)
  PROVE  LockInv'
  <1> USE DEF LockInv
  <1>1. /\ pc[t] = "idle" /\ pc' = [pc EXCEPT ![t] = "run"]
        /\ db' = db /\ todo' = todo /\ seen' = seen
        /\ t.kind \in {"match", "instant", "cancel"} => db[t.order] # "none"
        /\ AskFor(t, seen[t], todo[t])
    BY DEF Begin
  <1>2. PICK m \in Modes(t) : mode' = [mode EXCEPT ![t] = m]
    BY DEF Begin
  <1>3. /\ todo[t] \in SUBSET Orders /\ DOMAIN seen[t] = {}
        /\ \A u \in Txns : todo[u] \in SUBSET Orders
    BY <1>1 DEF Shape, TypeOK
  <1>4. /\ want' = [want EXCEPT ![t] = want'[t]]
        /\ want'[t] \in Rows
        /\ want'[t] \in Orders =>
             \/ want'[t] \in todo[t]
             \/ t.kind \in {"match", "instant", "cancel"} /\ want'[t] = t.order
        /\ ~ (t \in Batches /\ want'[t] = "position")
    <2> HIDE DEF LockInv
    <2>1. Shape
      BY DEF LockInv
    <2>2. Candidates(t, seen[t], todo[t]) # {}
      BY <1>3, FirstAsk
    <2>3. /\ want' = [want EXCEPT ![t] = want'[t]]
          /\ want'[t] \in (Rows \ DOMAIN seen[t]) \cup {"nothing"}
          /\ want'[t] = "nothing" => Candidates(t, seen[t], todo[t]) = {}
      BY <1>1, <1>3, <2>1, AskForOK
    <2>4. /\ want'[t] \in Orders =>
               \/ want'[t] \in todo[t]
               \/ t.kind \in {"match", "instant", "cancel"} /\ want'[t] = t.order
          /\ t \in Batches /\ want'[t] = "position" => "customer" \in DOMAIN seen[t]
      BY <1>1, <1>3, <2>1, AskForOK
    <2> QED BY <1>3, <2>2, <2>3, <2>4
  <1>5. Shape'
    BY <1>1, <1>2, <1>3, <1>4, ModesOf DEF Shape, TypeOK, DbOK
  <1>6. Alone' /\ Faithful'
    BY <1>1 DEF Alone, Faithful
  <1>7. Known'
    BY <1>1, <1>4 DEF Known, Shape, TypeOK
  <1>8. Asked'
    BY <1>1, <1>2, <1>4, RowNames DEF Asked, Ready, Shape, TypeOK
  <1>9. Listed'
    BY <1>1, <1>4 DEF Listed, Listable, Atomic!Pending, Batches, Shape, TypeOK
  <1> QED BY <1>5, <1>6, <1>7, <1>8, <1>9

\* Locking reads a row that nobody has as it is now, and the position together
\* with the orders that are pending.
LEMMA LockStepInv ==
  ASSUME LockInv, NEW t \in Txns, Lock(t)
  PROVE  LockInv'
  <1> DEFINE r == want[t]
             s == Locked(t, r)
             q == Queried(t, r)
  <1>1. /\ pc[t] = "run" /\ r # "nothing" /\ Free(r)
        /\ seen' = [seen EXCEPT ![t] = s]
        /\ todo' = [todo EXCEPT ![t] = q]
        /\ AskFor(t, s, q)
        /\ db' = db /\ pc' = pc /\ mode' = mode
    BY DEF Lock
  <1>2. /\ Shape /\ Alone /\ Faithful /\ Known /\ Asked /\ Listed
        /\ \A u \in Txns : todo[u] \in SUBSET Orders
        /\ r \in Rows
    BY <1>1 DEF LockInv, Shape, TypeOK
  <1>3. /\ DOMAIN s = DOMAIN seen[t] \cup {r}
        /\ \A x \in DOMAIN s : s[x] = db[x]
    BY <1>2 DEF Locked, Faithful
  <1>4. /\ q \in SUBSET Orders
        /\ \A o \in q : db[o] # "none"
        /\ r # "position" => q = todo[t]
        /\ t \in Batches /\ r = "position" => Listable(t, Atomic!Pending(db)) \subseteq q
        /\ t.kind = "force" => q \subseteq Sells
    BY <1>2 DEF Queried, Atomic!Pending, Listable, Batches, Known, Listed
  <1>5. /\ seen'[t] = s /\ \A u \in Txns \ {t} : seen'[u] = seen[u]
        /\ todo'[t] = q /\ \A u \in Txns \ {t} : todo'[u] = todo[u]
        /\ seen' = [u \in Txns |-> seen'[u]]
        /\ todo' \in [Txns -> SUBSET Orders]
    <2> HIDE DEF s, q
    <2> QED BY <1>1, <1>2, <1>4 DEF Shape, TypeOK
  <1> HIDE DEF s, q
  <1>6. /\ want' = [want EXCEPT ![t] = want'[t]]
        /\ want'[t] \in (Rows \ DOMAIN s) \cup {"nothing"}
        /\ want'[t] = "nothing" => Candidates(t, s, q) = {}
    BY <1>1, <1>2, <1>4, AskForOK
  <1>7. /\ want'[t] \in Orders =>
             \/ want'[t] \in q
             \/ t.kind \in {"match", "instant", "cancel"} /\ want'[t] = t.order
        /\ t \in Batches /\ want'[t] = "position" => "customer" \in DOMAIN s
    BY <1>1, <1>2, <1>4, AskForOK
  <1>8. /\ want'[t] \in Rows \cup {"nothing"}
        /\ \A u \in Txns \ {t} : want'[u] = want[u]
        /\ want' \in [Txns -> Rows \cup {"nothing"}]
    BY <1>2, <1>6 DEF Shape, TypeOK
  <1>9. Shape'
    BY <1>1, <1>2, <1>3, <1>5, <1>8 DEF Shape, TypeOK, DbOK, Modes
  <1>10. Alone'
    BY <1>1, <1>2, <1>3, <1>5 DEF Alone, Free
  <1>11. Faithful'
    BY <1>1, <1>2, <1>3, <1>5 DEF Faithful
  <1>12. Known'
    <2> SUFFICES ASSUME NEW u \in Txns
        PROVE  /\ u.kind \in {"match", "instant", "cancel"} /\ pc[u] = "run" => db[u.order] # "none"
               /\ \A o \in todo'[u] \cup ((DOMAIN seen'[u] \cup {want'[u]}) \cap Orders) :
                    db[o] # "none"
      BY <1>1 DEF Known
    <2>1. CASE u = t
      BY <1>1, <1>2, <1>3, <1>4, <1>5, <1>7, <2>1 DEF Known
    <2>2. CASE u # t
      BY <1>2, <1>5, <1>8, <2>2 DEF Known
    <2> QED BY <2>1, <2>2
  <1>13. Asked'
    <2> SUFFICES ASSUME NEW u \in Txns, pc[u] = "run", want'[u] = "nothing"
        PROVE  Complete(u, seen'[u], todo'[u], mode[u])
      BY <1>1 DEF Asked, Ready, Complete
    <2>1. CASE u = t
      <3>1. t.kind = "force" => mode[t] = "do"
        BY <1>1, <1>2, ModesOf DEF Shape
      <3> QED BY <1>4, <1>5, <1>6, <2>1, <3>1, NothingLeft
    <2>2. CASE u # t
      BY <1>2, <1>5, <1>8, <2>2 DEF Asked, Ready
    <2> QED BY <2>1, <2>2
  <1>14. Listed'
    <2> SUFFICES ASSUME NEW u \in Batches
        PROVE  /\ "position" \in DOMAIN seen'[u] \cup {want'[u]} => "customer" \in DOMAIN seen'[u]
               /\ "position" \in DOMAIN seen'[u] =>
                    Listable(u, Atomic!Pending(db)) \subseteq todo'[u]
               /\ u.kind = "force" => todo'[u] \subseteq Sells
      BY <1>1 DEF Listed, Listable, Atomic!Pending
    <2>1. CASE u = t
      BY <1>2, <1>3, <1>4, <1>5, <1>7, <2>1 DEF Listed
    <2>2. CASE u # t
      BY <1>2, <1>5, <1>8, <2>2 DEF Listed, Batches
    <2> QED BY <2>1, <2>2
  <1> QED BY <1>9, <1>10, <1>11, <1>12, <1>13, <1>14 DEF LockInv

\* A transaction changes rows that it has locked, and an order that did not exist.
OwnRows(t) == \A r \in Rows :
  db'[r] = db[r] \/ r \in DOMAIN seen[t] \/ (r \in Orders /\ db[r] = "none")

\* No order is forgotten, and new ones need the row of the customer.
OrdersKept(t) ==
  /\ \A o \in Orders : db[o] # "none" => db'[o] # "none"
  /\ "customer" \in DOMAIN seen[t] \/ Atomic!Pending(db)' \subseteq Atomic!Pending(db)

\* The end of a transaction that wrote no more than that disturbs nobody.
LEMMA EndInv ==
  ASSUME LockInv, NEW t \in Txns, Ended(t), DbOK', OwnRows(t), OrdersKept(t)
  PROVE  LockInv'
  <1>1. /\ pc'[t] \in {"idle", "over"} /\ \A u \in Txns \ {t} : pc'[u] = pc[u]
        /\ mode'[t] = "do" /\ \A u \in Txns \ {t} : mode'[u] = mode[u]
        /\ want'[t] = "nothing" /\ \A u \in Txns \ {t} : want'[u] = want[u]
        /\ todo'[t] = {} /\ \A u \in Txns \ {t} : todo'[u] = todo[u]
        /\ DOMAIN seen'[t] = {} /\ \A u \in Txns \ {t} : seen'[u] = seen[u]
    BY NoRows DEF LockInv, Shape, TypeOK, Ended, Afterwards, NoLongerSeen
  <1>2. /\ Shape /\ Alone /\ Faithful /\ Known /\ Asked /\ Listed
        /\ \A u \in Txns : DOMAIN seen[u] \subseteq Rows
    BY DEF LockInv, Shape, TypeOK
  <1>3. Shape'
    <2>1. /\ seen' = [u \in Txns |-> seen'[u]]
          /\ \A u \in Txns : DOMAIN seen'[u] \subseteq Rows
      BY <1>1, <1>2 DEF Ended, NoLongerSeen, Shape
    <2>2. /\ pc' \in [Txns -> {"idle", "run", "over"}]
          /\ mode' \in [Txns -> {"fill", "drop", "skip", "pay", "release", "close", "do"}]
          /\ want' \in [Txns -> Rows \cup {"nothing"}]
          /\ todo' \in [Txns -> SUBSET Orders]
      BY <1>1, <1>2 DEF Ended, Afterwards, Shape, TypeOK
    <2>3. \A u \in Txns : pc'[u] = "run" => mode'[u] \in Modes(u)
      BY <1>1, <1>2 DEF Shape
    <2>4. \A u \in Txns : pc'[u] # "run" => DOMAIN seen'[u] = {} /\ want'[u] = "nothing"
      BY <1>1, <1>2 DEF Shape
    <2> QED BY <2>1, <2>2, <2>3, <2>4 DEF Shape, TypeOK, DbOK, Modes
  <1>4. Alone'
    BY <1>1, <1>2 DEF Alone
  <1>5. Faithful'
    <2> SUFFICES ASSUME NEW u \in Txns, NEW r \in DOMAIN seen'[u] PROVE seen'[u][r] = db'[r]
      BY DEF Faithful
    <2>1. u # t /\ seen'[u] = seen[u] /\ r \in DOMAIN seen[u] /\ r \in Rows
      BY <1>1, <1>2
    <2>2. r \notin DOMAIN seen[t]
      BY <1>2, <2>1 DEF Alone
    <2>3. ~ (r \in Orders /\ db[r] = "none")
      BY <1>2, <2>1 DEF Known
    <2>4. db'[r] = db[r]
      BY <2>1, <2>2, <2>3 DEF OwnRows
    <2> QED BY <1>2, <2>1, <2>4 DEF Faithful
  <1>6. Known'
    <2> SUFFICES ASSUME NEW u \in Txns
        PROVE  /\ u.kind \in {"match", "instant", "cancel"} /\ pc'[u] = "run" =>
                    db'[u.order] # "none"
               /\ \A o \in todo'[u] \cup ((DOMAIN seen'[u] \cup {want'[u]}) \cap Orders) :
                    db'[o] # "none"
      BY DEF Known
    <2>1. CASE u = t
      BY <1>1, <2>1, RowNames DEF Rows
    <2>2. CASE u # t
      <3>1. todo[u] \subseteq Orders
        BY <1>2 DEF Shape, TypeOK
      <3>2. u.kind \in {"match", "instant", "cancel"} => u.order \in Orders
        BY Kinds
      <3> QED BY <1>1, <1>2, <2>2, <3>1, <3>2 DEF Known, OrdersKept
    <2> QED BY <2>1, <2>2
  <1>7. Asked'
    BY <1>1, <1>2 DEF Asked, Ready, Complete
  <1>8. Listed'
    <2> SUFFICES ASSUME NEW u \in Batches
        PROVE  /\ "position" \in DOMAIN seen'[u] \cup {want'[u]} => "customer" \in DOMAIN seen'[u]
               /\ "position" \in DOMAIN seen'[u] =>
                    Listable(u, Atomic!Pending(db)') \subseteq todo'[u]
               /\ u.kind = "force" => todo'[u] \subseteq Sells
      BY DEF Listed, Listable, Atomic!Pending
    <2>1. u \in Txns
      BY DEF Batches
    <2>2. CASE u = t
      BY <1>1, <2>2
    <2>3. CASE u # t
      <3>1. seen'[u] = seen[u] /\ want'[u] = want[u] /\ todo'[u] = todo[u]
        BY <1>1, <2>1, <2>3
      <3>2. "customer" \in DOMAIN seen[u] =>
              Listable(u, Atomic!Pending(db)') \subseteq Listable(u, Atomic!Pending(db))
        BY <1>2, <2>1, <2>3 DEF Alone, OrdersKept, Listable
      <3> QED BY <1>2, <3>1, <3>2 DEF Listed
    <2> QED BY <2>2, <2>3
  <1> QED BY <1>3, <1>4, <1>5, <1>6, <1>7, <1>8 DEF LockInv

-----------------------------------------------------------------------------
\* Escrow counts with its own instance of Cardinality.
LEMMA SameCardinality == \A S : Atomic!Cardinality(S) = Cardinality(S)
  BY Zenon DEF Atomic!Cardinality, Cardinality

\* The database after a change of the kind all operations make.
LEMMA ChangedOK ==
  ASSUME DbOK, NEW f \in Int, NEW p \in [qty : Int, avail : Int], NEW S \in SUBSET Orders,
         NEW st \in {"none", "pending", "filled", "cancelled"},
         db' = Atomic!Changed(db, f, p, S, st)
  PROVE  /\ DbOK'
         /\ db'["customer"] = db["customer"] + f /\ db'["position"] = p
         /\ \A o \in S : db'[o] = st
         /\ \A o \in Orders \ S : db'[o] = db[o]
  <1>1. \A r \in Rows : db'[r] = IF r \in S THEN st ELSE IF r = "customer" THEN db[r] + f
                                 ELSE IF r = "position" THEN p ELSE db[r]
    BY DEF Atomic!Changed, Atomic!Rows, Rows
  <1>2. db' = [r \in Rows |-> db'[r]]
    BY DEF Atomic!Changed, Atomic!Rows, Rows
  <1>3. {"customer", "position"} \subseteq Rows \ S /\ Orders \subseteq Rows
    BY RowNames DEF Rows
  <1>4. db'["customer"] = db["customer"] + f /\ db'["position"] = p
    BY <1>1, <1>3
  <1>5. \A o \in Orders : db'[o] = IF o \in S THEN st ELSE db[o]
    BY <1>1, <1>3, RowNames
  <1>6. \A o \in Orders : db'[o] \in {"none", "pending", "filled", "cancelled"}
    BY <1>5 DEF DbOK
  <1>7. db'["customer"] \in Int
    BY <1>4 DEF DbOK
  <1>8. DbOK'
    BY <1>2, <1>4, <1>6, <1>7 DEF DbOK, Rows
  <1> QED BY <1>4, <1>5, <1>8

\* What every transaction works on is the database as it is.
LEMMA ViewIsDb ==
  ASSUME LockInv, NEW t \in Txns
  PROVE  View(t) = db
  BY DEF LockInv, Shape, DbOK, Faithful, View

\* A commit keeps the invariant when the customer, the position and the orders
\* it writes are its own.
LEMMA CommitInv ==
  ASSUME LockInv, NEW t \in Txns, Ended(t),
         NEW f \in Int, NEW p \in [qty : Int, avail : Int], NEW S \in SUBSET Orders,
         NEW st \in {"pending", "filled", "cancelled"},
         db' = Atomic!Changed(db, f, p, S, st),
         "customer" \in DOMAIN seen[t] \/ (f = 0 /\ st # "pending"),
         "position" \in DOMAIN seen[t] \/ p = db["position"],
         \A o \in S : o \in DOMAIN seen[t] \/ db[o] = "none"
  PROVE  LockInv'
  <1>1. DbOK
    BY DEF LockInv, Shape
  <1>2. /\ DbOK'
        /\ db'["customer"] = db["customer"] + f /\ db'["position"] = p
        /\ \A o \in S : db'[o] = st
        /\ \A o \in Orders \ S : db'[o] = db[o]
    BY <1>1, ChangedOK
  <1>3. db["customer"] \in Int
    BY <1>1 DEF DbOK
  <1>4. OwnRows(t)
    BY <1>2, <1>3 DEF OwnRows, Rows
  <1>5. OrdersKept(t)
    BY <1>2 DEF OrdersKept, Atomic!Pending
  <1> QED BY <1>2, <1>4, <1>5, EndInv

\* The numbers of orders that the operations count with.
LEMMA Counts ==
  ASSUME NEW S \in SUBSET Orders
  PROVE  /\ IsFiniteSet(S \cap Buys) /\ IsFiniteSet(S \cap Sells)
         /\ Atomic!Cardinality(S \cap Atomic!Buys) = Cardinality(S \cap Buys)
         /\ Atomic!Cardinality(S \cap Sells) = Cardinality(S \cap Sells)
         /\ Cardinality(S \cap Buys) \in Nat /\ Cardinality(S \cap Sells) \in Nat
         /\ S \cap Buys = {} => Cardinality(S \cap Buys) = 0
         /\ S \cap Sells = {} => Cardinality(S \cap Sells) = 0
  <1>1. IsFiniteSet(S)
    BY RowNames, FS_Subset
  <1>2. IsFiniteSet(S \cap Buys) /\ IsFiniteSet(S \cap Sells)
    BY <1>1, FS_Intersection
  <1>3. Buys = Atomic!Buys
    BY DEF Buys, Atomic!Buys
  <1> QED BY <1>2, <1>3, SameCardinality, FS_CardinalityType, FS_EmptySet

\* What a commit may use of the invariant.
LEMMA AtCommit ==
  ASSUME LockInv, NEW t \in Txns, Ready(t)
  PROVE  /\ View(t) = db /\ Complete(t, seen[t], todo[t], mode[t])
         /\ \A r \in DOMAIN seen[t] : seen[t][r] = db[r]
         /\ mode[t] \in Modes(t) /\ todo[t] \subseteq Orders
         /\ db["customer"] \in Int /\ db["position"] \in [qty : Int, avail : Int]
         /\ db["position"].qty \in Int /\ db["position"].avail \in Int
  BY ViewIsDb DEF LockInv, Shape, TypeOK, Faithful, Asked, Ready

\* A filled order is pending, and its three rows are locked.
LEMMA FillOK ==
  ASSUME LockInv, NEW t \in Txns, CommitFill(t)
  PROVE  LockInv' /\ Atomic!Next
  <1> DEFINE o == t.order
             buy == o \in Buys
             p == IF buy THEN Atomic!Shares(db["position"].qty + 1, db["position"].avail + 1)
                  ELSE Atomic!Shares(db["position"].qty - 1, db["position"].avail)
  <1>1. /\ Ready(t) /\ Ended(t) /\ t.kind \in {"match", "instant"} /\ mode[t] = "fill"
        /\ db[o] = "pending" /\ db' = Atomic!Filled(db, o)
    BY AtCommit DEF CommitFill, Fills, StillPending
  <1>2. o \in Orders /\ Buys = Atomic!Buys
    BY <1>1, Kinds DEF Buys, Atomic!Buys
  <1>3. {o, "customer", "position"} \subseteq DOMAIN seen[t]
    BY <1>1, AtCommit DEF Complete
  <1>4. p \in [qty : Int, avail : Int]
    BY <1>1, AtCommit DEF Atomic!Shares
  <1>5. db' = Atomic!Changed(db, IF buy THEN -1 ELSE 0, p, {o}, "filled")
    BY <1>1, <1>2 DEF Atomic!Filled
  <1>6. LockInv'
    <2> HIDE DEF p
    <2>1. (IF buy THEN -1 ELSE 0) \in Int /\ {o} \in SUBSET Orders
      BY <1>2
    <2> QED BY <1>1, <1>3, <1>4, <1>5, <2>1, CommitInv
  <1>7. Atomic!Next
    BY <1>1, <1>2 DEF Atomic!Next, Atomic!Fill, Atomic!Pending
  <1> QED BY <1>6, <1>7

\* A cancelled order is pending, and so is the row it gives back to locked.
LEMMA CancelOK ==
  ASSUME LockInv, NEW t \in Txns, CommitCancel(t)
  PROVE  LockInv' /\ Atomic!Next
  <1> DEFINE o == t.order
             f == - Atomic!Cardinality({o} \cap Atomic!Buys)
             n == Atomic!Cardinality({o} \cap Sells)
             p == Atomic!Shares(db["position"].qty, db["position"].avail + n)
  <1>1. /\ Ready(t) /\ Ended(t)
        /\ t.kind = "cancel" \/ mode[t] = "drop"
        /\ db[o] = "pending" /\ db' = Atomic!Cancelled(db, {o})
    BY AtCommit DEF CommitCancel, Drops, StillPending
  <1>2. t.kind \in {"match", "instant", "cancel"} /\ mode[t] \notin {"fill", "skip"}
    BY <1>1, AtCommit, ModesOf, Kinds
  <1>3. o \in Orders
    BY <1>2, Kinds
  <1>4. o \in DOMAIN seen[t] /\ (IF o \in Buys THEN "customer" ELSE "position") \in DOMAIN seen[t]
    BY <1>1, <1>2, AtCommit DEF Complete
  <1>5. /\ f \in Int /\ n \in Int
        /\ o \notin Buys => f = 0
        /\ o \notin Sells => n = 0
    <2>1. f = - Cardinality({o} \cap Buys) /\ n = Cardinality({o} \cap Sells)
      BY <1>3, Counts
    <2>2. Cardinality({o} \cap Buys) \in Nat /\ Cardinality({o} \cap Sells) \in Nat
      BY <1>3, Counts
    <2>3. /\ o \notin Buys => Cardinality({o} \cap Buys) = 0
          /\ o \notin Sells => Cardinality({o} \cap Sells) = 0
      BY <1>3, Counts
    <2> QED BY <2>1, <2>2, <2>3
  <1>6. p \in [qty : Int, avail : Int]
    BY <1>1, <1>5, AtCommit DEF Atomic!Shares
  <1>7. "customer" \in DOMAIN seen[t] \/ f = 0
    BY <1>4, <1>5
  <1>8. "position" \in DOMAIN seen[t] \/ p = db["position"]
    <2>1. CASE o \in Sells
      BY <1>3, <1>4, <2>1 DEF Buys
    <2>2. CASE o \notin Sells
      BY <1>1, <1>5, <2>2, AtCommit DEF Atomic!Shares
    <2> QED BY <2>1, <2>2
  <1>9. db' = Atomic!Changed(db, f, p, {o}, "cancelled")
    BY <1>1 DEF Atomic!Cancelled
  <1>10. LockInv'
    <2> HIDE DEF f, p, n
    <2>1. {o} \in SUBSET Orders
      BY <1>3
    <2> QED BY <1>1, <1>4, <1>5, <1>6, <1>7, <1>8, <1>9, <2>1, CommitInv
  <1>11. Atomic!Next
    BY <1>1, <1>3 DEF Atomic!Next, Atomic!Cancel, Atomic!Pending
  <1> QED BY <1>10, <1>11

\* An order that is placed did not exist, and the customer is locked.
LEMMA PlaceOK ==
  ASSUME LockInv, NEW t \in Txns, CommitPlace(t)
  PROVE  LockInv' /\ Atomic!Next
  <1> DEFINE o == t.order
             buy == o \in Buys
             p == IF buy THEN db["position"]
                  ELSE Atomic!Shares(db["position"].qty, db["position"].avail - 1)
  <1>1. /\ Ready(t) /\ Ended(t) /\ t.kind = "place"
        /\ Atomic!MayPlace(db, o) /\ db' = Atomic!Placed(db, o)
    BY AtCommit DEF CommitPlace, Places
  <1>2. o \in Orders /\ Buys = Atomic!Buys /\ db[o] = "none"
    BY <1>1, Kinds DEF Buys, Atomic!Buys, Atomic!MayPlace
  <1>3. "customer" \in DOMAIN seen[t] /\ (buy \/ "position" \in DOMAIN seen[t])
    BY <1>1, <1>2, AtCommit DEF Complete, Buys
  <1>4. p \in [qty : Int, avail : Int] /\ (buy => p = db["position"])
    BY <1>1, AtCommit DEF Atomic!Shares
  <1>5. db' = Atomic!Changed(db, IF buy THEN 1 ELSE 0, p, {o}, "pending")
    BY <1>1, <1>2 DEF Atomic!Placed
  <1>6. LockInv'
    <2> HIDE DEF p
    <2>1. (IF buy THEN 1 ELSE 0) \in Int /\ {o} \in SUBSET Orders
      BY <1>2
    <2> QED BY <1>1, <1>2, <1>3, <1>4, <1>5, <2>1, CommitInv
  <1>7. Atomic!Next
    BY <1>1, <1>2 DEF Atomic!Next, Atomic!Place
  <1> QED BY <1>6, <1>7

\* The orders that a batch with shares has found pending are all there are, and
\* it has locked them with the customer and the position.
LEMMA BatchFound ==
  ASSUME LockInv, NEW t \in Txns, Ready(t), t \in Batches, mode[t] # "pay", Opened(t)
  PROVE  /\ db["position"].qty > 0
         /\ Found(t) = Listable(t, Atomic!Pending(db))
         /\ Found(t) \in SUBSET Orders /\ Found(t) \subseteq DOMAIN seen[t]
         /\ {"customer", "position"} \subseteq DOMAIN seen[t]
  <1>1. "position" \in DOMAIN seen[t] /\ seen[t]["position"].qty > 0
    BY DEF Opened
  <1>2. seen[t]["position"] = db["position"] /\ View(t) = db /\ todo[t] \subseteq Orders
    BY <1>1, AtCommit
  <1>3. todo[t] \subseteq DOMAIN seen[t]
    BY <1>1, AtCommit DEF Complete
  <1>4. /\ "customer" \in DOMAIN seen[t]
        /\ Listable(t, Atomic!Pending(db)) \subseteq todo[t]
        /\ t.kind = "force" => todo[t] \subseteq Sells
    BY <1>1 DEF LockInv, Listed
  <1>5. Found(t) = {o \in todo[t] : db[o] = "pending"}
    BY <1>2 DEF Found
  <1>6. Found(t) = Listable(t, Atomic!Pending(db))
    BY <1>2, <1>4, <1>5 DEF Listable, Atomic!Pending
  <1> QED BY <1>1, <1>2, <1>3, <1>4, <1>5, <1>6

\* A batch that cancels settles the orders it has found, for whatever shares p.
LEMMA BatchInv ==
  ASSUME LockInv, NEW t \in Txns, Ready(t), Ended(t), t \in Batches, mode[t] # "pay",
         Opened(t), NEW p \in [qty : Int, avail : Int],
         db' = Atomic!Changed(db, - Atomic!Cardinality(Found(t) \cap Atomic!Buys), p,
                              Found(t), "cancelled")
  PROVE  LockInv'
  <1>1. /\ Found(t) \in SUBSET Orders /\ Found(t) \subseteq DOMAIN seen[t]
        /\ {"customer", "position"} \subseteq DOMAIN seen[t]
    BY BatchFound
  <1>2. - Atomic!Cardinality(Found(t) \cap Atomic!Buys) \in Int
    <2>1. Cardinality(Found(t) \cap Buys) \in Nat
      BY <1>1, Counts
    <2>2. Atomic!Cardinality(Found(t) \cap Atomic!Buys) = Cardinality(Found(t) \cap Buys)
      BY <1>1, Counts
    <2> QED BY <2>1, <2>2
  <1> QED BY <1>1, <1>2, CommitInv

\* A fee or call that has to release the frozen balance cancels what is pending.
LEMMA ReleaseOK ==
  ASSUME LockInv, NEW t \in Txns, CommitRelease(t)
  PROVE  LockInv' /\ Atomic!Next
  <1> DEFINE n == Atomic!Cardinality(Found(t) \cap Sells)
             p == Atomic!Shares(db["position"].qty, db["position"].avail + n)
  <1>1. /\ Ready(t) /\ Ended(t) /\ mode[t] = "release" /\ Opened(t)
        /\ db' = Atomic!Cancelled(db, Found(t))
    BY AtCommit DEF CommitRelease
  <1>2. t \in Batches /\ t.kind # "force" /\ mode[t] # "pay"
    BY <1>1, AtCommit, ModesOf, Kinds DEF Batches
  <1>3. /\ db["position"].qty > 0 /\ Found(t) = Atomic!Pending(db)
        /\ Found(t) \in SUBSET Orders
    BY <1>1, <1>2, BatchFound DEF Listable
  <1>4. n \in Int
    <2>1. Cardinality(Found(t) \cap Sells) \in Nat
      BY <1>3, Counts
    <2>2. n = Cardinality(Found(t) \cap Sells)
      BY <1>3, Counts
    <2> QED BY <2>1, <2>2
  <1>5. p \in [qty : Int, avail : Int]
    BY <1>1, <1>4, AtCommit DEF Atomic!Shares
  <1>6. LockInv'
    <2>1. db' = Atomic!Changed(db, - Atomic!Cardinality(Found(t) \cap Atomic!Buys), p,
                               Found(t), "cancelled")
      BY <1>1 DEF Atomic!Cancelled
    <2> HIDE DEF p
    <2> QED BY <1>1, <1>2, <1>5, <2>1, BatchInv
  <1>7. Atomic!Next
    BY <1>1, <1>3 DEF Atomic!Next, Atomic!Release
  <1> QED BY <1>6, <1>7

\* A close sells everything and cancels what is pending, or the sell orders only.
LEMMA CloseOK ==
  ASSUME LockInv, NEW t \in Txns, CommitClose(t)
  PROVE  LockInv' /\ Atomic!Next
  <1>1. /\ Ready(t) /\ Ended(t) /\ Opened(t) /\ db' = Atomic!Closed(db, Found(t))
        /\ mode[t] = "close" \/ t.kind = "force"
    BY AtCommit DEF CommitClose
  <1>2. t \in Batches /\ mode[t] # "pay"
    BY <1>1, AtCommit, ModesOf, Kinds DEF Batches
  <1>3. /\ db["position"].qty > 0
        /\ Found(t) = Listable(t, Atomic!Pending(db))
    BY <1>1, <1>2, BatchFound
  <1>4. LockInv'
    <2>1. db' = Atomic!Changed(db, - Atomic!Cardinality(Found(t) \cap Atomic!Buys),
                               [qty |-> 0, avail |-> 0], Found(t), "cancelled")
      BY <1>1 DEF Atomic!Closed, Atomic!Shares
    <2>2. [qty |-> 0, avail |-> 0] \in [qty : Int, avail : Int]
      OBVIOUS
    <2> QED BY <1>1, <1>2, <2>1, <2>2, BatchInv
  <1>5. Atomic!Next
    BY <1>1, <1>3 DEF Listable, Atomic!Next, Atomic!CloseAll, Atomic!ForceClose
  <1> QED BY <1>4, <1>5

\* A transaction that writes nothing, or is made to fail, is not seen by Escrow.
LEMMA NothingWritten ==
  ASSUME LockInv, NEW t \in Txns, Ended(t), UNCHANGED db
  PROVE  LockInv'
  BY EndInv DEF LockInv, Shape, DbOK, OwnRows, OrdersKept, Atomic!Pending

\* Every step keeps the invariant and is a step of Escrow or none at all.
LEMMA LocksStep ==
  ASSUME LockInv, [Next]_vars
  PROVE  LockInv' /\ [Atomic!Next]_db
  <1>1. CASE UNCHANGED vars
    <2>1. /\ db' = db /\ pc' = pc /\ mode' = mode
          /\ want' = want /\ todo' = todo /\ seen' = seen
      BY <1>1 DEF vars
    <2>2. Shape'
      BY <2>1 DEF LockInv, Shape, DbOK, TypeOK, Modes
    <2>3. Alone' /\ Faithful'
      BY <2>1 DEF LockInv, Alone, Faithful
    <2>4. Known' /\ Asked' /\ Listed'
      BY <2>1 DEF LockInv, Known, Asked, Ready, Complete, Listed, Listable, Atomic!Pending
    <2> QED BY <2>1, <2>2, <2>3, <2>4 DEF LockInv
  <1>2. ASSUME NEW t \in Txns, Begin(t) PROVE LockInv' /\ UNCHANGED db
    BY <1>2, BeginInv DEF Begin
  <1>3. ASSUME NEW t \in Txns, Lock(t) PROVE LockInv' /\ UNCHANGED db
    BY <1>3, LockStepInv DEF Lock
  <1>4. ASSUME NEW t \in Txns, Commit(t) PROVE LockInv' /\ [Atomic!Next]_db
    <2>1. CASE CommitFill(t)
      BY <2>1, FillOK
    <2>2. CASE CommitCancel(t)
      BY <2>2, CancelOK
    <2>3. CASE CommitPlace(t)
      BY <2>3, PlaceOK
    <2>4. CASE CommitRelease(t)
      BY <2>4, ReleaseOK
    <2>5. CASE CommitClose(t)
      BY <2>5, CloseOK
    <2>6. CASE EndEmpty(t)
      BY <2>6, NothingWritten DEF EndEmpty
    <2> QED BY <1>4, <2>1, <2>2, <2>3, <2>4, <2>5, <2>6 DEF Commit
  <1>5. ASSUME NEW t \in Txns, Abort(t) PROVE LockInv' /\ UNCHANGED db
    BY <1>5, NothingWritten DEF Abort
  <1> QED BY <1>1, <1>2, <1>3, <1>4, <1>5 DEF Next, vars

-----------------------------------------------------------------------------
\* Counting the orders of a kind K that are pending, when those of S stop being so.
LEMMA CountRemoved ==
  ASSUME NEW K \in SUBSET Orders, NEW P \in SUBSET Orders, NEW S \in SUBSET P
  PROVE  Cardinality((P \ S) \cap K) = Cardinality(P \cap K) - Cardinality(S \cap K)
  <1>1. IsFiniteSet(P \cap K)
    BY RowNames, FS_Subset
  <1>2. (P \ S) \cap K = (P \cap K) \ (S \cap K) /\ (P \cap K) \cap (S \cap K) = S \cap K
    OBVIOUS
  <1>3. Cardinality((P \cap K) \ (S \cap K)) =
          Cardinality(P \cap K) - Cardinality((P \cap K) \cap (S \cap K))
    BY <1>1, FS_Difference
  <1> QED BY <1>2, <1>3

\* The same when one more order is pending, and for one order alone.
LEMMA CountAdded ==
  ASSUME NEW K \in SUBSET Orders, NEW P \in SUBSET Orders, NEW o \in Orders
  PROVE  /\ o \notin P => Cardinality((P \cup {o}) \cap K) =
                            Cardinality(P \cap K) + (IF o \in K THEN 1 ELSE 0)
         /\ Cardinality({o} \cap K) = IF o \in K THEN 1 ELSE 0
         /\ Cardinality(P \cap K) \in Nat
  <1>1. IsFiniteSet(P \cap K)
    BY RowNames, FS_Subset
  <1>2. Cardinality(P \cap K) \in Nat
    BY <1>1, FS_CardinalityType
  <1>3. ASSUME o \notin P
        PROVE  Cardinality((P \cup {o}) \cap K) =
                 Cardinality(P \cap K) + (IF o \in K THEN 1 ELSE 0)
    <2>1. CASE o \in K
      <3>1. (P \cup {o}) \cap K = (P \cap K) \cup {o} /\ o \notin P \cap K
        BY <1>3, <2>1
      <3>2. Cardinality((P \cap K) \cup {o}) = Cardinality(P \cap K) + 1
        BY <1>1, <3>1, FS_AddElement
      <3> QED BY <2>1, <3>1, <3>2
    <2>2. CASE o \notin K
      <3>1. (P \cup {o}) \cap K = P \cap K
        BY <2>2
      <3>2. Cardinality((P \cup {o}) \cap K) = Cardinality(P \cap K)
        BY <3>1
      <3>3. Cardinality(P \cap K) + (IF o \in K THEN 1 ELSE 0) = Cardinality(P \cap K)
        BY <1>2, <2>2
      <3> QED BY <3>2, <3>3
    <2> QED BY <2>1, <2>2
  <1>4. Cardinality({o} \cap K) = IF o \in K THEN 1 ELSE 0
    <2>1. {o} \cap K = IF o \in K THEN {o} ELSE {}
      OBVIOUS
    <2> QED BY <2>1, FS_Singleton, FS_EmptySet
  <1> QED BY <1>2, <1>3, <1>4

\* The sums of Escrow, with the library's Cardinality.
Adds(d) ==
  /\ d["customer"] = Cardinality(Atomic!Pending(d) \cap Buys)
  /\ d["position"].qty - d["position"].avail = Cardinality(Atomic!Pending(d) \cap Sells)
  /\ d["position"].avail >= 0

LEMMA AddsIsExact == Exact <=> Adds(db)
  <1>1. Buys = Atomic!Buys
    BY DEF Buys, Atomic!Buys
  <1> QED BY <1>1, SameCardinality DEF Exact, Atomic!Exact, Adds

\* Who is pending after a change.
LEMMA PendingAfter ==
  ASSUME DbOK, NEW f \in Int, NEW p \in [qty : Int, avail : Int], NEW S \in SUBSET Orders,
         NEW st \in {"pending", "filled", "cancelled"},
         db' = Atomic!Changed(db, f, p, S, st)
  PROVE  /\ db'["customer"] = db["customer"] + f /\ db'["position"] = p
         /\ st # "pending" => Atomic!Pending(db') = Atomic!Pending(db) \ S
         /\ st = "pending" => Atomic!Pending(db') = Atomic!Pending(db) \cup S
  <1>1. /\ db'["customer"] = db["customer"] + f /\ db'["position"] = p
        /\ \A o \in S : db'[o] = st
        /\ \A o \in Orders \ S : db'[o] = db[o]
    BY ChangedOK
  <1> QED BY <1>1 DEF Atomic!Pending

\* Cancelling pending orders gives back what they hold.
LEMMA CancelledAdds ==
  ASSUME DbOK, Adds(db), NEW S \in SUBSET Atomic!Pending(db), db' = Atomic!Cancelled(db, S)
  PROVE  Adds(db')
  <1> DEFINE P == Atomic!Pending(db)
             b == Cardinality(S \cap Buys)
             n == Cardinality(S \cap Sells)
             p == [qty |-> db["position"].qty, avail |-> db["position"].avail + n]
  <1>1. S \in SUBSET Orders /\ P \in SUBSET Orders /\ Buys \in SUBSET Orders /\ Sells \in SUBSET Orders
    BY RowNames DEF Atomic!Pending, Buys
  <1>2. b \in Nat /\ n \in Nat
    BY <1>1, Counts
  <1>3. /\ Atomic!Cardinality(S \cap Atomic!Buys) = b
        /\ Atomic!Cardinality(S \cap Sells) = n
    BY <1>1, Counts
  <1>4. db["customer"] \in Int /\ db["position"].qty \in Int /\ db["position"].avail \in Int
    BY DEF DbOK
  <1>5. db' = Atomic!Changed(db, - b, p, S, "cancelled")
    BY <1>3 DEF Atomic!Cancelled, Atomic!Shares
  <1> HIDE DEF b, n
  <1>6. - b \in Int /\ p \in [qty : Int, avail : Int]
    BY <1>2, <1>4
  <1>7. /\ db'["customer"] = db["customer"] - b /\ db'["position"] = p
        /\ Atomic!Pending(db') = P \ S
    <2>1. db'["customer"] = db["customer"] + (- b) /\ db'["position"] = p
          /\ Atomic!Pending(db') = P \ S
      <3> HIDE DEF p
      <3> QED BY <1>1, <1>5, <1>6, PendingAfter
    <2> QED BY <1>2, <1>4, <2>1
  <1>8. /\ Cardinality((P \ S) \cap Buys) = Cardinality(P \cap Buys) - b
        /\ Cardinality((P \ S) \cap Sells) = Cardinality(P \cap Sells) - n
    <2>1. S \in SUBSET P
      OBVIOUS
    <2> HIDE DEF P
    <2>2. Cardinality((P \ S) \cap Buys) = Cardinality(P \cap Buys) - Cardinality(S \cap Buys)
      BY <1>1, <2>1, CountRemoved
    <2>3. Cardinality((P \ S) \cap Sells) = Cardinality(P \cap Sells) - Cardinality(S \cap Sells)
      BY <1>1, <2>1, CountRemoved
    <2> QED BY <2>2, <2>3 DEF b, n
  <1>9. Cardinality(P \cap Buys) \in Nat /\ Cardinality(P \cap Sells) \in Nat
    BY <1>1, Counts
  <1> QED BY <1>2, <1>4, <1>7, <1>8, <1>9 DEF Adds

\* So does a close, which leaves no sell order and no share.
LEMMA ClosedAdds ==
  ASSUME DbOK, Adds(db), NEW S \in SUBSET Atomic!Pending(db),
         Atomic!Pending(db) \cap Sells \subseteq S, db' = Atomic!Closed(db, S)
  PROVE  Adds(db')
  <1> DEFINE P == Atomic!Pending(db)
             b == Cardinality(S \cap Buys)
             p == [qty |-> 0, avail |-> 0]
  <1>1. S \in SUBSET Orders /\ P \in SUBSET Orders /\ Buys \in SUBSET Orders
    BY DEF Atomic!Pending, Buys
  <1>2. b \in Nat /\ Atomic!Cardinality(S \cap Atomic!Buys) = b
    BY <1>1, Counts
  <1>3. db["customer"] \in Int
    BY DEF DbOK
  <1>4. db' = Atomic!Changed(db, - b, p, S, "cancelled")
    BY <1>2 DEF Atomic!Closed, Atomic!Shares
  <1> HIDE DEF b
  <1>5. - b \in Int /\ p \in [qty : Int, avail : Int]
    BY <1>2
  <1>6. /\ db'["customer"] = db["customer"] + (- b) /\ db'["position"] = p
        /\ Atomic!Pending(db') = P \ S
    <2> HIDE DEF p
    <2> QED BY <1>1, <1>4, <1>5, PendingAfter
  <1>7. Cardinality((P \ S) \cap Buys) = Cardinality(P \cap Buys) - b
    BY <1>1, CountRemoved DEF b
  <1>8. (P \ S) \cap Sells = {} /\ p.qty = 0 /\ p.avail = 0
    OBVIOUS
  <1>9. Cardinality(P \cap Buys) \in Nat /\ Cardinality({}) = 0
    BY <1>1, Counts, FS_EmptySet
  <1>10. db'["customer"] = Cardinality((P \ S) \cap Buys)
    BY <1>2, <1>3, <1>6, <1>7, <1>9 DEF Adds
  <1>11. p.qty - p.avail = Cardinality((P \ S) \cap Sells) /\ p.avail >= 0
    BY <1>8, <1>9
  <1> HIDE DEF P, p
  <1> QED BY <1>6, <1>10, <1>11 DEF Adds

\* Placing an order freezes what it holds.
LEMMA PlacedAdds ==
  ASSUME DbOK, Adds(db), NEW o \in Orders, Atomic!MayPlace(db, o), db' = Atomic!Placed(db, o)
  PROVE  Adds(db')
  <1> DEFINE P == Atomic!Pending(db)
             f == IF o \in Buys THEN 1 ELSE 0
             p == IF o \in Buys THEN db["position"]
                  ELSE [qty |-> db["position"].qty, avail |-> db["position"].avail - 1]
  <1>1. /\ P \in SUBSET Orders /\ o \notin P /\ Buys \in SUBSET Orders /\ Sells \in SUBSET Orders
        /\ Buys = Atomic!Buys /\ (o \in Buys <=> o \notin Sells)
        /\ o \in Sells => db["position"].avail > 0
    BY RowNames DEF Atomic!Pending, Buys, Atomic!Buys, Atomic!MayPlace
  <1>2. db["customer"] \in Int /\ db["position"].qty \in Int /\ db["position"].avail \in Int
    BY DEF DbOK
  <1>3. /\ p \in [qty : Int, avail : Int] /\ f \in Int
        /\ p.qty = db["position"].qty
        /\ p.avail = IF o \in Buys THEN db["position"].avail ELSE db["position"].avail - 1
    BY <1>2 DEF DbOK
  <1>4. db' = Atomic!Changed(db, f, p, {o}, "pending")
    BY <1>1 DEF Atomic!Placed, Atomic!Shares
  <1> HIDE DEF p
  <1>5. /\ db'["customer"] = db["customer"] + f /\ db'["position"] = p
        /\ Atomic!Pending(db') = P \cup {o}
    <2>1. {o} \in SUBSET Orders
      OBVIOUS
    <2> HIDE DEF f
    <2> QED BY <1>3, <1>4, <2>1, PendingAfter
  <1>6. /\ Cardinality((P \cup {o}) \cap Buys) = Cardinality(P \cap Buys) + f
        /\ Cardinality((P \cup {o}) \cap Sells) =
             Cardinality(P \cap Sells) + (IF o \in Sells THEN 1 ELSE 0)
    BY <1>1, CountAdded
  <1>7. Cardinality(P \cap Buys) \in Nat /\ Cardinality(P \cap Sells) \in Nat
    BY <1>1, Counts
  <1> QED BY <1>1, <1>2, <1>3, <1>5, <1>6, <1>7 DEF Adds

\* Filling an order spends what it holds.
LEMMA FilledAdds ==
  ASSUME DbOK, Adds(db), NEW o \in Atomic!Pending(db), db' = Atomic!Filled(db, o)
  PROVE  Adds(db')
  <1> DEFINE P == Atomic!Pending(db)
             f == IF o \in Buys THEN -1 ELSE 0
             p == IF o \in Buys
                  THEN [qty |-> db["position"].qty + 1, avail |-> db["position"].avail + 1]
                  ELSE [qty |-> db["position"].qty - 1, avail |-> db["position"].avail]
  <1>1. /\ P \in SUBSET Orders /\ o \in Orders /\ {o} \in SUBSET P
        /\ Buys \in SUBSET Orders /\ Sells \in SUBSET Orders
        /\ Buys = Atomic!Buys /\ (o \in Buys <=> o \notin Sells)
    BY RowNames DEF Atomic!Pending, Buys, Atomic!Buys
  <1>2. db["customer"] \in Int /\ db["position"].qty \in Int /\ db["position"].avail \in Int
    BY DEF DbOK
  <1>3. /\ p \in [qty : Int, avail : Int] /\ f \in Int
        /\ p.qty = IF o \in Buys THEN db["position"].qty + 1 ELSE db["position"].qty - 1
        /\ p.avail = IF o \in Buys THEN db["position"].avail + 1 ELSE db["position"].avail
    BY <1>2
  <1>4. db' = Atomic!Changed(db, f, p, {o}, "filled")
    BY <1>1 DEF Atomic!Filled, Atomic!Shares
  <1> HIDE DEF p
  <1>5. /\ db'["customer"] = db["customer"] + f /\ db'["position"] = p
        /\ Atomic!Pending(db') = P \ {o}
    <2>1. {o} \in SUBSET Orders
      BY <1>1
    <2> HIDE DEF f
    <2> QED BY <1>3, <1>4, <2>1, PendingAfter
  <1>6. /\ Cardinality((P \ {o}) \cap Buys) = Cardinality(P \cap Buys) - Cardinality({o} \cap Buys)
        /\ Cardinality((P \ {o}) \cap Sells) = Cardinality(P \cap Sells) - Cardinality({o} \cap Sells)
    <2> HIDE DEF P
    <2> DEFINE S == {o}
    <2>1. S \in SUBSET P
      BY <1>1
    <2> HIDE DEF S, f
    <2>0. P \in SUBSET Orders /\ Buys \in SUBSET Orders /\ Sells \in SUBSET Orders
      BY <1>1
    <2>2. Cardinality((P \ S) \cap Buys) = Cardinality(P \cap Buys) - Cardinality(S \cap Buys)
      BY <2>0, <2>1, CountRemoved
    <2>3. Cardinality((P \ S) \cap Sells) = Cardinality(P \cap Sells) - Cardinality(S \cap Sells)
      BY <2>0, <2>1, CountRemoved
    <2> QED BY <2>2, <2>3 DEF S
  <1>7. /\ Cardinality({o} \cap Buys) = IF o \in Buys THEN 1 ELSE 0
        /\ Cardinality({o} \cap Sells) = IF o \in Sells THEN 1 ELSE 0
    BY <1>1, CountAdded
  <1>8. Cardinality(P \cap Buys) \in Nat /\ Cardinality(P \cap Sells) \in Nat
    BY <1>1, Counts
  <1> QED BY <1>1, <1>2, <1>3, <1>5, <1>6, <1>7, <1>8 DEF Adds

\* The operations of Escrow keep its sums.
LEMMA AtomicAdds ==
  ASSUME DbOK, Adds(db), [Atomic!Next]_db
  PROVE  Adds(db')
  <1>1. ASSUME NEW o \in Orders, Atomic!Place(o) PROVE Adds(db')
    BY <1>1, PlacedAdds DEF Atomic!Place
  <1>2. ASSUME NEW o \in Orders, Atomic!Fill(o) PROVE Adds(db')
    BY <1>2, FilledAdds DEF Atomic!Fill
  <1>3. ASSUME NEW o \in Orders, Atomic!Cancel(o) PROVE Adds(db')
    <2>1. {o} \in SUBSET Atomic!Pending(db) /\ db' = Atomic!Cancelled(db, {o})
      BY <1>3 DEF Atomic!Cancel
    <2> QED BY <2>1, CancelledAdds
  <1>4. CASE Atomic!Release
    <2>1. Atomic!Pending(db) \in SUBSET Atomic!Pending(db)
      OBVIOUS
    <2> QED BY <1>4, <2>1, CancelledAdds DEF Atomic!Release
  <1>5. CASE Atomic!CloseAll
    <2>1. Atomic!Pending(db) \in SUBSET Atomic!Pending(db)
      OBVIOUS
    <2> QED BY <1>5, <2>1, ClosedAdds DEF Atomic!CloseAll
  <1>6. CASE Atomic!ForceClose
    <2>1. Atomic!Pending(db) \cap Sells \in SUBSET Atomic!Pending(db)
      OBVIOUS
    <2> QED BY <1>6, <2>1, ClosedAdds DEF Atomic!ForceClose
  <1>7. CASE db' = db
    BY <1>7
  <1> QED BY <1>1, <1>2, <1>3, <1>4, <1>5, <1>6, <1>7 DEF Atomic!Next

-----------------------------------------------------------------------------
\* No order holds anything at the start.
LEMMA InitAdds == Init => Adds(db)
  <1> SUFFICES ASSUME Init PROVE Adds(db)
    OBVIOUS
  <1>1. /\ db["customer"] = 0
        /\ db["position"] = [qty |-> InitialShares, avail |-> InitialShares]
        /\ \A o \in Orders : db[o] = "none"
    BY RowNames DEF Init, Atomic!Init, Atomic!Rows, Atomic!Shares
  <1>2. Atomic!Pending(db) = {}
    BY <1>1 DEF Atomic!Pending
  <1>3. Atomic!Pending(db) \cap Buys = {} /\ Atomic!Pending(db) \cap Sells = {}
    BY <1>2
  <1> QED BY <1>1, <1>3, RowNames, FS_EmptySet DEF Adds

\* The transactions keep to two-phase locking as these handlers practise it.
THEOREM LocksInvariant == Spec => []LockInv
  <1>1. LockInv /\ [Next]_vars => LockInv'
    BY LocksStep
  <1> QED BY LocksInit, <1>1, PTL DEF Spec

\* The rows, the locks and what every transaction is doing are well formed.
THEOREM LocksTypeCorrect == Spec => []TypeOK
  <1>1. LockInv => TypeOK
    BY DEF LockInv, Shape
  <1> QED BY LocksInvariant, <1>1, PTL

\* Placing, matching, cancelling, the fee, the margin call and the forced close,
\* row by row and made to fail by the deadlock detector, do nothing that the
\* atomic operations would not do.
THEOREM LocksImplementEscrow == Spec => ImplementsEscrow
  <1>1. Init => Atomic!Init
    BY DEF Init
  <1>2. LockInv /\ [Next]_vars => [Atomic!Next]_db
    BY LocksStep
  <1> QED BY LocksInvariant, <1>1, <1>2, PTL DEF Spec, ImplementsEscrow, Atomic!Spec

\* The frozen balance and the locked shares are what the pending orders hold in
\* every committed state, in whatever order the transactions lock the rows.
THEOREM LocksAreExact == Spec => []Exact
  <1>1. Init => Adds(db)
    BY InitAdds
  <1>2. LockInv /\ Adds(db) /\ [Next]_vars => Adds(db)'
    <2> SUFFICES ASSUME LockInv, Adds(db), [Next]_vars PROVE Adds(db')
      BY DEF Adds, Atomic!Pending
    <2>1. DbOK
      BY DEF LockInv, Shape
    <2> QED BY <2>1, LocksStep, AtomicAdds
  <1>3. Adds(db) => Exact
    BY AddsIsExact
  <1> QED BY LocksInvariant, <1>1, <1>2, <1>3, PTL DEF Spec

-----------------------------------------------------------------------------
(***************************************************************************)
(* Deadlocks.  Placements and batches ask for the customer before the      *)
(* position, and so does who fills an order; who cancels one has all he    *)
(* wants when he has the position.  So nobody who holds the position       *)
(* without the customer waits for anything.  And an order row is what all  *)
(* but the batches ask for first: without a batch that goes back for one,  *)
(* every wait leads from an order to the customer to the position.         *)
(***************************************************************************)
Settlers == {t \in Txns : t.kind \in {"match", "instant", "cancel"}}
Placements == {t \in Txns : t.kind = "place"}

\* In which order t, which has locked the rows s, came to wait for w.
InOrder(t, s, w, m) ==
  /\ w \notin s
  /\ t \in Settlers =>
       IF s = {} THEN w \in {t.order, "nothing"} ELSE t.order \in s /\ w \notin Orders
  /\ t \in Batches /\ w \in Orders => "customer" \in s
  /\ t \in Placements \cup Batches /\ "position" \in s \cup {w} => "customer" \in s
  /\ t \in Settlers /\ "position" \in s \cup {w} =>
       /\ t.order \in s
       /\ m = "fill" => "customer" \in s
       /\ m # "fill" => t.order \notin Buys /\ ("position" \in s => w = "nothing")
  /\ t \in Placements \/ m = "pay" =>
       w \in {"customer", "position", "nothing"} /\ (w = "customer" => s = {})

CustomerFirst == \A t \in Txns : InOrder(t, DOMAIN seen[t], want[t], mode[t])

\* What a transaction that holds the rows s asks for next keeps to the order.
LEMMA NextInOrder ==
  ASSUME NEW t \in Txns, NEW s, NEW q \in SUBSET Orders,
         NEW w \in Candidates(t, s, q) \cup {"nothing"},
         mode[t] = "pay" => t \in Batches /\ t.kind # "force",
         DOMAIN s \subseteq Rows,
         t \in Settlers /\ DOMAIN s # {} => t.order \in DOMAIN s,
         t \in Placements \cup Batches /\ "position" \in DOMAIN s => "customer" \in DOMAIN s,
         t \in Settlers /\ "position" \in DOMAIN s =>
           /\ t.order \in DOMAIN s
           /\ mode[t] = "fill" => "customer" \in DOMAIN s
           /\ mode[t] # "fill" => t.order \notin Buys,
         t \in Placements \/ mode[t] = "pay" => DOMAIN s = {} \/ "customer" \in DOMAIN s
  PROVE  InOrder(t, DOMAIN s, w, mode[t])
  <1> USE RowNames DEF Rows, Settlers, Placements, Batches
  <1>1. CASE t.kind \in {"match", "instant", "cancel"}
    <2>1. w \in SettleRows(t, s) \cup {"nothing"} /\ t.order \in Orders
      BY <1>1, ByKind, Kinds
    <2>2. CASE t.order \notin DOMAIN s
      BY <1>1, <2>1, <2>2 DEF SettleRows, InOrder
    <2>3. CASE t.order \in DOMAIN s /\ (mode[t] = "skip" \/ ~ StillPending(s, t.order))
      BY <1>1, <2>1, <2>3 DEF SettleRows, InOrder
    <2>4. CASE t.order \in DOMAIN s /\ mode[t] = "fill"
               /\ ~(mode[t] = "skip" \/ ~ StillPending(s, t.order))
      BY <1>1, <2>1, <2>4 DEF SettleRows, FillRows, InOrder
    <2>5. CASE t.order \in DOMAIN s /\ mode[t] # "fill"
               /\ ~(mode[t] = "skip" \/ ~ StillPending(s, t.order))
      <3>1. w \in ReleaseRows(s, t.order) \cup {"nothing"}
        BY <2>1, <2>5 DEF SettleRows
      <3> QED BY <1>1, <2>1, <2>5, <3>1 DEF ReleaseRows, InOrder
    <2> QED BY <2>2, <2>3, <2>4, <2>5
  <1>2. CASE t.kind = "place"
    <2>1. w \in PlaceRows(t, s) \cup {"nothing"}
      BY <1>2, ByKind
    <2> QED BY <1>2, <2>1 DEF PlaceRows, InOrder
  <1>3. CASE t.kind \in {"fee", "call"}
    <2>1. w \in BatchRows(t, s, q) \cup {"nothing"}
      BY <1>3, ByKind
    <2> QED BY <1>3, <2>1 DEF BatchRows, InOrder
  <1>4. CASE t.kind = "force"
    <2>1. w \in ForceRows(s, q) \cup {"nothing"}
      BY <1>4, ByKind
    <2> QED BY <1>4, <2>1 DEF ForceRows, InOrder
  <1> QED BY <1>1, <1>2, <1>3, <1>4, Kinds

\* A transaction that has no row and wants none is in order.
LEMMA RestInOrder ==
  ASSUME NEW t \in Txns
  PROVE  InOrder(t, {}, "nothing", "do")
  BY RowNames DEF InOrder, Rows

LEMMA OrderStep ==
  ASSUME LockInv, CustomerFirst, [Next]_vars
  PROVE  CustomerFirst'
  <1>0. Shape /\ TypeOK
    BY DEF LockInv, Shape
  <1>1. ASSUME NEW t \in Txns, Begin(t) PROVE CustomerFirst'
    <2>1. /\ pc[t] = "idle" /\ seen' = seen /\ DOMAIN seen[t] = {}
          /\ \A u \in Txns \ {t} : mode'[u] = mode[u]
          /\ mode'[t] \in Modes(t)
      BY <1>0, <1>1 DEF Begin, Shape, TypeOK
    <2>2. PICK w \in Candidates(t, seen[t], todo[t]) \cup {"nothing"} :
            want' = [want EXCEPT ![t] = w]
      BY <1>1 DEF Begin, AskFor
    <2>3. want'[t] = w /\ \A u \in Txns \ {t} : want'[u] = want[u]
      BY <1>0, <2>2 DEF TypeOK
    <2>4. InOrder(t, DOMAIN seen[t], w, mode'[t])
      <3> USE DEF Settlers, Placements, Batches, InOrder
      <3>1. CASE t.kind \in {"match", "instant", "cancel"}
        <4>1. w \in {t.order, "nothing"} /\ t.order \in Orders
          BY <2>1, <2>2, <3>1, ByKind, Kinds DEF SettleRows
        <4>2. mode'[t] # "pay"
          BY <2>1, <3>1, ModesOf
        <4> QED BY <2>1, <3>1, <4>1, <4>2, RowNames
      <3>2. CASE t.kind = "place"
        BY <2>1, <2>2, <3>2, ByKind DEF PlaceRows
      <3>3. CASE t.kind \in {"fee", "call"}
        BY <2>1, <2>2, <3>3, ByKind, RowNames DEF BatchRows, Rows
      <3>4. CASE t.kind = "force"
        BY <2>1, <2>2, <3>4, ByKind, RowNames DEF ForceRows, Rows
      <3> QED BY <3>1, <3>2, <3>3, <3>4, Kinds
    <2> QED BY <2>1, <2>3, <2>4 DEF CustomerFirst
  <1>2. ASSUME NEW t \in Txns, Lock(t) PROVE CustomerFirst'
    <2> DEFINE r == want[t]
               s == Locked(t, r)
               q == Queried(t, r)
    <2>1. /\ pc[t] = "run" /\ r # "nothing" /\ mode' = mode
          /\ seen' = [seen EXCEPT ![t] = s] /\ AskFor(t, s, q)
          /\ InOrder(t, DOMAIN seen[t], r, mode[t])
          /\ mode[t] \in Modes(t)
      BY <1>0, <1>2 DEF Lock, CustomerFirst, Shape
    <2>2. PICK w \in Candidates(t, s, q) \cup {"nothing"} : want' = [want EXCEPT ![t] = w]
      BY <2>1 DEF AskFor
    <2>3. DOMAIN s = DOMAIN seen[t] \cup {r} /\ q \in SUBSET Orders
      BY <1>0 DEF Locked, Queried, Atomic!Pending, TypeOK
    <2> HIDE DEF s, q
    <2>4. /\ want'[t] = w /\ \A u \in Txns \ {t} : want'[u] = want[u]
          /\ seen'[t] = s /\ \A u \in Txns \ {t} : seen'[u] = seen[u]
      BY <1>0, <2>1, <2>2 DEF Shape, TypeOK
    <2>5. mode[t] = "pay" => t \in Batches /\ t.kind # "force"
      BY <2>1, ModesOf, Kinds DEF Batches
    <2>6. InOrder(t, DOMAIN s, w, mode[t])
      <3>1. t \in Placements \cup Batches /\ "position" \in DOMAIN s => "customer" \in DOMAIN s
        BY <2>1, <2>3 DEF InOrder
      <3>2. t \in Settlers /\ "position" \in DOMAIN s =>
              /\ t.order \in DOMAIN s
              /\ mode[t] = "fill" => "customer" \in DOMAIN s
              /\ mode[t] # "fill" => t.order \notin Buys
        BY <2>1, <2>3 DEF InOrder
      <3>3. t \in Placements \/ mode[t] = "pay" => DOMAIN s = {} \/ "customer" \in DOMAIN s
        BY <2>1, <2>3, <2>5 DEF InOrder
      <3>4. DOMAIN s \subseteq Rows
        BY <1>0, <2>1, <2>3 DEF TypeOK
      <3>5. t \in Settlers /\ DOMAIN s # {} => t.order \in DOMAIN s
        BY <2>1, <2>3 DEF InOrder
      <3> QED BY <2>2, <2>3, <2>5, <3>1, <3>2, <3>3, <3>4, <3>5, NextInOrder
    <2> QED BY <2>1, <2>4, <2>6 DEF CustomerFirst
  <1>3. ASSUME NEW t \in Txns, Ended(t) PROVE CustomerFirst'
    <2>1. /\ mode'[t] = "do" /\ want'[t] = "nothing" /\ DOMAIN seen'[t] = {}
          /\ \A u \in Txns \ {t} : mode'[u] = mode[u] /\ want'[u] = want[u] /\ seen'[u] = seen[u]
      BY <1>0, <1>3, NoRows DEF Ended, NoLongerSeen, Shape, TypeOK
    <2> QED BY <2>1, RestInOrder DEF CustomerFirst
  <1>4. \A t \in Txns : Commit(t) \/ Abort(t) => Ended(t)
    BY DEF Commit, CommitFill, CommitCancel, CommitPlace, CommitRelease, CommitClose, EndEmpty,
       Abort
  <1>5. CASE UNCHANGED vars
    BY <1>5 DEF vars, CustomerFirst
  <1> QED BY <1>1, <1>2, <1>3, <1>4, <1>5 DEF Next

\* Whoever holds the position without the customer waits for nobody.
LEMMA PositionAlone ==
  ASSUME LockInv, CustomerFirst, NEW u \in Txns,
         "position" \in DOMAIN seen[u], "customer" \notin DOMAIN seen[u]
  PROVE  WaitsFor(u) = {}
  <1>1. InOrder(u, DOMAIN seen[u], want[u], mode[u])
    BY DEF CustomerFirst
  <1>2. u \in Settlers
    BY <1>1, Kinds DEF InOrder, Settlers, Placements, Batches
  <1>3. want[u] = "nothing"
    BY <1>1, <1>2 DEF InOrder
  <1>4. \A v \in Txns : "nothing" \notin DOMAIN seen[v]
    BY RowNames DEF LockInv, Shape, TypeOK
  <1> QED BY <1>3, <1>4 DEF WaitsFor

\* Following the waits from t one stays in any set that has those t waits for and
\* is closed under waiting; if t is not in it, no circle leads back to t.
LEMMA NoCircle ==
  ASSUME LockInv, NEW t \in Txns, NEW S \in SUBSET Txns, t \notin S,
         WaitsFor(t) \subseteq S, \A u \in S : WaitsFor(u) \subseteq S
  PROVE  ~ OnCircle(t)
  <1> DEFINE N == Cardinality(Txns)
             Further(U) == UNION {{u} \cup WaitsFor(u) : u \in U}
             Body(w) == [n \in 0..N |-> IF n = 0 THEN WaitsFor(t) ELSE Further(w[n-1])]
             followed == CHOOSE w : w = Body(w)
             step == [n \in 1..N |-> [U \in SUBSET Txns |-> Further(U)]]
  <1>1. N \in Nat /\ WaitsFor(t) \in SUBSET Txns
    BY RowLocksAssumption, FS_CardinalityType DEF WaitsFor
  <1> HIDE DEF N
  <1>2. step \in [1..N -> [SUBSET Txns -> SUBSET Txns]]
    BY DEF WaitsFor
  <1>3. PICK f \in [0..N -> SUBSET Txns] : Iterates(N, WaitsFor(t), step, f)
    <2> HIDE DEF step
    <2> QED BY <1>1, <1>2, IteratesExist
  <1>4. f = Body(f)
    <2>1. \A n \in 0..N : n # 0 => n \in 1..N /\ n - 1 \in 0..N
      BY <1>1
    <2>2. \A n \in 0..N : f[n] = IF n = 0 THEN WaitsFor(t) ELSE step[n][f[n-1]]
      BY <1>3 DEF Iterates
    <2>3. \A n \in 1..N, U \in SUBSET Txns : step[n][U] = Further(U)
      OBVIOUS
    <2> HIDE DEF step
    <2>4. \A n \in 0..N : f[n] = IF n = 0 THEN WaitsFor(t) ELSE Further(f[n-1])
      BY <2>1, <2>2, <2>3
    <2>5. f = [n \in 0..N |-> f[n]]
      OBVIOUS
    <2> QED BY <2>4, <2>5
  <1>5. followed = Body(followed)
    BY <1>4
  <1>6. OnCircle(t) <=> t \in followed[N]
    BY DEF OnCircle, N
  <1> HIDE DEF followed
  <1>7. /\ followed[0] = WaitsFor(t)
        /\ \A n \in 1..N : followed[n] = Further(followed[n-1])
    <2>1. 0 \in 0..N /\ \A n \in 1..N : n \in 0..N /\ n # 0
      BY <1>1
    <2> QED BY <1>5, <2>1
  <1> DEFINE Good == {n \in 0..N : followed[n] \subseteq S}
  <1>8. 0 \in Good
    BY <1>1, <1>7
  <1>9. ASSUME NEW n \in 1..N, n - 1 \in Good PROVE n \in Good
    <2>1. followed[n] = Further(followed[n-1]) /\ followed[n-1] \subseteq S
      BY <1>7, <1>9
    <2>2. followed[n] \subseteq S
      BY <2>1
    <2> QED BY <1>1, <2>2
  <1> HIDE DEF Good
  <1>10. \A n \in 0..N : n \in Good
    BY <1>1, <1>8, <1>9, Rounds
  <1>11. N \in Good
    BY <1>1, <1>10
  <1> QED BY <1>6, <1>11 DEF Good

\* Where a row comes in the order in which all but some batches ask.
Rank(r) ==
  IF r \in Orders THEN 0 ELSE IF r = "customer" THEN 1 ELSE IF r = "position" THEN 2 ELSE 3

\* A batch that has the customer and goes back for an order row.
GoesBack(u) == u \in Batches /\ "customer" \in DOMAIN seen[u] /\ want[u] \in Orders

\* Without such a batch, whoever has locked a row waits for a later one.
LEMMA WaitsRise ==
  ASSUME LockInv, CustomerFirst, NEW u \in Txns, ~ GoesBack(u), NEW r \in DOMAIN seen[u]
  PROVE  Rank(want[u]) > Rank(r)
  <1> DEFINE w == want[u]
             s == DOMAIN seen[u]
  <1>1. /\ InOrder(u, s, w, mode[u])
        /\ w \in Rows \cup {"nothing"} /\ r \in Rows /\ r \in s
    BY DEF CustomerFirst, LockInv, Shape, TypeOK
  <1>2. u \in Settlers \cup Placements \cup Batches
    BY Kinds DEF Settlers, Placements, Batches
  <1> HIDE DEF w, s
  <1>3. w \notin Orders
    <2>1. CASE u \in Settlers
      BY <1>1, <2>1 DEF InOrder
    <2>2. CASE u \in Batches
      BY <1>1, <2>2 DEF InOrder, GoesBack, w, s
    <2>3. CASE u \in Placements
      BY <1>1, <2>3, RowNames DEF InOrder, Rows
    <2> QED BY <1>2, <2>1, <2>2, <2>3
  <1>4. w # r
    BY <1>1 DEF InOrder
  <1>5. r = "position" => w # "customer"
    BY <1>1, <1>2 DEF InOrder
  <1> QED BY <1>1, <1>3, <1>4, <1>5, RowNames DEF Rank, Rows, w

\* So a circle has such a batch.
LEMMA CircleGoesBack ==
  ASSUME LockInv, CustomerFirst, NEW t \in Txns, OnCircle(t)
  PROVE  \E u \in Txns : GoesBack(u)
  <1> SUFFICES ASSUME \A u \in Txns : ~ GoesBack(u) PROVE FALSE
    OBVIOUS
  <1> DEFINE S == {u \in Txns : Rank(want[u]) > Rank(want[t])}
  <1>1. \A v \in Txns : \A u \in WaitsFor(v) : u \in Txns /\ Rank(want[u]) > Rank(want[v])
    BY WaitsRise DEF WaitsFor
  <1>2. \A r : Rank(r) \in Nat
    BY DEF Rank
  <1>3. WaitsFor(t) \subseteq S /\ \A u \in S : WaitsFor(u) \subseteq S
    BY <1>1, <1>2
  <1>4. t \notin S
    BY <1>2
  <1> HIDE DEF S
  <1> QED BY <1>3, <1>4, NoCircle DEF S

\* Deadlocks happen only while a batch goes back for the orders: no other
\* transactions, however many, make each other fail.
THEOREM NoDeadlockWithoutBatch == Spec => DeadlocksTakeABatch
  <1>1. Init => CustomerFirst
    BY NoRows, RestInOrder DEF Init, CustomerFirst
  <1>2. LockInv /\ CustomerFirst /\ [Next]_vars => CustomerFirst'
    BY OrderStep
  <1>3. LockInv /\ CustomerFirst =>
          \A t \in Txns : Abort(t) =>
            \E u \in Txns :
              /\ u.kind \in {"fee", "call", "force"}
              /\ "customer" \in DOMAIN seen[u] /\ want[u] \in Orders
    <2> SUFFICES ASSUME LockInv, CustomerFirst, NEW t \in Txns, Abort(t)
                 PROVE  \E u \in Txns : /\ u.kind \in {"fee", "call", "force"}
                                       /\ "customer" \in DOMAIN seen[u] /\ want[u] \in Orders
      OBVIOUS
    <2>1. PICK v \in Txns : OnCircle(v)
      BY DEF Abort, Victim
    <2>2. PICK u \in Txns : GoesBack(u)
      BY <2>1, CircleGoesBack
    <2> QED BY <2>2 DEF GoesBack, Batches
  <1> QED BY LocksInvariant, <1>1, <1>2, <1>3, PTL DEF Spec, DeadlocksTakeABatch

\* Nobody who waits for the position while another has the customer is on a circle.
LEMMA NoCircleBehindCustomer ==
  ASSUME LockInv, CustomerFirst, NEW t \in Txns, NEW v \in Txns, want[v] = "position",
         "customer" \in DOMAIN seen[t], "position" \notin DOMAIN seen[t]
  PROVE  ~ OnCircle(v)
  <1> DEFINE S == {u \in Txns \ {v} : WaitsFor(u) = {}}
  <1>1. ASSUME NEW u \in WaitsFor(v) PROVE u \in S
    <2>1. u \in Txns \ {v} /\ "position" \in DOMAIN seen[u] /\ u # t
      BY <1>1 DEF WaitsFor
    <2>2. "customer" \notin DOMAIN seen[u]
      BY <2>1 DEF LockInv, Alone
    <2> QED BY <2>1, <2>2, PositionAlone
  <1>2. S \in SUBSET Txns /\ v \notin S /\ WaitsFor(v) \subseteq S
        /\ \A u \in S : WaitsFor(u) \subseteq S
    BY <1>1
  <1> HIDE DEF S
  <1> QED BY <1>2, NoCircle

\* Placing an order, and a fee or call that the balance covers, are never made to
\* fail by the deadlock detector once they have the row of the customer.
THEOREM BystandersSafe == Spec => BystandersUnharmed
  <1>1. Init => CustomerFirst
    BY NoRows, RestInOrder DEF Init, CustomerFirst
  <1>2. LockInv /\ CustomerFirst /\ [Next]_vars => CustomerFirst'
    BY OrderStep
  <1>3. LockInv /\ CustomerFirst =>
          \A t \in Txns : (t.kind = "place" \/ mode[t] = "pay") /\ Abort(t) =>
            want[t] = "customer" /\ DOMAIN seen[t] = {}
    <2> SUFFICES ASSUME LockInv, CustomerFirst,
                        NEW t \in Txns, t.kind = "place" \/ mode[t] = "pay", Abort(t)
                 PROVE  want[t] = "customer" /\ DOMAIN seen[t] = {}
      OBVIOUS
    <2>1. InOrder(t, DOMAIN seen[t], want[t], mode[t]) /\ want[t] # "nothing"
      BY DEF CustomerFirst, Abort, Victim
    <2>2. PICK v \in Txns : OnCircle(v) /\ want[v] = want[t]
      BY DEF Abort, Victim
    <2>3. t \in Placements \cup Batches
      <3>1. mode[t] \in Modes(t)
        BY <2>1 DEF LockInv, Shape, TypeOK
      <3> QED BY <3>1, ModesOf, Kinds DEF Placements, Batches
    <2>4. want[t] \in {"customer", "position"} /\ (want[t] = "customer" => DOMAIN seen[t] = {})
      BY <2>1 DEF InOrder, Placements
    <2>5. ASSUME want[t] = "position" PROVE FALSE
      <3>1. "customer" \in DOMAIN seen[t] /\ "position" \notin DOMAIN seen[t]
        BY <2>1, <2>3, <2>5 DEF InOrder
      <3> QED BY <2>2, <2>5, <3>1, NoCircleBehindCustomer
    <2> QED BY <2>4, <2>5
  <1> QED BY LocksInvariant, <1>1, <1>2, <1>3, PTL DEF Spec, BystandersUnharmed
=============================================================================
