--------------------------- MODULE IdentityProofs ---------------------------
(***************************************************************************)
(* What customers are verified for and what is on the disk, for every      *)
(* number of customers, photos and requests.                               *)
(***************************************************************************)
EXTENDS Identity, TLAPS

-----------------------------------------------------------------------------
(* Types *)

\* A row that is in use, and the changes of its columns.
LEMMA RowKinds ==
  ASSUME TypeOK, NEW c \in Customers
  PROVE  /\ row[c] # Unused => row[c] \in Rows
         /\ Live(c) => row[c] \in Rows
  BY DEF TypeOK, Live, Unused

\* A request is what its kind says.
LEMMA RequestKinds ==
  ASSUME TypeOK, NEW q \in Requests
  PROVE  /\ req[q].kind = "upload" => req[q] \in Uploads
         /\ req[q].kind = "register" => req[q].phone \in Phones
         /\ req[q].kind = "identity" => req[q].who \in Customers /\ req[q].person \in People
         /\ req[q].kind = "face" => req[q].who \in Customers /\ req[q].look \in Materials
         /\ req[q].kind \in {"form", "save"} =>
              /\ req[q].who \in Customers /\ req[q].copy \in Rows
              /\ req[q] = [kind |-> req[q].kind, who |-> req[q].who, copy |-> req[q].copy]
         /\ req[q].kind = "deposit" =>
              req[q].who \in Customers /\ req[q].copy \in Rows /\ req[q].late \in BOOLEAN
  BY DEF TypeOK, ReqRecords, Uploads, Idle

\* What becomes of a row is a row.
LEMMA RowChanges ==
  ASSUME NEW r \in Rows
  PROVE  /\ Material(r) \in Materials
         /\ \A v \in Verdicts : [r EXCEPT !.verified = v] \in Rows
         /\ \A n \in People \cup {Nobody}, v \in Verdicts :
              [r EXCEPT !.person = n, !.verified = v] \in Rows
         /\ [r EXCEPT !.state = "deleted"] \in Rows
         /\ \A side \in Sides, f \in Photos :
              [[r EXCEPT !.verified = "disabled"] EXCEPT ![side] = f] \in Rows
         /\ \A side \in Sides : r[side] \in Photos
         /\ \A n \in People \cup {Nobody}, v \in Verdicts, f, b \in Photos :
              [r EXCEPT !.person = n, !.verified = v, !.front = f, !.back = b] \in Rows
  <1>1. Material(r) \in Materials
    BY DEF Material, Materials, Rows
  <1>2. \A v \in Verdicts : [r EXCEPT !.verified = v] \in Rows
    BY DEF Rows
  <1>3. \A n \in People \cup {Nobody}, v \in Verdicts :
          [r EXCEPT !.person = n, !.verified = v] \in Rows
    BY DEF Rows
  <1>4. [r EXCEPT !.state = "deleted"] \in Rows
    BY DEF Rows
  <1>5. \A side \in Sides, f \in Photos :
          [[r EXCEPT !.verified = "disabled"] EXCEPT ![side] = f] \in Rows
    BY DEF Rows, Sides, Verdicts
  <1>6. \A side \in Sides : r[side] \in Photos
    BY DEF Rows, Sides
  <1>7. \A n \in People \cup {Nobody}, v \in Verdicts, f, b \in Photos :
          [r EXCEPT !.person = n, !.verified = v, !.front = f, !.back = b] \in Rows
    BY DEF Rows
  <1> QED BY <1>1, <1>2, <1>3, <1>4, <1>5, <1>6, <1>7

LEMMA NewRows ==
  ASSUME NEW p \in Phones, NEW n \in People \cup {Nobody}, NEW v \in Verdicts
  PROVE  NewRow(p, n, v) \in Rows
  BY DEF NewRow, Rows, Photos

\* What most actions do to the requests and to a row keeps the types.
LEMMA Typed ==
  ASSUME TypeOK,
         row' = row \/ \E c \in Customers, r \in Rows : row' = [row EXCEPT ![c] = r],
         files' = files \/ \E f \in Files, x \in {"there", "removed"} :
                             files' = [files EXCEPT ![f] = x],
         req' = req \/ \E q \in Requests, r \in ReqRecords : req' = [req EXCEPT ![q] = r],
         calls' = calls \/ (calls < MaxCalls /\ calls' = calls + 1),
         seen' = seen \/ \E c \in Customers, m \in Materials :
                           seen' = [seen EXCEPT ![c] = @ \cup {m}],
         overtaken' \subseteq Customers, restored' \subseteq Customers, disturbed' \in BOOLEAN
  PROVE  TypeOK'
  <1>1. row' \in [Customers -> Rows \cup {Unused}]
    BY DEF TypeOK
  <1>2. files' \in [Files -> {"unused", "there", "removed"}]
    BY DEF TypeOK
  <1>3. req' \in [Requests -> ReqRecords]
    BY DEF TypeOK
  <1>4. seen' \in [Customers -> SUBSET Materials]
    BY DEF TypeOK
  <1>5. calls' \in 0..MaxCalls
    BY IdentityAssumption DEF TypeOK
  <1> QED BY <1>1, <1>2, <1>3, <1>4, <1>5 DEF TypeOK

\* The requests that there are.
LEMMA NewRequests ==
  /\ Idle \in ReqRecords
  /\ \A p \in Phones : [kind |-> "register", phone |-> p] \in ReqRecords
  /\ \A c \in Customers, n \in People :
       [kind |-> "identity", who |-> c, person |-> n] \in ReqRecords
  /\ \A c \in Customers, m \in Materials : [kind |-> "face", who |-> c, look |-> m] \in ReqRecords
  /\ \A c \in Customers, r \in Rows, k \in {"form", "save"} :
       [kind |-> k, who |-> c, copy |-> r] \in ReqRecords
  /\ \A c \in Customers, r \in Rows, l \in BOOLEAN :
       [kind |-> "deposit", who |-> c, copy |-> r, late |-> l] \in ReqRecords
  /\ Uploads \subseteq ReqRecords
  BY DEF ReqRecords

\* A verdict is a verdict, whoever gives it.
LEMMA JudgeTyped ==
  ASSUME TypeOK, NEW c \in Customers, NEW look \in Materials, NEW v \in Verdicts,
         Judge(c, look, v)
  PROVE  /\ row' = row \/ \E r \in Rows : row' = [row EXCEPT ![c] = r]
         /\ seen' = seen \/ seen' = [seen EXCEPT ![c] = @ \cup {look}]
         /\ overtaken' \subseteq Customers
  <1>1. row' = row \/ (Live(c) /\ row' = [row EXCEPT ![c] = [row[c] EXCEPT !.verified = v]])
    BY DEF Judge, Updated
  <1>2. Live(c) => [row[c] EXCEPT !.verified = v] \in Rows
    BY RowKinds, RowChanges
  <1>3. seen' = seen \/ seen' = [seen EXCEPT ![c] = @ \cup {look}]
    BY DEF Judge, TypeOK
  <1>4. overtaken' \subseteq Customers
    BY DEF Judge, TypeOK
  <1> QED BY <1>1, <1>2, <1>3, <1>4

LEMMA TypeStep == TypeOK /\ [IdentityNext]_identityVars => TypeOK'
  <1> SUFFICES ASSUME TypeOK, [IdentityNext]_identityVars PROVE TypeOK'
    OBVIOUS
  <1>0. /\ overtaken \subseteq Customers /\ restored \subseteq Customers
        /\ disturbed \in BOOLEAN
    BY DEF TypeOK
  <1>1. ASSUME NEW q \in Requests, NEW p \in Phones, BeginRegister(q, p) PROVE TypeOK'
    BY <1>0, <1>1, Typed, NewRequests DEF BeginRegister, Begin, History
  <1>2. ASSUME NEW q \in Requests, NEW c \in Customers, Register(q, c) PROVE TypeOK'
    <2>1. NewRow(req[q].phone, Nobody, "disabled") \in Rows
      BY <1>2, RequestKinds, NewRows DEF Register, Verdicts
    <2>2. /\ req' = [req EXCEPT ![q] = Idle] /\ calls' = calls
          /\ UNCHANGED <<files, seen, overtaken, restored, disturbed>>
          /\ \/ row' = row
             \/ row' = [row EXCEPT ![c] = NewRow(req[q].phone, Nobody, "disabled")]
      BY <1>2 DEF Register, End, History
    <2> QED BY <1>0, <2>1, <2>2, Typed, NewRequests
  <1>3. ASSUME NEW c \in Customers, NEW p \in Phones, NEW n \in People, NEW v \in Verdicts,
               Create(c, p, n, v)
        PROVE  TypeOK'
    <2>1. NewRow(p, n, v) \in Rows /\ Material(NewRow(p, n, v)) \in Materials
      BY NewRows, RowChanges
    <2> QED BY <1>0, <1>3, <2>1, Typed DEF Create, Once
  <1>4. ASSUME NEW c \in Customers, Delete(c) PROVE TypeOK'
    <2>1. /\ row' = [row EXCEPT ![c] = [row[c] EXCEPT !.state = "deleted"]]
          /\ [row[c] EXCEPT !.state = "deleted"] \in Rows
      BY <1>4, RowKinds, RowChanges DEF Delete
    <2>2. disturbed' \in BOOLEAN
      BY <1>0, <1>4 DEF Delete
    <2> QED BY <1>0, <1>4, <2>1, <2>2, Typed DEF Delete, Once
  <1>5. ASSUME NEW q \in Requests, NEW c \in Customers, NEW side \in Sides, NEW f \in Files,
               SavePhoto(q, c, side, f)
        PROVE  TypeOK'
    <2>1. [kind |-> "upload", at |-> "saved", who |-> c, side |-> side, file |-> f,
           previous |-> NoPhoto] \in ReqRecords
      BY NewRequests DEF Uploads, Photos
    <2>2. disturbed' \in BOOLEAN
      BY <1>0, <1>5 DEF SavePhoto
    <2> QED BY <1>0, <1>5, <2>1, <2>2, Typed DEF SavePhoto, Begin
  <1>6. ASSUME NEW q \in Requests, FindPrevious(q) PROVE TypeOK'
    <2>1. req[q] \in Uploads
      BY <1>6, RequestKinds DEF FindPrevious
    <2>2. CASE Live(req[q].who)
      <3>1. row[req[q].who][req[q].side] \in Photos
        BY <2>1, <2>2, RowKinds, RowChanges DEF Uploads
      <3> DEFINE r == [req[q] EXCEPT !.at = "read", !.previous = row[req[q].who][req[q].side]]
      <3>2. r \in ReqRecords
        BY <2>1, <3>1, NewRequests DEF Uploads
      <3>3. /\ req' = [req EXCEPT ![q] = r] /\ files' = files /\ calls' = calls
            /\ UNCHANGED <<row, seen, overtaken, restored, disturbed>>
        BY <1>6, <2>2 DEF FindPrevious, History
      <3> QED BY <1>0, <3>2, <3>3, Typed
    <2>3. CASE ~Live(req[q].who)
      <3>1. /\ req' = [req EXCEPT ![q] = Idle] /\ calls' = calls
            /\ files' = [files EXCEPT ![req[q].file] = "removed"]
            /\ UNCHANGED <<row, seen, overtaken, restored, disturbed>>
        BY <1>6, <2>1, <2>3 DEF FindPrevious, Remove, End, History, Uploads
      <3> QED BY <1>0, <2>1, <3>1, Typed, NewRequests DEF Uploads
    <2> QED BY <2>2, <2>3
  <1>7. ASSUME NEW q \in Requests, NamePhoto(q) PROVE TypeOK'
    <2>1. req[q] \in Uploads
      BY <1>7, RequestKinds DEF NamePhoto
    <2> DEFINE r == [req[q] EXCEPT !.at = "written"]
               c == req[q].who
               n == [[row[c] EXCEPT !.verified = "disabled"] EXCEPT ![req[q].side] = req[q].file]
    <2>2. r \in ReqRecords /\ c \in Customers
      BY <2>1, NewRequests DEF Uploads
    <2>3. Live(c) => n \in Rows
      BY <2>1, RowKinds, RowChanges DEF Uploads, Photos
    <2>4. /\ req' = [req EXCEPT ![q] = r] /\ UNCHANGED <<files, calls, History>>
          /\ row' = row \/ (Live(c) /\ row' = [row EXCEPT ![c] = n])
      BY <1>7 DEF NamePhoto, Updated
    <2> HIDE DEF r, c, n
    <2> QED BY <1>0, <2>2, <2>3, <2>4, Typed DEF History
  <1>8. ASSUME NEW q \in Requests, NamePhotoFails(q) PROVE TypeOK'
    BY <1>0, <1>8, Typed, NewRequests DEF NamePhotoFails, Remove, End, History
  <1>9. ASSUME NEW q \in Requests, RemovePrevious(q) PROVE TypeOK'
    BY <1>0, <1>9, Typed, NewRequests DEF RemovePrevious, Remove, End, History
  <1>10. ASSUME NEW c \in Customers, NEW n \in People, SaveVerificationProfile(c, n)
         PROVE  TypeOK'
    <2> DEFINE r == [row[c] EXCEPT !.person = n, !.verified = "disabled"]
    <2>1. row' = [row EXCEPT ![c] = r]
      BY <1>10 DEF SaveVerificationProfile
    <2>2. r \in Rows
      BY <1>10, RowKinds, RowChanges DEF SaveVerificationProfile, Verdicts
    <2> HIDE DEF r
    <2> QED BY <1>0, <1>10, <2>1, <2>2, Typed DEF SaveVerificationProfile, Once, History
  <1>11. ASSUME NEW q \in Requests, NEW c \in Customers, NEW n \in People, BeginIdentity(q, c, n)
         PROVE  TypeOK'
    BY <1>0, <1>11, Typed, NewRequests DEF BeginIdentity, Begin, History
  <1>12. ASSUME NEW q \in Requests, SaveVerificationIdentity(q) PROVE TypeOK'
    <2> DEFINE c == req[q].who
               r == [row[c] EXCEPT !.person = req[q].person, !.verified = "pending"]
    <2>1. c \in Customers /\ req[q].person \in People
      BY <1>12, RequestKinds DEF SaveVerificationIdentity
    <2>2. Live(c) => r \in Rows
      BY <2>1, RowKinds, RowChanges DEF Verdicts
    <2>3. /\ req' = [req EXCEPT ![q] = Idle] /\ UNCHANGED <<files, calls, History>>
          /\ row' = row \/ (Live(c) /\ row' = [row EXCEPT ![c] = r])
      BY <1>12 DEF SaveVerificationIdentity, Updated, End
    <2> HIDE DEF r, c
    <2> QED BY <1>0, <2>1, <2>2, <2>3, Typed, NewRequests DEF History
  <1>13. ASSUME NEW q \in Requests, NEW c \in Customers, StartFaceVerification(q, c)
         PROVE  TypeOK'
    <2>1. Material(row[c]) \in Materials
      BY <1>13, RowKinds, RowChanges DEF StartFaceVerification
    <2> QED BY <1>0, <1>13, <2>1, Typed, NewRequests DEF StartFaceVerification, Begin, History
  <1>14. ASSUME NEW q \in Requests, NEW passed \in BOOLEAN, FaceVerified(q, passed)
         PROVE  TypeOK'
    <2> DEFINE c == req[q].who
               look == req[q].look
               v == IF passed THEN "verified" ELSE "pending"
    <2>1. c \in Customers /\ look \in Materials /\ v \in Verdicts
      BY <1>14, RequestKinds DEF FaceVerified, Verdicts
    <2>2. /\ req' = [req EXCEPT ![q] = Idle] /\ UNCHANGED <<files, calls, restored, disturbed>>
          /\ Judge(c, look, v)
      BY <1>14 DEF FaceVerified, End
    <2> HIDE DEF c, look, v
    <2>3. /\ row' = row \/ \E r \in Rows : row' = [row EXCEPT ![c] = r]
          /\ seen' = seen \/ seen' = [seen EXCEPT ![c] = @ \cup {look}]
          /\ overtaken' \subseteq Customers
      BY <2>1, <2>2, JudgeTyped
    <2> QED BY <1>0, <2>1, <2>2, <2>3, Typed, NewRequests
  <1>15. ASSUME NEW q \in Requests, NEW c \in Customers, OpenForm(q, c) PROVE TypeOK'
    BY <1>0, <1>15, RowKinds, Typed, NewRequests DEF OpenForm, Begin, History
  <1>16. ASSUME NEW q \in Requests, NEW v \in {"verified", "rejected"}, ReviewVerification(q, v)
         PROVE  TypeOK'
    <2> DEFINE c == req[q].who
               look == Material(req[q].copy)
    <2>1. c \in Customers /\ look \in Materials /\ v \in Verdicts
      BY <1>16, RequestKinds, RowChanges DEF ReviewVerification, Verdicts
    <2>2. /\ req' = [req EXCEPT ![q] = Idle] /\ UNCHANGED <<files, calls, restored, disturbed>>
          /\ Judge(c, look, v)
      BY <1>16 DEF ReviewVerification, End
    <2> HIDE DEF c, look
    <2>3. /\ row' = row \/ \E r \in Rows : row' = [row EXCEPT ![c] = r]
          /\ seen' = seen \/ seen' = [seen EXCEPT ![c] = @ \cup {look}]
          /\ overtaken' \subseteq Customers
      BY <2>1, <2>2, JudgeTyped
    <2> QED BY <1>0, <2>1, <2>2, <2>3, Typed, NewRequests
  <1>17. ASSUME NEW q \in Requests, BeginUpdate(q) PROVE TypeOK'
    <2> DEFINE r == [req[q] EXCEPT !.kind = "save"]
    <2>1. /\ req[q].who \in Customers /\ req[q].copy \in Rows
          /\ req[q] = [kind |-> "form", who |-> req[q].who, copy |-> req[q].copy]
      BY <1>17, RequestKinds DEF BeginUpdate
    <2>2. r = [kind |-> "save", who |-> req[q].who, copy |-> req[q].copy]
      BY <2>1
    <2>3. /\ req' = [req EXCEPT ![q] = r] \/ req' = [req EXCEPT ![q] = Idle]
          /\ UNCHANGED <<row, files, calls, History>>
      BY <1>17 DEF BeginUpdate, End
    <2> HIDE DEF r
    <2>4. r \in ReqRecords
      BY <2>1, <2>2, NewRequests
    <2> QED BY <1>0, <2>3, <2>4, Typed, NewRequests DEF History
  <1>18. ASSUME NEW q \in Requests, NEW n \in People \cup {Nobody}, NEW v \in Verdicts,
                Update(q, n, v)
         PROVE  TypeOK'
    <2> DEFINE c == req[q].who
               copy == req[q].copy
               f == Shown(copy.front)
               b == Shown(copy.back)
               new == [copy EXCEPT !.person = n, !.verified = v, !.front = f, !.back = b]
    <2>1. c \in Customers /\ copy \in Rows
      BY <1>18, RequestKinds DEF Update
    <2>2. f \in Photos /\ b \in Photos
      BY <2>1 DEF Shown, Photos, Rows
    <2>3. /\ row' = [row EXCEPT ![c] = new]
          /\ seen' = [seen EXCEPT ![c] = IF v = "verified" THEN @ \cup {Material(new)} ELSE @]
          /\ disturbed' = TRUE /\ req' = [req EXCEPT ![q] = Idle]
          /\ UNCHANGED <<files, calls, overtaken, restored>>
      BY <1>18 DEF Update, End
    <2> HIDE DEF c, copy, f, b
    <2>4. new \in Rows
      BY <2>1, <2>2, RowChanges
    <2> HIDE DEF new
    <2>5. seen' = seen \/ seen' = [seen EXCEPT ![c] = @ \cup {Material(new)}]
      BY <2>1, <2>3 DEF TypeOK
    <2> QED BY <1>0, <2>1, <2>3, <2>4, <2>5, RowChanges, Typed, NewRequests
  <1>19. ASSUME NEW q \in Requests, NEW c \in Customers, BeginDeposit(q, c) PROVE TypeOK'
    <2> DEFINE l == c \in overtaken
               r == [kind |-> "deposit", who |-> c, copy |-> row[c], late |-> l]
    <2>1. /\ calls < MaxCalls /\ calls' = calls + 1 /\ req' = [req EXCEPT ![q] = r]
          /\ UNCHANGED <<row, files, History>>
      BY <1>19 DEF BeginDeposit, Begin
    <2>2. l \in BOOLEAN /\ row[c] \in Rows
      BY <1>19, RowKinds DEF BeginDeposit
    <2> HIDE DEF l
    <2>3. r \in ReqRecords
      BY <2>2, NewRequests
    <2> HIDE DEF r
    <2> QED BY <1>0, <2>1, <2>3, Typed DEF History
  <1>20. ASSUME NEW q \in Requests, Deposit(q) PROVE TypeOK'
    <2> DEFINE c == req[q].who
    <2>1. c \in Customers /\ req[q].copy \in Rows
      BY <1>20, RequestKinds DEF Deposit
    <2>2. /\ row' = [row EXCEPT ![c] = req[q].copy]
          /\ restored' \subseteq Customers /\ overtaken' \subseteq Customers
          /\ disturbed' \in BOOLEAN /\ req' = [req EXCEPT ![q] = Idle]
          /\ UNCHANGED <<files, calls, seen>>
      BY <1>0, <1>20, <2>1 DEF Deposit, End
    <2> HIDE DEF c
    <2> QED BY <1>0, <2>1, <2>2, Typed, NewRequests
  <1>21. ASSUME NEW q \in Requests, Stop(q) PROVE TypeOK'
    BY <1>0, <1>21, Typed, NewRequests DEF Stop, End
  <1>22. CASE UNCHANGED identityVars
    BY <1>22 DEF identityVars, TypeOK
  <1> QED BY <1>1, <1>2, <1>3, <1>4, <1>5, <1>6, <1>7, <1>8, <1>9, <1>10, <1>11, <1>12, <1>13,
             <1>14, <1>15, <1>16, <1>17, <1>18, <1>19, <1>20, <1>21, <1>22
          DEF IdentityNext, Accounts, UploadMaterial, Verification, WholeRows

\* The program starts with well-typed rows.
LEMMA TypeInit == IdentityInit => TypeOK
  <1> SUFFICES ASSUME IdentityInit PROVE TypeOK
    OBVIOUS
  <1>1. /\ req = [q \in Requests |-> Idle] /\ seen = [c \in Customers |-> {}]
        /\ overtaken = {} /\ restored = {} /\ disturbed = FALSE /\ calls = 0
    BY DEF IdentityInit
  <1>2. req \in [Requests -> ReqRecords] /\ seen \in [Customers -> SUBSET Materials]
    BY <1>1, NewRequests
  <1>3. calls \in 0..MaxCalls
    BY <1>1, IdentityAssumption
  <1>4. /\ row \in [Customers -> Rows \cup {Unused}]
        /\ files \in [Files -> {"unused", "there", "removed"}]
    <2>1. CASE /\ row = [c \in Customers |-> Unused]
               /\ files = [f \in Files |-> "unused"]
      BY <2>1
    <2>2. ASSUME NEW c \in Customers, NEW p \in Phones, NEW n \in People, NEW f \in Files,
                 NEW b \in Files,
                 row = [d \in Customers |-> IF d # c THEN Unused ELSE
                   [state |-> "live", phone |-> p, person |-> n, verified |-> "pending",
                    front |-> f, back |-> b]],
                 files = [x \in Files |-> IF x \in {f, b} THEN "there" ELSE "unused"]
          PROVE  /\ row \in [Customers -> Rows \cup {Unused}]
                 /\ files \in [Files -> {"unused", "there", "removed"}]
      <3>1. [state |-> "live", phone |-> p, person |-> n, verified |-> "pending",
             front |-> f, back |-> b] \in Rows
        BY DEF Rows, Verdicts, Photos
      <3> QED BY <2>2, <3>1
    <2> QED BY <2>1, <2>2 DEF IdentityInit
  <1> QED BY <1>1, <1>2, <1>3, <1>4 DEF TypeOK

THEOREM IdentityTyped == IdentitySpec => []TypeOK
  BY TypeInit, TypeStep, PTL DEF IdentitySpec

-----------------------------------------------------------------------------
(***************************************************************************)
(* Verdicts.  The copy of a row that waits in a deposit holds a verdict of *)
(* its own, which comes back with it: it has to be as good as the one in   *)
(* the row, whatever has become of that.                                   *)
(***************************************************************************)
Verified(r) == r.verified = "verified"

CopiesWereSeen == \A q \in Requests :
  req[q].kind = "deposit" /\ ~req[q].late /\ Verified(req[q].copy) =>
    Material(req[q].copy) \in seen[req[q].who]

SeenInv == VerifiedWasSeen /\ CopiesWereSeen

\* A step that verifies nobody anew, for what he has been verified.
LEMMA Unseen ==
  ASSUME TypeOK, TypeOK', SeenInv,
         \A c \in Customers : seen[c] \subseteq seen'[c],
         overtaken' = overtaken,
         \A q \in Requests : req'[q].kind = "deposit" => req'[q] = req[q],
         \A c \in Customers : Live(c)' /\ Verified(row'[c]) =>
           \/ Live(c) /\ Verified(row[c]) /\ Material(row'[c]) = Material(row[c])
           \/ Material(row'[c]) \in seen'[c]
  PROVE  SeenInv'
  <1>1. VerifiedWasSeen'
    BY DEF SeenInv, VerifiedWasSeen, Verified
  <1>2. CopiesWereSeen'
    BY RequestKinds DEF SeenInv, CopiesWereSeen
  <1> QED BY <1>1, <1>2 DEF SeenInv

\* A verdict that comes late is known to be late.
LEMMA JudgeSeen ==
  ASSUME TypeOK, TypeOK', SeenInv, NEW d \in Customers, NEW look \in Materials,
         NEW v \in Verdicts, Judge(d, look, v),
         \A q \in Requests : req'[q].kind = "deposit" => req'[q] = req[q]
  PROVE  SeenInv'
  <1>1. \A c \in Customers : seen[c] \subseteq seen'[c]
    BY DEF Judge, TypeOK
  <1>2. ASSUME NEW c \in Customers \ overtaken', Live(c)', row'[c].verified = "verified"
        PROVE  Material(row'[c]) \in seen'[c]
    <2>1. CASE c # d \/ ~Live(d)
      <3>1. row'[c] = row[c]
        BY <2>1 DEF Judge, Updated, TypeOK
      <3>2. c \notin overtaken
        BY <1>2, <2>1 DEF Judge
      <3> QED BY <1>1, <1>2, <3>1, <3>2 DEF SeenInv, VerifiedWasSeen, Live
    <2>2. CASE c = d /\ Live(d)
      <3>1. row[d] \in Rows /\ row'[d] = [row[d] EXCEPT !.verified = v]
        BY <2>2, RowKinds DEF Judge, Updated, TypeOK
      <3>2. v = "verified" /\ Material(row'[d]) = Material(row[d])
        BY <1>2, <2>2, <3>1 DEF Material, Rows
      <3>3. Material(row[d]) = look
        BY <1>2, <2>2, <3>2 DEF Judge
      <3>4. look \in seen'[d]
        BY <3>2 DEF Judge, TypeOK
      <3> QED BY <2>2, <3>2, <3>3, <3>4
    <2> QED BY <2>1, <2>2
  <1>3. CopiesWereSeen'
    BY <1>1, RequestKinds DEF SeenInv, CopiesWereSeen
  <1> QED BY <1>2, <1>3 DEF SeenInv, VerifiedWasSeen

LEMMA SeenStep == TypeOK /\ TypeOK' /\ SeenInv /\ [IdentityNext]_identityVars => SeenInv'
  <1> SUFFICES ASSUME TypeOK, TypeOK', SeenInv, [IdentityNext]_identityVars PROVE SeenInv'
    OBVIOUS
  <1>0. \A c \in Customers : Live(c) => row[c] \in Rows
    BY RowKinds
  <1>1. ASSUME row' = row, UNCHANGED <<seen, overtaken>>,
               \A q \in Requests : req'[q].kind = "deposit" => req'[q] = req[q]
        PROVE  SeenInv'
    BY <1>1, Unseen DEF Live
  <1>2. ASSUME NEW q \in Requests, NEW r \in ReqRecords, r.kind # "deposit",
               req' = [req EXCEPT ![q] = r]
        PROVE  \A o \in Requests : req'[o].kind = "deposit" => req'[o] = req[o]
    BY <1>2 DEF TypeOK
  <1>3. ASSUME NEW q \in Requests, req' = [req EXCEPT ![q] = Idle]
        PROVE  \A o \in Requests : req'[o].kind = "deposit" => req'[o] = req[o]
    BY <1>2, <1>3, NewRequests DEF Idle
  <1>4. ASSUME NEW c \in Customers, NEW r \in Rows, row' = [row EXCEPT ![c] = r], ~Verified(r),
               UNCHANGED <<seen, overtaken>>,
               \A q \in Requests : req'[q].kind = "deposit" => req'[q] = req[q]
        PROVE  SeenInv'
    <2>1. row'[c] = r /\ \A d \in Customers \ {c} : row'[d] = row[d]
      BY <1>4 DEF TypeOK
    <2> QED BY <1>4, <2>1, Unseen DEF Live
  <1>5. ASSUME NEW q \in Requests, NEW p \in Phones, BeginRegister(q, p) PROVE SeenInv'
    <2>1. /\ req' = [req EXCEPT ![q] = [kind |-> "register", phone |-> p]]
          /\ UNCHANGED <<row, seen, overtaken>>
      BY <1>5 DEF BeginRegister, Begin, History
    <2>2. [kind |-> "register", phone |-> p] \in ReqRecords
      BY NewRequests
    <2> QED BY <1>1, <1>2, <2>1, <2>2
  <1>6. ASSUME NEW q \in Requests, NEW c \in Customers, Register(q, c) PROVE SeenInv'
    <2> DEFINE r == NewRow(req[q].phone, Nobody, "disabled")
    <2>1. r \in Rows
      BY <1>6, RequestKinds, NewRows DEF Register, Verdicts
    <2>2. ~Verified(r)
      BY DEF NewRow, Verified
    <2> HIDE DEF r
    <2>3. /\ req' = [req EXCEPT ![q] = Idle] /\ UNCHANGED <<seen, overtaken>>
          /\ row' = row \/ row' = [row EXCEPT ![c] = r]
      BY <1>6 DEF Register, End, History, r
    <2> QED BY <1>1, <1>3, <1>4, <2>1, <2>2, <2>3
  <1>7. ASSUME NEW c \in Customers, NEW p \in Phones, NEW n \in People, NEW v \in Verdicts,
               Create(c, p, n, v)
        PROVE  SeenInv'
    <2> DEFINE r == NewRow(p, n, v)
    <2>1. r \in Rows
      BY NewRows
    <2> HIDE DEF r
    <2>2. /\ row' = [row EXCEPT ![c] = r] /\ seen' = [seen EXCEPT ![c] = @ \cup {Material(r)}]
          /\ req' = req /\ overtaken' = overtaken
      BY <1>7 DEF Create, Once, r
    <2>3. /\ row'[c] = r /\ Material(r) \in seen'[c]
          /\ \A d \in Customers : seen[d] \subseteq seen'[d]
          /\ \A d \in Customers \ {c} : row'[d] = row[d]
      BY <2>2 DEF TypeOK
    <2> QED BY <2>2, <2>3, Unseen DEF Live
  <1>8. ASSUME NEW c \in Customers, Delete(c) PROVE SeenInv'
    <2>1. /\ row' = [row EXCEPT ![c] = [row[c] EXCEPT !.state = "deleted"]]
          /\ req' = req /\ UNCHANGED <<seen, overtaken>>
      BY <1>8 DEF Delete, Once
    <2>2. row'[c].state = "deleted"
      BY <1>0, <1>8, <2>1 DEF Delete, TypeOK, Rows
    <2>3. \A d \in Customers \ {c} : row'[d] = row[d]
      BY <2>1 DEF TypeOK
    <2> QED BY <2>1, <2>2, <2>3, Unseen DEF Live
  <1>9. ASSUME NEW q \in Requests, NEW c \in Customers, NEW side \in Sides, NEW f \in Files,
               SavePhoto(q, c, side, f)
        PROVE  SeenInv'
    <2> DEFINE r == [kind |-> "upload", at |-> "saved", who |-> c, side |-> side, file |-> f,
                     previous |-> NoPhoto]
    <2>1. req' = [req EXCEPT ![q] = r] /\ UNCHANGED <<row, seen, overtaken>>
      BY <1>9 DEF SavePhoto, Begin
    <2>2. r \in ReqRecords /\ r.kind # "deposit"
      BY NewRequests DEF Uploads, Photos
    <2> HIDE DEF r
    <2> QED BY <1>1, <1>2, <2>1, <2>2
  <1>10. ASSUME NEW q \in Requests, FindPrevious(q) PROVE SeenInv'
    <2> DEFINE r == [req[q] EXCEPT !.at = "read", !.previous = row[req[q].who][req[q].side]]
    <2>1. req[q] \in Uploads
      BY <1>10, RequestKinds DEF FindPrevious
    <2>2. /\ req' = [req EXCEPT ![q] = r] \/ req' = [req EXCEPT ![q] = Idle]
          /\ UNCHANGED <<row, seen, overtaken>>
      BY <1>10 DEF FindPrevious, End, History
    <2>3. r.kind = "upload"
      BY <2>1 DEF Uploads
    <2> HIDE DEF r
    <2>4. \A o \in Requests : req'[o].kind = "deposit" => req'[o] = req[o]
      BY <1>3, <2>2, <2>3 DEF TypeOK
    <2> QED BY <1>1, <2>2, <2>4
  <1>11. ASSUME NEW q \in Requests, NamePhoto(q) PROVE SeenInv'
    <2> DEFINE r == [req[q] EXCEPT !.at = "written"]
               c == req[q].who
               n == [[row[c] EXCEPT !.verified = "disabled"] EXCEPT ![req[q].side] = req[q].file]
    <2>1. req[q] \in Uploads /\ c \in Customers
      BY <1>11, RequestKinds DEF NamePhoto, Uploads
    <2>2. r.kind = "upload"
      BY <2>1 DEF Uploads
    <2>3. Live(c) => n \in Rows /\ ~Verified(n)
      <3>1. Live(c) => n \in Rows
        BY <2>1, RowKinds, RowChanges DEF Uploads, Photos
      <3>2. Live(c) => n.verified = "disabled"
        BY <1>0, <2>1 DEF Rows, Sides, Uploads
      <3> QED BY <3>1, <3>2 DEF Verified
    <2>4. /\ req' = [req EXCEPT ![q] = r] /\ UNCHANGED <<seen, overtaken>>
          /\ row' = row \/ (Live(c) /\ row' = [row EXCEPT ![c] = n])
      BY <1>11 DEF NamePhoto, Updated, History
    <2> HIDE DEF r, n
    <2>5. \A o \in Requests : req'[o].kind = "deposit" => req'[o] = req[o]
      BY <2>2, <2>4 DEF TypeOK
    <2> QED BY <1>1, <1>4, <2>1, <2>3, <2>4, <2>5
  <1>12. ASSUME NEW q \in Requests, NamePhotoFails(q) PROVE SeenInv'
    BY <1>1, <1>3, <1>12 DEF NamePhotoFails, End, History
  <1>13. ASSUME NEW q \in Requests, RemovePrevious(q) PROVE SeenInv'
    BY <1>1, <1>3, <1>13 DEF RemovePrevious, End, History
  <1>14. ASSUME NEW c \in Customers, NEW n \in People, SaveVerificationProfile(c, n)
         PROVE  SeenInv'
    <2> DEFINE r == [row[c] EXCEPT !.person = n, !.verified = "disabled"]
    <2>1. row' = [row EXCEPT ![c] = r] /\ req' = req /\ UNCHANGED <<seen, overtaken>>
      BY <1>14 DEF SaveVerificationProfile, Once, History
    <2>2. r \in Rows
      BY <1>14, RowKinds, RowChanges DEF SaveVerificationProfile, Verdicts
    <2>3. ~Verified(r)
      BY <1>0, <1>14 DEF SaveVerificationProfile, Verified, Rows
    <2> HIDE DEF r
    <2> QED BY <1>4, <2>1, <2>2, <2>3
  <1>15. ASSUME NEW q \in Requests, NEW c \in Customers, NEW n \in People, BeginIdentity(q, c, n)
         PROVE  SeenInv'
    <2>1. /\ req' = [req EXCEPT ![q] = [kind |-> "identity", who |-> c, person |-> n]]
          /\ UNCHANGED <<row, seen, overtaken>>
      BY <1>15 DEF BeginIdentity, Begin, History
    <2>2. [kind |-> "identity", who |-> c, person |-> n] \in ReqRecords
      BY NewRequests
    <2> QED BY <1>1, <1>2, <2>1, <2>2
  <1>16. ASSUME NEW q \in Requests, SaveVerificationIdentity(q) PROVE SeenInv'
    <2> DEFINE c == req[q].who
               r == [row[c] EXCEPT !.person = req[q].person, !.verified = "pending"]
    <2>1. c \in Customers /\ req[q].person \in People
      BY <1>16, RequestKinds DEF SaveVerificationIdentity
    <2>2. Live(c) => r \in Rows
      BY <2>1, RowKinds, RowChanges DEF Verdicts
    <2>3. Live(c) => ~Verified(r)
      BY <1>0, <2>1 DEF Verified, Rows
    <2>4. /\ req' = [req EXCEPT ![q] = Idle] /\ UNCHANGED <<seen, overtaken>>
          /\ row' = row \/ (Live(c) /\ row' = [row EXCEPT ![c] = r])
      BY <1>16 DEF SaveVerificationIdentity, Updated, End, History
    <2> HIDE DEF r, c
    <2> QED BY <1>1, <1>3, <1>4, <2>1, <2>2, <2>3, <2>4
  <1>17. ASSUME NEW q \in Requests, NEW c \in Customers, StartFaceVerification(q, c)
         PROVE  SeenInv'
    <2> DEFINE r == [kind |-> "face", who |-> c, look |-> Material(row[c])]
    <2>1. req' = [req EXCEPT ![q] = r] /\ UNCHANGED <<row, seen, overtaken>>
      BY <1>17 DEF StartFaceVerification, Begin, History
    <2>2. r.kind = "face"
      OBVIOUS
    <2> HIDE DEF r
    <2>3. \A o \in Requests : req'[o].kind = "deposit" => req'[o] = req[o]
      BY <2>1, <2>2 DEF TypeOK
    <2> QED BY <1>1, <2>1, <2>3
  <1>18. ASSUME NEW q \in Requests, NEW passed \in BOOLEAN, FaceVerified(q, passed)
         PROVE  SeenInv'
    <2> DEFINE v == IF passed THEN "verified" ELSE "pending"
    <2>1. req[q].who \in Customers /\ req[q].look \in Materials /\ v \in Verdicts
      BY <1>18, RequestKinds DEF FaceVerified, Verdicts
    <2>2. req' = [req EXCEPT ![q] = Idle] /\ Judge(req[q].who, req[q].look, v)
      BY <1>18 DEF FaceVerified, End
    <2> HIDE DEF v
    <2>3. \A o \in Requests : req'[o].kind = "deposit" => req'[o] = req[o]
      BY <1>3, <2>2
    <2> QED BY <2>1, <2>2, <2>3, JudgeSeen
  <1>19. ASSUME NEW q \in Requests, NEW c \in Customers, OpenForm(q, c) PROVE SeenInv'
    <2> DEFINE r == [kind |-> "form", who |-> c, copy |-> row[c]]
    <2>1. req' = [req EXCEPT ![q] = r] /\ UNCHANGED <<row, seen, overtaken>>
      BY <1>19 DEF OpenForm, Begin, History
    <2>2. r.kind = "form"
      OBVIOUS
    <2> HIDE DEF r
    <2>3. \A o \in Requests : req'[o].kind = "deposit" => req'[o] = req[o]
      BY <2>1, <2>2 DEF TypeOK
    <2> QED BY <1>1, <2>1, <2>3
  <1>20. ASSUME NEW q \in Requests, NEW v \in {"verified", "rejected"}, ReviewVerification(q, v)
         PROVE  SeenInv'
    <2>1. /\ req[q].who \in Customers /\ Material(req[q].copy) \in Materials /\ v \in Verdicts
      BY <1>20, RequestKinds, RowChanges DEF ReviewVerification, Verdicts
    <2>2. req' = [req EXCEPT ![q] = Idle] /\ Judge(req[q].who, Material(req[q].copy), v)
      BY <1>20 DEF ReviewVerification, End
    <2>3. \A o \in Requests : req'[o].kind = "deposit" => req'[o] = req[o]
      BY <1>3, <2>2
    <2> QED BY <2>1, <2>2, <2>3, JudgeSeen
  <1>21. ASSUME NEW q \in Requests, BeginUpdate(q) PROVE SeenInv'
    <2> DEFINE r == [req[q] EXCEPT !.kind = "save"]
    <2>1. /\ req' = [req EXCEPT ![q] = r] \/ req' = [req EXCEPT ![q] = Idle]
          /\ UNCHANGED <<row, seen, overtaken>>
      BY <1>21 DEF BeginUpdate, End, History
    <2>2. r.kind = "save"
      BY <1>21, RequestKinds DEF BeginUpdate
    <2> HIDE DEF r
    <2>3. \A o \in Requests : req'[o].kind = "deposit" => req'[o] = req[o]
      BY <1>3, <2>1, <2>2 DEF TypeOK
    <2> QED BY <1>1, <2>1, <2>3
  <1>22. ASSUME NEW q \in Requests, NEW n \in People \cup {Nobody}, NEW v \in Verdicts,
                Update(q, n, v)
         PROVE  SeenInv'
    <2> DEFINE c == req[q].who
               copy == req[q].copy
               new == [copy EXCEPT !.person = n, !.verified = v, !.front = Shown(copy.front),
                                   !.back = Shown(copy.back)]
    <2>1. c \in Customers /\ new.verified = v
      BY <1>22, RequestKinds DEF Update, Rows
    <2>2. /\ row' = [row EXCEPT ![c] = new]
          /\ seen' = [seen EXCEPT ![c] = IF v = "verified" THEN @ \cup {Material(new)} ELSE @]
          /\ req' = [req EXCEPT ![q] = Idle] /\ overtaken' = overtaken
      BY <1>22 DEF Update, End
    <2> HIDE DEF c, new
    <2>3. /\ row'[c] = new /\ \A d \in Customers \ {c} : row'[d] = row[d]
          /\ v = "verified" => Material(new) \in seen'[c]
          /\ \A d \in Customers : seen[d] \subseteq seen'[d]
      BY <2>1, <2>2 DEF TypeOK
    <2>4. \A o \in Requests : req'[o].kind = "deposit" => req'[o] = req[o]
      BY <1>3, <2>2
    <2> QED BY <2>1, <2>2, <2>3, <2>4, Unseen DEF Live, Verified
  <1>23. ASSUME NEW q \in Requests, NEW c \in Customers, BeginDeposit(q, c) PROVE SeenInv'
    <2> DEFINE l == c \in overtaken
               r == [kind |-> "deposit", who |-> c, copy |-> row[c], late |-> l]
    <2>1. Live(c) /\ req' = [req EXCEPT ![q] = r] /\ UNCHANGED <<row, seen, overtaken>>
      BY <1>23 DEF BeginDeposit, Begin, History
    <2>2. r.who = c /\ r.copy = row[c] /\ r.late = l
      OBVIOUS
    <2> HIDE DEF r
    <2>3. \A o \in Requests : req'[o] = IF o = q THEN r ELSE req[o]
      BY <2>1 DEF TypeOK
    <2>4. CopiesWereSeen'
      BY <2>1, <2>2, <2>3 DEF SeenInv, CopiesWereSeen, VerifiedWasSeen, Verified
    <2>5. VerifiedWasSeen'
      BY <2>1 DEF SeenInv, VerifiedWasSeen, Live
    <2> QED BY <2>4, <2>5 DEF SeenInv
  <1>24. ASSUME NEW q \in Requests, Deposit(q) PROVE SeenInv'
    <2> DEFINE c == req[q].who
    <2>1. c \in Customers /\ req[q].kind = "deposit"
      BY <1>24, RequestKinds DEF Deposit
    <2>2. /\ row' = [row EXCEPT ![c] = req[q].copy] /\ seen' = seen
          /\ overtaken' = IF req[q].late THEN overtaken \cup {c} ELSE overtaken \ {c}
          /\ req' = [req EXCEPT ![q] = Idle]
      BY <1>24 DEF Deposit, End
    <2> HIDE DEF c
    <2>3. row'[c] = req[q].copy /\ \A d \in Customers \ {c} : row'[d] = row[d]
      BY <2>1, <2>2 DEF TypeOK
    <2>4. \A o \in Requests : req'[o].kind = "deposit" => req'[o] = req[o]
      BY <1>3, <2>2
    <2>5. CopiesWereSeen'
      BY <2>2, <2>4 DEF SeenInv, CopiesWereSeen
    <2>6. c \notin overtaken' => ~req[q].late
      BY <2>1, <2>2
    <2>7. c \notin overtaken' /\ Verified(row'[c]) => Material(row'[c]) \in seen'[c]
      BY <2>1, <2>2, <2>3, <2>6 DEF SeenInv, CopiesWereSeen, c
    <2>8. VerifiedWasSeen'
      BY <2>2, <2>3, <2>7 DEF SeenInv, VerifiedWasSeen, Verified, Live
    <2> QED BY <2>5, <2>8 DEF SeenInv
  <1>25. ASSUME NEW q \in Requests, Stop(q) PROVE SeenInv'
    BY <1>1, <1>3, <1>25 DEF Stop, End
  <1>26. CASE UNCHANGED identityVars
    BY <1>1, <1>26 DEF identityVars
  <1> QED BY <1>5, <1>6, <1>7, <1>8, <1>9, <1>10, <1>11, <1>12, <1>13, <1>14, <1>15, <1>16, <1>17,
             <1>18, <1>19, <1>20, <1>21, <1>22, <1>23, <1>24, <1>25, <1>26
          DEF IdentityNext, Accounts, UploadMaterial, Verification, WholeRows

\* Whoever is verified was looked at as he is, by somebody who verified him: no
\* change of the material, no copy that comes back carries an older verdict on,
\* but for a verdict that was on its way while the material changed.
THEOREM VerdictsAreForWhatWasSeen == IdentitySpec => []VerifiedWasSeen
  <1>1. IdentityInit => SeenInv
    BY DEF IdentityInit, SeenInv, VerifiedWasSeen, CopiesWereSeen, Live, Unused, Idle
  <1>2. SeenInv => VerifiedWasSeen
    BY DEF SeenInv
  <1> QED BY IdentityTyped, SeenStep, <1>1, <1>2, PTL DEF IdentitySpec

-----------------------------------------------------------------------------
(***************************************************************************)
(* Photos.  A file is one customer's photo of one side for good: there is  *)
(* an assignment `own' of the files to customers and sides that whatever   *)
(* names a file respects, rows, uploads and the copies that wait in        *)
(* deposits.  So what an upload removes can only be missed by the row of   *)
(* its own customer, and there it depends on where the uploads are.        *)
(***************************************************************************)
Owners == [Files -> (Customers \X Sides) \cup {Nobody}]
Upload(q) == req[q].kind = "upload"
Fresh(q) == Upload(q) /\ req[q].at \in {"saved", "read"}

\* The photo p, if it is a file, is c's of the side.
Belongs(own, c, side, p) == p \in Files => files[p] # "unused" /\ own[p] = <<c, side>>

Owned(own) ==
  /\ \A c \in Customers, side \in Sides :
       row[c] # Unused => Belongs(own, c, side, row[c][side])
  /\ \A q \in Requests : Upload(q) =>
       /\ Belongs(own, req[q].who, req[q].side, req[q].file)
       /\ Belongs(own, req[q].who, req[q].side, req[q].previous)
  /\ \A q \in Requests, side \in Sides : req[q].kind = "deposit" =>
       Belongs(own, req[q].who, side, req[q].copy[side])

\* A new photo is on the disk and nothing else's until its row names it, and
\* what an upload is going to remove its row has left.
UploadSafe(q) ==
  /\ Fresh(q) =>
       /\ files[req[q].file] = "there"
       /\ row[req[q].who] # Unused => row[req[q].who][req[q].side] # req[q].file
       /\ \A o \in Requests : Upload(o) =>
            req[o].previous # req[q].file /\ (req[o].file = req[q].file => o = q)
  /\ req[q].at = "written" /\ Live(req[q].who) /\ req[q].previous \in Files =>
       req[q].previous # row[req[q].who][req[q].side]

UploadsSafe == \A q \in Requests : Upload(q) /\ req[q].who \notin restored => UploadSafe(q)

\* What a file that is there is there for.
Named(f) == \E c \in Customers, side \in Sides : row[c] # Unused /\ row[c][side] = f
Saved(f) == \E q \in Requests : Fresh(q) /\ req[q].file = f
Replaced(f) == \E q \in Requests : Upload(q) /\ req[q].at = "written" /\ req[q].previous = f

Undisturbed ==
  /\ restored = {}
  /\ \A q, o \in Requests :
       Upload(q) /\ Upload(o) /\ req[q].who = req[o].who /\ req[q].side = req[o].side => q = o
  /\ \A q \in Requests : Upload(q) /\ req[q].at # "saved" => Live(req[q].who)
  /\ \A q \in Requests : Upload(q) /\ req[q].at = "read" =>
       req[q].previous = row[req[q].who][req[q].side]
  /\ \A f \in Files : files[f] = "there" <=> Named(f) \/ Saved(f) \/ Replaced(f)

DiskInv(own) == Owned(own) /\ PhotosOnDisk /\ UploadsSafe /\ (~disturbed => Undisturbed)

\* A step that leaves the disk and the uploads alone and names no new photo.
LEMMA Kept ==
  ASSUME TypeOK, TypeOK', NEW own \in Owners, DiskInv(own),
         files' = files,
         \A q \in Requests :
           \/ req'[q] = req[q]
           \/ req[q].kind # "upload" /\ req'[q].kind \notin {"upload", "deposit"}
           \/ /\ req[q].kind # "upload" /\ req'[q].kind = "deposit"
              /\ row[req'[q].who] # Unused /\ req'[q].copy = row[req'[q].who]
           \/ req'[q].kind = "idle" /\ disturbed',
         \A c \in Customers, side \in Sides :
           row'[c] # Unused => Belongs(own, c, side, row'[c][side]),
         restored \subseteq restored',
         \A c \in Customers \ restored', side \in Sides :
           \/ row'[c] = row[c]
           \/ row'[c] # Unused /\ row'[c][side] \notin Files
           \/ row[c] # Unused /\ row'[c][side] = row[c][side] /\ (Live(c)' => Live(c)),
         disturbed => disturbed',
         ~disturbed' => restored' = restored /\ \A c \in Customers :
           \/ row'[c] = row[c]
           \/ row[c] = Unused /\ row'[c] # Unused /\ \A side \in Sides : row'[c][side] \notin Files
           \/ /\ row[c] # Unused /\ row'[c] # Unused
              /\ \A side \in Sides : row'[c][side] = row[c][side]
              /\ Live(c)' \/ \A q \in Requests : Upload(q) => req[q].who # c
  PROVE  DiskInv(own)'
  <1> USE DEF DiskInv
  <1>0. /\ \A q \in Requests : Upload(q)' => Upload(q) /\ req'[q] = req[q]
        /\ \A q \in Requests : Upload(q) => req[q] \in Uploads
        /\ \A q \in Requests : Upload(q) /\ ~disturbed' => req'[q] = req[q]
    BY RequestKinds DEF Upload
  <1>1. Owned(own)'
    <2>1. \A c \in Customers, side \in Sides :
            row'[c] # Unused => Belongs(own, c, side, row[c][side])'
      BY DEF Belongs
    <2>2. \A q \in Requests : Upload(q)' =>
            /\ Belongs(own, req[q].who, req[q].side, req[q].file)'
            /\ Belongs(own, req[q].who, req[q].side, req[q].previous)'
      BY <1>0 DEF Owned, Belongs
    <2>3. \A q \in Requests, side \in Sides : req'[q].kind = "deposit" =>
            Belongs(own, req[q].who, side, req[q].copy[side])'
      <3>1. ASSUME NEW q \in Requests, NEW side \in Sides, req'[q].kind = "deposit",
                   req'[q] # req[q]
            PROVE  Belongs(own, req[q].who, side, req[q].copy[side])'
        <4>1. row[req'[q].who] # Unused /\ req'[q].copy = row[req'[q].who]
          BY <3>1
        <4>2. req'[q].who \in Customers
          BY <3>1 DEF TypeOK, ReqRecords, Uploads, Idle
        <4> QED BY <4>1, <4>2 DEF Owned, Belongs
      <3>2. ASSUME NEW q \in Requests, NEW side \in Sides, req'[q].kind = "deposit",
                   req'[q] = req[q]
            PROVE  Belongs(own, req[q].who, side, req[q].copy[side])'
        <4>1. Belongs(own, req[q].who, side, req[q].copy[side])
          BY <3>2 DEF Owned
        <4> QED BY <3>2, <4>1 DEF Belongs
      <3> QED BY <3>1, <3>2
    <2> QED BY <2>1, <2>2, <2>3 DEF Owned
  <1>2. PhotosOnDisk'
    BY DEF PhotosOnDisk, Live, Unused
  <1>3. ASSUME NEW q \in Requests, Upload(q)', req'[q].who \notin restored'
        PROVE  UploadSafe(q)'
    <2>1. Upload(q) /\ req'[q] = req[q] /\ req[q].who \notin restored /\ UploadSafe(q)
      BY <1>0, <1>3 DEF UploadsSafe
    <2>2. req[q].who \in Customers /\ req[q].side \in Sides /\ req[q].file \in Files
      BY <1>0, <2>1 DEF Uploads
    <2> DEFINE c == req[q].who
               side == req[q].side
    <2>3. \/ row'[c] = row[c]
          \/ row'[c] # Unused /\ row'[c][side] \notin Files
          \/ row[c] # Unused /\ row'[c][side] = row[c][side] /\ (Live(c)' => Live(c))
      BY <1>3, <2>1, <2>2
    <2>4. Fresh(q)' => Fresh(q)
      BY <2>1 DEF Fresh, Upload
    <2>5. \A o \in Requests : Upload(o)' => Upload(o) /\ req'[o] = req[o]
      BY <1>0
    <2> HIDE DEF DiskInv
    <2>6. Fresh(q)' =>
            /\ files'[req'[q].file] = "there"
            /\ row'[req'[q].who] # Unused => row'[req'[q].who][req'[q].side] # req'[q].file
            /\ \A o \in Requests : Upload(o)' =>
                 req'[o].previous # req'[q].file /\ (req'[o].file = req'[q].file => o = q)
      BY <2>1, <2>2, <2>3, <2>4, <2>5 DEF UploadSafe
    <2>7. req'[q].at = "written" /\ Live(req[q].who)' /\ req'[q].previous \in Files =>
            req'[q].previous # row'[req'[q].who][req'[q].side]
      BY <2>1, <2>2, <2>3 DEF UploadSafe, Live
    <2> QED BY <2>6, <2>7 DEF UploadSafe, Live
  <1>4. ASSUME ~disturbed' PROVE Undisturbed'
    <2>1. ~disturbed /\ Undisturbed
      BY <1>4
    <2>2. restored' = {}
      BY <1>4, <2>1 DEF Undisturbed
    <2>3. \A q \in Requests : /\ Upload(q)' <=> Upload(q)
                              /\ Upload(q) => req'[q] = req[q]
      BY <1>0, <1>4 DEF Upload
    <2>4. \A q \in Requests : Upload(q) =>
            req[q].who \in Customers /\ req[q].side \in Sides
      BY <1>0 DEF Uploads
    <2>5. \A c \in Customers :
           \/ row'[c] = row[c]
           \/ row[c] = Unused /\ row'[c] # Unused /\ \A side \in Sides : row'[c][side] \notin Files
           \/ /\ row[c] # Unused /\ row'[c] # Unused
              /\ \A side \in Sides : row'[c][side] = row[c][side]
              /\ Live(c)' \/ \A q \in Requests : Upload(q) => req[q].who # c
      BY <1>4
    <2> HIDE DEF DiskInv
    <2>6. \A f \in Files : Named(f)' <=> Named(f)
      BY <2>5 DEF Named
    <2>7. \A f \in Files : (Saved(f)' <=> Saved(f)) /\ (Replaced(f)' <=> Replaced(f))
      BY <2>3 DEF Saved, Replaced, Fresh
    <2>8. \A q, o \in Requests : Upload(q)' /\ Upload(o)' /\ req'[q].who = req'[o].who
            /\ req'[q].side = req'[o].side => q = o
      BY <2>1, <2>3 DEF Undisturbed
    <2>9. \A q \in Requests : Upload(q)' /\ req'[q].at # "saved" => Live(req[q].who)'
      <3>1. ASSUME NEW q \in Requests, Upload(q), req[q].at # "saved"
            PROVE  Live(req[q].who)'
        <4>1. Live(req[q].who) /\ row[req[q].who] # Unused
          BY <2>1, <3>1 DEF Undisturbed, Live, Unused
        <4> QED BY <2>3, <2>4, <2>5, <3>1, <4>1 DEF Live
      <3> QED BY <2>3, <3>1
    <2>10. \A q \in Requests : Upload(q)' /\ req'[q].at = "read" =>
             req'[q].previous = row'[req'[q].who][req'[q].side]
      <3>1. ASSUME NEW q \in Requests, Upload(q), req[q].at = "read"
            PROVE  req[q].previous = row'[req[q].who][req[q].side]
        <4>1. Live(req[q].who) /\ req[q].previous = row[req[q].who][req[q].side]
          BY <2>1, <3>1 DEF Undisturbed
        <4>2. row[req[q].who] # Unused
          BY <4>1 DEF Live, Unused
        <4> QED BY <2>4, <2>5, <3>1, <4>1, <4>2
      <3> QED BY <2>3, <3>1
    <2> QED BY <2>1, <2>2, <2>6, <2>7, <2>8, <2>9, <2>10 DEF Undisturbed
  <1> QED BY <1>1, <1>2, <1>3, <1>4 DEF UploadsSafe

\* An upload is over and removes a photo x: its own if the row does not name it
\* yet, the one before if it does.
LEMMA Removed ==
  ASSUME TypeOK, TypeOK', NEW own \in Owners, DiskInv(own), NEW q \in Requests, Upload(q), NEW x,
         \/ Fresh(q) /\ x = req[q].file
         \/ req[q].at = "written" /\ x = req[q].previous,
         req' = [req EXCEPT ![q] = Idle],
         files' = IF x \in Files THEN [files EXCEPT ![x] = "removed"] ELSE files,
         UNCHANGED <<row, restored, disturbed>>
  PROVE  DiskInv(own)'
  <1> DEFINE d == req[q].who
             e == req[q].side
  <1>1. /\ \A o \in Requests : Upload(o) => req[o] \in Uploads
        /\ d \in Customers /\ e \in Sides
    BY RequestKinds DEF Upload, Uploads
  <1>2. /\ req'[q] = Idle /\ \A o \in Requests \ {q} : req'[o] = req[o]
        /\ \A f \in Files : files'[f] = IF f = x THEN "removed" ELSE files[f]
    BY DEF TypeOK
  <1>3. /\ \A o \in Requests : Upload(o)' <=> o # q /\ Upload(o)
        /\ \A o \in Requests : Fresh(o)' <=> o # q /\ Fresh(o)
        /\ \A o \in Requests : req'[o].kind = "deposit" => o # q
    BY <1>2 DEF Upload, Fresh, Idle
  <1>4. Belongs(own, d, e, x)
    BY DEF DiskInv, Owned, Fresh
  <1>5. \A c \in Customers, side \in Sides : row[c] # Unused /\ row[c][side] = x /\ x \in Files =>
          c = d /\ side = e
    BY <1>1, <1>4 DEF DiskInv, Owned, Belongs
  <1>6. d \notin restored /\ Live(d) /\ x \in Files => row[d][e] # x
    <2>1. Live(d) => row[d] # Unused
      BY DEF Live, Unused
    <2> QED BY <2>1 DEF DiskInv, UploadsSafe, UploadSafe, Fresh
  <1>7. ASSUME NEW o \in Requests \ {q}, Fresh(o), req[o].who \notin restored
        PROVE  req[o].file # x
    <2>1. Upload(o) /\ UploadSafe(o)
      BY <1>7 DEF DiskInv, UploadsSafe, Fresh
    <2>2. req[q].previous # req[o].file /\ req[q].file # req[o].file
      BY <1>7, <2>1 DEF UploadSafe
    <2> QED BY <2>2
  <1>8. Owned(own)'
    <2>1. \A f \in Files : files[f] # "unused" => files'[f] # "unused"
      BY <1>2
    <2>2. \A c \in Customers, side \in Sides :
            row'[c] # Unused => Belongs(own, c, side, row[c][side])'
      BY <2>1 DEF DiskInv, Owned, Belongs
    <2>3. ASSUME NEW o \in Requests, Upload(o)'
          PROVE  /\ Belongs(own, req[o].who, req[o].side, req[o].file)'
                 /\ Belongs(own, req[o].who, req[o].side, req[o].previous)'
      <3>1. req'[o] = req[o] /\ Upload(o)
        BY <1>2, <1>3, <2>3
      <3> QED BY <2>1, <3>1 DEF DiskInv, Owned, Belongs
    <2>4. ASSUME NEW o \in Requests, NEW side \in Sides, req'[o].kind = "deposit"
          PROVE  Belongs(own, req[o].who, side, req[o].copy[side])'
      <3>1. req'[o] = req[o]
        BY <1>2, <1>3, <2>4
      <3>2. Belongs(own, req[o].who, side, req[o].copy[side])
        BY <2>4, <3>1 DEF DiskInv, Owned
      <3> QED BY <2>1, <3>1, <3>2 DEF Belongs
    <2> QED BY <2>2, <2>3, <2>4 DEF Owned
  <1>9. PhotosOnDisk'
    <2>1. ASSUME NEW c \in Customers \ restored, NEW side \in Sides, Live(c), row[c][side] \in Files
          PROVE  files'[row[c][side]] = "there"
      <3>1. row[c][side] # x
        BY <1>5, <1>6, <2>1 DEF Live, Unused
      <3> QED BY <1>2, <2>1, <3>1 DEF DiskInv, PhotosOnDisk
    <2> QED BY <2>1 DEF PhotosOnDisk, Live
  <1>10. UploadsSafe'
    <2>1. ASSUME NEW o \in Requests \ {q}, Upload(o), req[o].who \notin restored
          PROVE  UploadSafe(o)'
      <3>1. UploadSafe(o) /\ req[o].file \in Files
        BY <1>1, <2>1 DEF DiskInv, UploadsSafe, Uploads
      <3> QED BY <1>2, <1>3, <1>7, <2>1, <3>1 DEF UploadSafe, Live
    <2> QED BY <1>2, <1>3, <2>1 DEF UploadsSafe
  <1>11. ASSUME ~disturbed' PROVE Undisturbed'
    <2>1. Undisturbed /\ restored = {}
      BY <1>11 DEF DiskInv, Undisturbed
    <2>2. Live(d) \/ Fresh(q)
      BY <1>1, <2>1 DEF Undisturbed, Fresh, Uploads
    <2>3. x \in Files => ~Named(x)
      <3>1. x \in Files /\ row[d] # Unused => row[d][e] # x
        <4>1. CASE Live(d)
          BY <1>6, <2>1, <4>1
        <4>2. CASE Fresh(q)
          BY <2>1, <4>2 DEF DiskInv, UploadsSafe, UploadSafe, Fresh
        <4> QED BY <2>2, <4>1, <4>2
      <3> QED BY <1>5, <3>1 DEF Named
    <2>4. ~Saved(x)'
      BY <1>2, <1>3, <1>7, <2>1 DEF Saved
    <2>5. x \in Files => ~Replaced(x)'
      <3>1. ASSUME NEW o \in Requests \ {q}, Upload(o), req[o].at = "written",
                   req[o].previous = x, x \in Files
            PROVE  FALSE
        <4>1. CASE Fresh(q)
          BY <2>1, <3>1, <4>1 DEF DiskInv, UploadsSafe, UploadSafe, Fresh
        <4>2. CASE ~Fresh(q)
          <5>1. Belongs(own, req[o].who, req[o].side, x)
            BY <3>1 DEF DiskInv, Owned
          <5>2. req[o].who = d /\ req[o].side = e
            BY <1>4, <3>1, <5>1 DEF Belongs
          <5> QED BY <2>1, <3>1, <5>2 DEF Undisturbed
        <4> QED BY <4>1, <4>2
      <3> QED BY <1>2, <1>3, <3>1 DEF Replaced
    <2>6. \A f \in Files \ {x} : /\ Named(f)' <=> Named(f)
                                 /\ Saved(f)' <=> Saved(f)
                                 /\ Replaced(f)' <=> Replaced(f)
      <3>1. \A f \in Files \ {x} : Named(f)' <=> Named(f)
        BY DEF Named
      <3>2. \A f \in Files \ {x} : Fresh(q) => req[q].file # f
        BY DEF Fresh
      <3>3. \A f \in Files \ {x} : Saved(f)' <=> Saved(f)
        BY <1>2, <1>3, <3>2 DEF Saved
      <3>4. \A f \in Files \ {x} : req[q].at = "written" => req[q].previous # f
        BY DEF Fresh
      <3>5. \A f \in Files \ {x} : Replaced(f)' <=> Replaced(f)
        BY <1>2, <1>3, <3>4 DEF Replaced
      <3> QED BY <3>1, <3>3, <3>5
    <2>7. Named(x)' <=> Named(x)
      BY DEF Named
    <2>8. \A f \in Files : files'[f] = "there" <=> Named(f)' \/ Saved(f)' \/ Replaced(f)'
      <3>1. ASSUME NEW f \in Files, f # x
            PROVE  files'[f] = "there" <=> Named(f)' \/ Saved(f)' \/ Replaced(f)'
        <4>1. files'[f] = "there" <=> files[f] = "there"
          BY <1>2, <3>1
        <4>2. files[f] = "there" <=> Named(f) \/ Saved(f) \/ Replaced(f)
          BY <2>1 DEF Undisturbed
        <4> QED BY <2>6, <3>1, <4>1, <4>2
      <3>2. x \in Files => files'[x] = "removed" /\ ~Named(x)' /\ ~Saved(x)' /\ ~Replaced(x)'
        BY <1>2, <2>3, <2>4, <2>5, <2>7
      <3> QED BY <3>1, <3>2
    <2>9. \A o, p \in Requests : Upload(o)' /\ Upload(p)' /\ req'[o].who = req'[p].who
            /\ req'[o].side = req'[p].side => o = p
      BY <1>2, <1>3, <2>1 DEF Undisturbed
    <2>10. \A o \in Requests : Upload(o)' /\ req'[o].at # "saved" => Live(req[o].who)'
      BY <1>2, <1>3, <2>1 DEF Undisturbed, Live
    <2>11. \A o \in Requests : Upload(o)' /\ req'[o].at = "read" =>
             req'[o].previous = row'[req'[o].who][req'[o].side]
      BY <1>2, <1>3, <2>1 DEF Undisturbed
    <2> QED BY <2>1, <2>8, <2>9, <2>10, <2>11 DEF Undisturbed
  <1> QED BY <1>8, <1>9, <1>10, <1>11 DEF DiskInv

\* A new photo is nobody's, and becomes the one of the customer who sends it.
LEMMA SaveKeeps ==
  ASSUME TypeOK, TypeOK', NEW own \in Owners, DiskInv(own), NEW q \in Requests,
         NEW d \in Customers, NEW e \in Sides, NEW x \in Files, SavePhoto(q, d, e, x)
  PROVE  \E o \in Owners : DiskInv(o)'
  <1> DEFINE u == [kind |-> "upload", at |-> "saved", who |-> d, side |-> e, file |-> x,
                   previous |-> NoPhoto]
             new == [own EXCEPT ![x] = <<d, e>>]
  <1>1. /\ \A o \in Requests : Upload(o) => req[o] \in Uploads
        /\ NoPhoto \notin Files
    BY RequestKinds, IdentityAssumption DEF Upload
  <1>2. /\ req[q] = Idle /\ req'[q] = u /\ \A o \in Requests \ {q} : req'[o] = req[o]
        /\ files[x] = "unused"
        /\ \A f \in Files : files'[f] = IF f = x THEN "there" ELSE files[f]
        /\ UNCHANGED <<row, restored>>
        /\ disturbed' = (disturbed \/ Uploading(d, e) # {})
    BY DEF SavePhoto, Begin, TypeOK
  <1>3. /\ \A o \in Requests : Upload(o)' <=> o = q \/ Upload(o)
        /\ \A o \in Requests : Fresh(o)' <=> o = q \/ Fresh(o)
        /\ ~Upload(q)
        /\ \A o \in Requests : req'[o].kind = "deposit" => o # q /\ req'[o] = req[o]
    BY <1>2 DEF Upload, Fresh, Idle
  <1>4. u.file = x /\ u.who = d /\ u.side = e /\ u.previous = NoPhoto /\ u.at = "saved"
    OBVIOUS
  <1> HIDE DEF u
  <1>5. new \in Owners /\ new[x] = <<d, e>> /\ \A f \in Files \ {x} : new[f] = own[f]
    BY DEF Owners
  <1> HIDE DEF new
  <1>6. /\ \A c \in Customers, side \in Sides : row[c] # Unused => row[c][side] # x
        /\ \A o \in Requests : Upload(o) => req[o].file # x /\ req[o].previous # x
    BY <1>2 DEF DiskInv, Owned, Belongs
  <1>7. Owned(new)'
    <2>1. \A c \in Customers, side \in Sides :
            row'[c] # Unused => Belongs(new, c, side, row[c][side])'
      BY <1>2, <1>5, <1>6 DEF DiskInv, Owned, Belongs
    <2>2. ASSUME NEW o \in Requests, Upload(o)'
          PROVE  /\ Belongs(new, req[o].who, req[o].side, req[o].file)'
                 /\ Belongs(new, req[o].who, req[o].side, req[o].previous)'
      <3>1. CASE o = q
        BY <1>1, <1>2, <1>4, <1>5, <3>1 DEF Belongs
      <3>2. CASE o # q
        <4>1. Upload(o) /\ req'[o] = req[o]
          BY <1>2, <1>3, <2>2, <3>2
        <4> QED BY <1>2, <1>5, <1>6, <4>1 DEF DiskInv, Owned, Belongs
      <3> QED BY <3>1, <3>2
    <2>3. ASSUME NEW o \in Requests, NEW side \in Sides, req'[o].kind = "deposit"
          PROVE  Belongs(new, req[o].who, side, req[o].copy[side])'
      <3>1. req'[o] = req[o]
        BY <1>3, <2>3
      <3>2. Belongs(own, req[o].who, side, req[o].copy[side])
        BY <2>3, <3>1 DEF DiskInv, Owned
      <3> QED BY <1>2, <1>5, <3>1, <3>2 DEF Belongs
    <2> QED BY <2>1, <2>2, <2>3 DEF Owned
  <1>8. PhotosOnDisk'
    BY <1>2 DEF DiskInv, PhotosOnDisk, Live
  <1>9. UploadsSafe'
    <2>1. ASSUME NEW o \in Requests \ {q}, Upload(o), req[o].who \notin restored
          PROVE  UploadSafe(o)'
      <3>1. UploadSafe(o) /\ req[o].file \in Files
        BY <1>1, <2>1 DEF DiskInv, UploadsSafe, Uploads
      <3>2. req[o].file # x
        BY <1>6, <2>1
      <3>3. \A p \in Requests : Upload(p)' => p = q \/ (Upload(p) /\ req'[p] = req[p])
        BY <1>2, <1>3
      <3>4. Fresh(o)' =>
              /\ files'[req'[o].file] = "there"
              /\ row'[req'[o].who] # Unused => row'[req'[o].who][req'[o].side] # req'[o].file
              /\ \A p \in Requests : Upload(p)' =>
                   req'[p].previous # req'[o].file /\ (req'[p].file = req'[o].file => p = o)
        BY <1>1, <1>2, <1>3, <1>4, <2>1, <3>1, <3>2, <3>3 DEF UploadSafe
      <3>5. req'[o].at = "written" /\ Live(req[o].who)' /\ req'[o].previous \in Files =>
              req'[o].previous # row'[req'[o].who][req'[o].side]
        BY <1>2, <2>1, <3>1 DEF UploadSafe, Live
      <3> QED BY <3>4, <3>5 DEF UploadSafe, Live
    <2>2. UploadSafe(q)'
      BY <1>1, <1>2, <1>3, <1>4, <1>6 DEF UploadSafe
    <2> QED BY <1>2, <1>3, <2>1, <2>2 DEF UploadsSafe
  <1>10. ASSUME ~disturbed' PROVE Undisturbed'
    <2>1. Undisturbed /\ restored' = {}
      BY <1>2, <1>10 DEF DiskInv, Undisturbed
    <2>2. \A o \in Requests : Upload(o) => ~(req[o].who = d /\ req[o].side = e)
      BY <1>2, <1>10 DEF Uploading, Upload
    <2>3. /\ \A o, p \in Requests : Upload(o)' /\ Upload(p)' /\ req'[o].who = req'[p].who
               /\ req'[o].side = req'[p].side => o = p
      BY <1>2, <1>3, <1>4, <2>1, <2>2 DEF Undisturbed
    <2>4. /\ \A o \in Requests : Upload(o)' /\ req'[o].at # "saved" => Live(req[o].who)'
          /\ \A o \in Requests : Upload(o)' /\ req'[o].at = "read" =>
               req'[o].previous = row'[req'[o].who][req'[o].side]
      BY <1>2, <1>3, <1>4, <2>1 DEF Undisturbed, Live
    <2>5. \A f \in Files : Named(f)' <=> Named(f)
      BY <1>2 DEF Named
    <2>6. \A f \in Files : Saved(f)' <=> Saved(f) \/ f = x
      <3>1. Fresh(q)' /\ req'[q].file = x /\ ~Fresh(q)
        BY <1>2, <1>3, <1>4 DEF Fresh
      <3>2. \A o \in Requests \ {q} : (Fresh(o)' <=> Fresh(o)) /\ req'[o].file = req[o].file
        BY <1>2, <1>3
      <3> QED BY <3>1, <3>2 DEF Saved
    <2>7. \A f \in Files : Replaced(f)' <=> Replaced(f)
      BY <1>2, <1>3, <1>4 DEF Replaced
    <2>8. \A f \in Files : files'[f] = "there" <=> Named(f)' \/ Saved(f)' \/ Replaced(f)'
      BY <1>2, <2>1, <2>5, <2>6, <2>7 DEF Undisturbed
    <2> QED BY <2>1, <2>3, <2>4, <2>8 DEF Undisturbed
  <1>11. DiskInv(new)'
    BY <1>7, <1>8, <1>9, <1>10 DEF DiskInv
  <1> QED BY <1>5, <1>11

\* The name of the photo to be replaced is read.
LEMMA FindKeeps ==
  ASSUME TypeOK, TypeOK', NEW own \in Owners, DiskInv(own), NEW q \in Requests, FindPrevious(q)
  PROVE  DiskInv(own)'
  <1> DEFINE d == req[q].who
             e == req[q].side
             u == [req[q] EXCEPT !.at = "read", !.previous = row[d][e]]
  <1>1. /\ \A o \in Requests : Upload(o) => req[o] \in Uploads
        /\ Upload(q) /\ Fresh(q) /\ d \in Customers /\ e \in Sides /\ req[q].file \in Files
    BY RequestKinds DEF Upload, Uploads, Fresh, FindPrevious
  <1>2. CASE ~Live(d)
    <2>1. /\ req' = [req EXCEPT ![q] = Idle] /\ UNCHANGED <<row, restored, disturbed>>
          /\ files' = [files EXCEPT ![req[q].file] = "removed"]
      BY <1>1, <1>2 DEF FindPrevious, Remove, End, History
    <2> QED BY <1>1, <2>1, Removed
  <1>3. CASE Live(d)
    <2>1. /\ req'[q] = u /\ \A o \in Requests \ {q} : req'[o] = req[o]
          /\ UNCHANGED <<row, files, restored, disturbed>>
      BY <1>3 DEF FindPrevious, History, TypeOK
    <2>2. /\ u.kind = "upload" /\ u.at = "read" /\ u.who = d /\ u.side = e
          /\ u.file = req[q].file /\ u.previous = row[d][e]
          /\ req[q].at = "saved" /\ row[d] # Unused
      BY <1>1, <1>3 DEF Uploads, FindPrevious, Live, Unused
    <2> HIDE DEF u
    <2>3. /\ \A o \in Requests : Upload(o)' <=> Upload(o)
          /\ \A o \in Requests : Fresh(o)' <=> Fresh(o)
          /\ \A o \in Requests : Upload(o) => /\ req'[o].who = req[o].who
                                              /\ req'[o].side = req[o].side
                                              /\ req'[o].file = req[o].file
          /\ \A o \in Requests : req'[o].kind = "deposit" => req'[o] = req[o]
      <3>1. \A o \in Requests : Upload(o)' <=> Upload(o)
        BY <1>1, <2>1, <2>2 DEF Upload
      <3>2. \A o \in Requests : Fresh(o)' <=> Fresh(o)
        BY <1>1, <2>1, <2>2 DEF Upload, Fresh
      <3>3. \A o \in Requests : Upload(o) => /\ req'[o].who = req[o].who
                                              /\ req'[o].side = req[o].side
                                              /\ req'[o].file = req[o].file
        BY <2>1, <2>2
      <3>4. \A o \in Requests : req'[o].kind = "deposit" => req'[o] = req[o]
        BY <2>1, <2>2
      <3> QED BY <3>1, <3>2, <3>3, <3>4
    <2>4. Belongs(own, d, e, row[d][e])
      BY <1>1, <2>2 DEF DiskInv, Owned
    <2>5. Owned(own)'
      <3>1. \A c \in Customers, side \in Sides :
              row'[c] # Unused => Belongs(own, c, side, row[c][side])'
        BY <2>1 DEF DiskInv, Owned, Belongs
      <3>2. ASSUME NEW o \in Requests, Upload(o)'
            PROVE  /\ Belongs(own, req[o].who, req[o].side, req[o].file)'
                   /\ Belongs(own, req[o].who, req[o].side, req[o].previous)'
        <4>1. /\ Belongs(own, req[o].who, req[o].side, req[o].file)
              /\ Belongs(own, req[o].who, req[o].side, req[o].previous)
          BY <2>3, <3>2 DEF DiskInv, Owned
        <4>2. CASE o = q
          BY <2>1, <2>2, <2>4, <4>1, <4>2 DEF Belongs
        <4>3. CASE o # q
          BY <2>1, <4>1, <4>3 DEF Belongs
        <4> QED BY <4>2, <4>3
      <3>3. ASSUME NEW o \in Requests, NEW side \in Sides, req'[o].kind = "deposit"
            PROVE  Belongs(own, req[o].who, side, req[o].copy[side])'
        <4>1. req'[o] = req[o]
          BY <2>3, <3>3
        <4>2. Belongs(own, req[o].who, side, req[o].copy[side])
          BY <3>3, <4>1 DEF DiskInv, Owned
        <4> QED BY <2>1, <4>1, <4>2 DEF Belongs
      <3> QED BY <3>1, <3>2, <3>3 DEF Owned
    <2>6. PhotosOnDisk'
      BY <2>1 DEF DiskInv, PhotosOnDisk, Live
    <2>7. UploadsSafe'
      <3>1. ASSUME NEW o \in Requests, Upload(o), req[o].who \notin restored
            PROVE  UploadSafe(o)'
        <4>1. UploadSafe(o) /\ req[o].who \in Customers /\ req[o].side \in Sides
              /\ req[o].file \in Files
          BY <1>1, <3>1 DEF DiskInv, UploadsSafe, Uploads
        <4>2. Fresh(o) => row[d][e] # req[o].file
          <5>1. Belongs(own, req[o].who, req[o].side, req[o].file)
            BY <3>1 DEF DiskInv, Owned
          <5>2. row[d][e] = req[o].file => d = req[o].who /\ e = req[o].side
            BY <2>4, <4>1, <5>1 DEF Belongs
          <5> QED BY <2>2, <4>1, <5>2 DEF UploadSafe
        <4>3. Fresh(o)' =>
                /\ files'[req'[o].file] = "there"
                /\ row'[req'[o].who] # Unused => row'[req'[o].who][req'[o].side] # req'[o].file
                /\ \A p \in Requests : Upload(p)' =>
                     req'[p].previous # req'[o].file /\ (req'[p].file = req'[o].file => p = o)
          BY <2>1, <2>2, <2>3, <3>1, <4>1, <4>2 DEF UploadSafe
        <4>4. req'[o].at = "written" /\ Live(req[o].who)' /\ req'[o].previous \in Files =>
                req'[o].previous # row'[req'[o].who][req'[o].side]
          BY <2>1, <2>2, <3>1, <4>1 DEF UploadSafe, Live
        <4> QED BY <4>3, <4>4 DEF UploadSafe, Live
      <3> QED BY <2>1, <2>3, <3>1 DEF UploadsSafe
    <2>8. ASSUME ~disturbed' PROVE Undisturbed'
      <3>1. Undisturbed /\ restored' = {}
        BY <2>1, <2>8 DEF DiskInv, Undisturbed
      <3>2. \A o, p \in Requests : Upload(o)' /\ Upload(p)' /\ req'[o].who = req'[p].who
              /\ req'[o].side = req'[p].side => o = p
        BY <2>3, <3>1 DEF Undisturbed
      <3>3. /\ \A o \in Requests : Upload(o)' /\ req'[o].at # "saved" => Live(req[o].who)'
            /\ \A o \in Requests : Upload(o)' /\ req'[o].at = "read" =>
                 req'[o].previous = row'[req'[o].who][req'[o].side]
        BY <1>3, <2>1, <2>2, <2>3, <3>1 DEF Undisturbed, Live
      <3>4. \A f \in Files : Named(f)' <=> Named(f)
        BY <2>1 DEF Named
      <3>5. \A f \in Files : Saved(f)' <=> Saved(f)
        BY <2>3 DEF Saved, Fresh
      <3>6. \A f \in Files : Replaced(f)' <=> Replaced(f)
        BY <2>1, <2>2, <2>3 DEF Replaced
      <3>7. \A f \in Files : files'[f] = "there" <=> Named(f)' \/ Saved(f)' \/ Replaced(f)'
        BY <2>1, <3>1, <3>4, <3>5, <3>6 DEF Undisturbed
      <3> QED BY <3>1, <3>2, <3>3, <3>7 DEF Undisturbed
    <2> QED BY <2>5, <2>6, <2>7, <2>8 DEF DiskInv
  <1> QED BY <1>2, <1>3

\* The row names the new photo, and the one before waits to be removed.
LEMMA NameKeeps ==
  ASSUME TypeOK, TypeOK', NEW own \in Owners, DiskInv(own), NEW q \in Requests, NamePhoto(q)
  PROVE  DiskInv(own)'
  <1> DEFINE d == req[q].who
             e == req[q].side
             x == req[q].file
             u == [req[q] EXCEPT !.at = "written"]
             n == [[row[d] EXCEPT !.verified = "disabled"] EXCEPT ![e] = x]
  <1>1. /\ \A o \in Requests : Upload(o) => req[o] \in Uploads
        /\ Upload(q) /\ req[q].at = "read" /\ Fresh(q)
        /\ d \in Customers /\ e \in Sides /\ x \in Files
    BY RequestKinds DEF Upload, Uploads, Fresh, NamePhoto
  <1>2. /\ req'[q] = u /\ \A o \in Requests \ {q} : req'[o] = req[o]
        /\ UNCHANGED <<files, restored, disturbed>>
        /\ row' = IF Live(d) THEN [row EXCEPT ![d] = n] ELSE row
    BY DEF NamePhoto, History, Updated, TypeOK
  <1>3. /\ u.kind = "upload" /\ u.at = "written" /\ u.who = d /\ u.side = e
        /\ u.file = x /\ u.previous = req[q].previous
    BY <1>1 DEF Uploads
  <1>4. Live(d) => /\ n.state = "live" /\ n[e] = x
                   /\ \A side \in Sides \ {e} : n[side] = row[d][side]
    <2>1. Live(d) => row[d] \in Rows
      BY <1>1, RowKinds
    <2> QED BY <1>1, <2>1 DEF Live, Rows, Sides
  <1> HIDE DEF u, n
  <1>5. /\ \A c \in Customers \ {d} : row'[c] = row[c]
        /\ Live(d) => /\ row'[d].state = "live" /\ row[d] # Unused /\ row'[d] # Unused /\ row'[d][e] = x
                      /\ \A side \in Sides \ {e} : row'[d][side] = row[d][side]
        /\ ~Live(d) => row' = row
    BY <1>1, <1>2, <1>4 DEF Live, Unused, TypeOK
  <1>6. /\ \A o \in Requests : Upload(o)' <=> Upload(o)
        /\ \A o \in Requests : Fresh(o)' <=> o # q /\ Fresh(o)
        /\ \A o \in Requests : Upload(o) =>
             /\ req'[o].who = req[o].who /\ req'[o].side = req[o].side
             /\ req'[o].file = req[o].file /\ req'[o].previous = req[o].previous
        /\ \A o \in Requests : req'[o].kind = "deposit" => req'[o] = req[o]
    <2>1. \A o \in Requests : Upload(o)' <=> Upload(o)
      BY <1>1, <1>2, <1>3 DEF Upload
    <2>2. \A o \in Requests : Fresh(o)' <=> o # q /\ Fresh(o)
      BY <1>1, <1>2, <1>3 DEF Fresh, Upload
    <2>3. \A o \in Requests : Upload(o) =>
             /\ req'[o].who = req[o].who /\ req'[o].side = req[o].side
             /\ req'[o].file = req[o].file /\ req'[o].previous = req[o].previous
      BY <1>2, <1>3
    <2>4. \A o \in Requests : req'[o].kind = "deposit" => req'[o] = req[o]
      BY <1>2, <1>3
    <2> QED BY <2>1, <2>2, <2>3, <2>4
  <1>7. \A c \in Customers, side \in Sides : row'[c] # Unused =>
          \/ row[c] # Unused /\ row'[c][side] = row[c][side]
          \/ c = d /\ side = e /\ row'[c][side] = x
    BY <1>5
  <1>8. Belongs(own, d, e, x)
    BY <1>1 DEF DiskInv, Owned
  <1>9. Owned(own)'
    <2>1. \A c \in Customers, side \in Sides :
            row'[c] # Unused => Belongs(own, c, side, row[c][side])'
      BY <1>2, <1>7, <1>8 DEF DiskInv, Owned, Belongs
    <2>2. \A o \in Requests : Upload(o)' =>
            /\ Belongs(own, req[o].who, req[o].side, req[o].file)'
            /\ Belongs(own, req[o].who, req[o].side, req[o].previous)'
      BY <1>2, <1>6 DEF DiskInv, Owned, Belongs
    <2>3. ASSUME NEW o \in Requests, NEW side \in Sides, req'[o].kind = "deposit"
          PROVE  Belongs(own, req[o].who, side, req[o].copy[side])'
      <3>1. req'[o] = req[o]
        BY <1>6, <2>3
      <3>2. Belongs(own, req[o].who, side, req[o].copy[side])
        BY <2>3, <3>1 DEF DiskInv, Owned
      <3> QED BY <1>2, <3>1, <3>2 DEF Belongs
    <2> QED BY <2>1, <2>2, <2>3 DEF Owned
  <1>10. d \notin restored =>
           /\ files[x] = "there" /\ (row[d] # Unused => row[d][e] # x)
           /\ \A o \in Requests : Upload(o) =>
                req[o].previous # x /\ (req[o].file = x => o = q)
    BY <1>1 DEF DiskInv, UploadsSafe, UploadSafe
  <1>11. PhotosOnDisk'
    <2>1. ASSUME NEW c \in Customers \ restored, NEW side \in Sides, Live(c)',
                 row'[c][side] \in Files
          PROVE  files[row'[c][side]] = "there"
      <3>1. CASE c = d /\ side = e /\ Live(d)
        BY <1>5, <1>10, <2>1, <3>1
      <3>2. CASE ~(c = d /\ side = e /\ Live(d))
        <4>1. row'[c][side] = row[c][side] /\ Live(c)
          BY <1>5, <2>1, <3>2 DEF Live
        <4> QED BY <2>1, <4>1 DEF DiskInv, PhotosOnDisk
      <3> QED BY <3>1, <3>2
    <2> QED BY <1>2, <2>1 DEF PhotosOnDisk
  <1>12. UploadsSafe'
    <2>1. ASSUME NEW o \in Requests, Upload(o), req[o].who \notin restored
          PROVE  UploadSafe(o)'
      <3> DEFINE c == req[o].who
                 side == req[o].side
      <3>1. /\ UploadSafe(o) /\ c \in Customers /\ side \in Sides /\ req[o].file \in Files
            /\ req[o].at \in {"saved", "read", "written"}
        BY <1>1, <2>1 DEF DiskInv, UploadsSafe, Uploads
      <3>2. \/ Live(d) /\ c = d /\ side = e /\ row'[c][side] = x /\ row'[c] # Unused
            \/ /\ row[c] = Unused <=> row'[c] = Unused
               /\ row'[c][side] = row[c][side] /\ (row'[c].state = "live" <=> Live(c))
        BY <1>5, <3>1 DEF Live
      <3>3. o # q /\ Fresh(o) =>
              /\ files[req[o].file] = "there"
              /\ row'[c] # Unused => row'[c][side] # req[o].file
              /\ \A p \in Requests : Upload(p) =>
                   req[p].previous # req[o].file /\ (req[p].file = req[o].file => p = o)
        <4>1. CASE c = d /\ side = e /\ row'[c][side] = x
          BY <1>10, <2>1, <3>1, <4>1 DEF UploadSafe
        <4>2. CASE (row[c] = Unused <=> row'[c] = Unused) /\ row'[c][side] = row[c][side]
          BY <2>1, <3>1, <4>2 DEF UploadSafe
        <4> QED BY <3>2, <4>1, <4>2
      <3>4. (o = q \/ req[o].at = "written") /\ row'[c].state = "live" /\ req[o].previous \in Files =>
              req[o].previous # row'[c][side]
        <4>1. CASE Live(d) /\ c = d /\ side = e /\ row'[c][side] = x
          BY <1>10, <2>1, <4>1
        <4>2. CASE row'[c][side] = row[c][side] /\ (row'[c].state = "live" <=> Live(c)) /\ o # q
          BY <3>1, <4>2 DEF UploadSafe
        <4>3. CASE o = q /\ ~(Live(d) /\ c = d /\ side = e /\ row'[c][side] = x)
          <5>1. row'[d].state # "live"
            BY <1>5, <4>3 DEF Live
          <5> QED BY <4>3, <5>1
        <4> QED BY <3>2, <4>1, <4>2, <4>3
      <3>5. req'[o].at = "written" => o = q \/ req[o].at = "written"
        BY <1>2
      <3> HIDE DEF c, side
      <3>6. req'[o].who = c /\ req'[o].side = side /\ req'[o].file = req[o].file
            /\ req'[o].previous = req[o].previous
        BY <1>6, <2>1 DEF c, side
      <3>7. Fresh(o)' =>
              /\ files'[req'[o].file] = "there"
              /\ row'[req'[o].who] # Unused => row'[req'[o].who][req'[o].side] # req'[o].file
              /\ \A p \in Requests : Upload(p)' =>
                   req'[p].previous # req'[o].file /\ (req'[p].file = req'[o].file => p = o)
        BY <1>2, <1>6, <3>3, <3>6
      <3>8. req'[o].at = "written" /\ Live(req[o].who)' /\ req'[o].previous \in Files =>
              req'[o].previous # row'[req'[o].who][req'[o].side]
        <4>1. Live(req[o].who)' <=> row'[c].state = "live"
          BY <3>6 DEF Live
        <4> QED BY <3>4, <3>5, <3>6, <4>1
      <3> QED BY <3>7, <3>8 DEF UploadSafe, Live
    <2> QED BY <1>2, <1>6, <2>1 DEF UploadsSafe
  <1>13. ASSUME ~disturbed' PROVE Undisturbed'
    <2>1. Undisturbed /\ restored' = {} /\ restored = {}
      BY <1>2, <1>13 DEF DiskInv, Undisturbed
    <2>2. Live(d) /\ req[q].previous = row[d][e]
      BY <1>1, <2>1 DEF Undisturbed
    <2>3. \A o, p \in Requests : Upload(o)' /\ Upload(p)' /\ req'[o].who = req'[p].who
            /\ req'[o].side = req'[p].side => o = p
      BY <1>6, <2>1 DEF Undisturbed
    <2>4. \A o \in Requests : Upload(o)' /\ req'[o].at # "saved" => Live(req[o].who)'
      <3>1. ASSUME NEW o \in Requests, Upload(o), req'[o].at # "saved" PROVE Live(req[o].who)'
        <4>1. Live(req[o].who) /\ req'[o].who = req[o].who /\ req[o].who \in Customers
          <5>1. req'[o].who = req[o].who /\ req[o].who \in Customers
            BY <1>1, <1>6, <3>1 DEF Uploads
          <5>2. o = q \/ req[o].at # "saved"
            BY <1>2, <3>1
          <5> QED BY <2>1, <2>2, <3>1, <5>1, <5>2 DEF Undisturbed
        <4> QED BY <1>5, <4>1 DEF Live
      <3> QED BY <1>6, <3>1
    <2>5. \A o \in Requests : Upload(o)' /\ req'[o].at = "read" =>
             req'[o].previous = row'[req'[o].who][req'[o].side]
      <3>1. ASSUME NEW o \in Requests, Upload(o), req'[o].at = "read"
            PROVE  req[o].previous = row'[req[o].who][req[o].side]
        <4>1. o # q /\ req'[o] = req[o]
          BY <1>2, <1>3, <3>1
        <4>2. ~(req[o].who = d /\ req[o].side = e)
          BY <1>1, <2>1, <3>1, <4>1 DEF Undisturbed
        <4>3. req[o].who \in Customers /\ req[o].side \in Sides
          BY <1>1, <3>1 DEF Uploads
        <4> QED BY <1>5, <2>1, <2>2, <3>1, <4>1, <4>2, <4>3 DEF Undisturbed
      <3> QED BY <1>6, <3>1
    <2> DEFINE y == req[q].previous
    <2>6. \A f \in Files \ {x, y} : Named(f)' <=> Named(f)
      <3>1. \A c \in Customers : row'[c] # Unused <=> row[c] # Unused
        BY <1>5, <2>2
      <3>2. \A c \in Customers, side \in Sides :
              row'[c][side] = row[c][side] \/ (row'[c][side] = x /\ row[c][side] = y)
        BY <1>5, <2>2
      <3> QED BY <3>1, <3>2 DEF Named
    <2>7. \A f \in Files : (f = x => Named(f)') /\ (f = y => Named(f))
      <3>1. row'[d] # Unused /\ row'[d][e] = x /\ row[d] # Unused /\ row[d][e] = y
        BY <1>5, <2>2
      <3> HIDE DEF d, e, x, y
      <3> QED BY <1>1, <3>1 DEF Named
    <2>8. \A f \in Files \ {x} : Saved(f)' <=> Saved(f)
      BY <1>6 DEF Saved, Fresh
    <2>9. \A f \in Files : f = x => Saved(f)
      BY <1>1 DEF Saved
    <2>10. \A f \in Files \ {y} : Replaced(f)' <=> Replaced(f)
      <3>1. \A o \in Requests \ {q} : req'[o] = req[o]
        BY <1>2
      <3>2. \A f \in Files \ {y} : req[q].previous # f /\ req'[q].previous # f
        BY <1>1, <1>6
      <3> QED BY <1>6, <3>1, <3>2 DEF Replaced
    <2>11. \A f \in Files : f = y => Replaced(f)'
      BY <1>1, <1>2, <1>3, <1>6 DEF Replaced
    <2> HIDE DEF x, y
    <2>12. \A f \in Files : files'[f] = "there" <=> Named(f)' \/ Saved(f)' \/ Replaced(f)'
      <3>1. \A f \in Files : files'[f] = "there" <=> Named(f) \/ Saved(f) \/ Replaced(f)
        BY <1>2, <2>1 DEF Undisturbed
      <3> QED BY <2>6, <2>7, <2>8, <2>9, <2>10, <2>11, <3>1
    <2> QED BY <2>1, <2>3, <2>4, <2>5, <2>12 DEF Undisturbed
  <1> QED BY <1>9, <1>11, <1>12, <1>13 DEF DiskInv

\* What a step that names no photo has to show of the one row it writes, c's.
LEMMA KeptRow ==
  ASSUME TypeOK, TypeOK', NEW own \in Owners, DiskInv(own), files' = files,
         \A q \in Requests :
           \/ req'[q] = req[q]
           \/ req[q].kind # "upload" /\ req'[q].kind \notin {"upload", "deposit"},
         restored' = restored, disturbed => disturbed',
         row' = row \/ \E c \in Customers, r \in Rows :
           /\ row' = [row EXCEPT ![c] = r]
           /\ \/ row[c] = Unused /\ r.front \notin Files /\ r.back \notin Files
              \/ Live(c) /\ r.state = "live" /\ r.front = row[c].front /\ r.back = row[c].back
              \/ /\ Live(c) /\ r.state = "deleted" /\ r.front = row[c].front
                 /\ r.back = row[c].back
                 /\ disturbed' \/ \A q \in Requests : Upload(q) => req[q].who # c
              \/ disturbed' /\ r.front \notin Files /\ r.back \notin Files
  PROVE  DiskInv(own)'
  <1>1. CASE row' = row
    <2>1. \A c \in Customers, side \in Sides :
            row'[c] # Unused => Belongs(own, c, side, row'[c][side])
      BY <1>1 DEF DiskInv, Owned
    <2> QED BY <1>1, <2>1, Kept
  <1>2. ASSUME NEW c \in Customers, NEW r \in Rows, row' = [row EXCEPT ![c] = r],
               \/ row[c] = Unused /\ r.front \notin Files /\ r.back \notin Files
               \/ Live(c) /\ r.state = "live" /\ r.front = row[c].front /\ r.back = row[c].back
               \/ /\ Live(c) /\ r.state = "deleted" /\ r.front = row[c].front
                  /\ r.back = row[c].back
                  /\ disturbed' \/ \A q \in Requests : Upload(q) => req[q].who # c
               \/ disturbed' /\ r.front \notin Files /\ r.back \notin Files
        PROVE  DiskInv(own)'
    <2>1. row'[c] = r /\ r # Unused /\ \A d \in Customers \ {c} : row'[d] = row[d]
      BY <1>2 DEF TypeOK, Rows, Unused
    <2>2. \/ row[c] = Unused /\ \A side \in Sides : r[side] \notin Files
          \/ /\ Live(c) /\ row[c] # Unused /\ \A side \in Sides : r[side] = row[c][side]
             /\ r.state = "live" \/ disturbed' \/ \A q \in Requests : Upload(q) => req[q].who # c
          \/ disturbed' /\ \A side \in Sides : r[side] \notin Files
      BY <1>2 DEF Sides, Live, Unused
    <2>3. \A d \in Customers, side \in Sides :
            row'[d] # Unused => Belongs(own, d, side, row'[d][side])
      BY <2>1, <2>2 DEF DiskInv, Owned, Belongs
    <2>4. \A d \in Customers \ restored', side \in Sides :
           \/ row'[d] = row[d]
           \/ row'[d] # Unused /\ row'[d][side] \notin Files
           \/ row[d] # Unused /\ row'[d][side] = row[d][side] /\ (Live(d)' => Live(d))
      BY <2>1, <2>2
    <2>5. ~disturbed' => restored' = restored /\ \A d \in Customers :
           \/ row'[d] = row[d]
           \/ row[d] = Unused /\ row'[d] # Unused /\ \A side \in Sides : row'[d][side] \notin Files
           \/ /\ row[d] # Unused /\ row'[d] # Unused
              /\ \A side \in Sides : row'[d][side] = row[d][side]
              /\ Live(d)' \/ \A q \in Requests : Upload(q) => req[q].who # d
      BY <2>1, <2>2 DEF Live
    <2> QED BY <2>3, <2>4, <2>5, Kept
  <1> QED BY <1>1, <1>2

\* A new copy of a row waits in a request.
LEMMA KeptCopy ==
  ASSUME TypeOK, TypeOK', NEW own \in Owners, DiskInv(own), NEW q \in Requests,
         NEW c \in Customers, BeginDeposit(q, c)
  PROVE  DiskInv(own)'
  <1> DEFINE l == c \in overtaken
             r == [kind |-> "deposit", who |-> c, copy |-> row[c], late |-> l]
  <1>1. /\ Live(c) /\ req[q] = Idle /\ req' = [req EXCEPT ![q] = r]
        /\ UNCHANGED <<row, files, restored, disturbed>>
    BY DEF BeginDeposit, Begin, History
  <1>2. r.kind = "deposit" /\ r.who = c /\ r.copy = row[c]
    OBVIOUS
  <1> HIDE DEF r
  <1>3. \A o \in Requests : req'[o] = IF o = q THEN r ELSE req[o]
    BY <1>1 DEF TypeOK
  <1>4. \A o \in Requests :
          \/ req'[o] = req[o]
          \/ /\ req[o].kind # "upload" /\ req'[o].kind = "deposit"
             /\ row[req'[o].who] # Unused /\ req'[o].copy = row[req'[o].who]
    BY <1>1, <1>2, <1>3 DEF Idle, Live, Unused
  <1>5. \A d \in Customers, side \in Sides :
          row'[d] # Unused => Belongs(own, d, side, row'[d][side])
    BY <1>1 DEF DiskInv, Owned
  <1> QED BY <1>1, <1>4, <1>5, Kept

\* A copy of a row comes back.
LEMMA KeptRestored ==
  ASSUME TypeOK, TypeOK', NEW own \in Owners, DiskInv(own), NEW q \in Requests, Deposit(q)
  PROVE  DiskInv(own)'
  <1> DEFINE c == req[q].who
             r == req[q].copy
  <1>1. /\ req[q].kind = "deposit" /\ c \in Customers /\ r \in Rows
        /\ row' = [row EXCEPT ![c] = r] /\ req' = [req EXCEPT ![q] = Idle]
        /\ restored' = IF r # row[c] THEN restored \cup {c} ELSE restored
        /\ disturbed' = (disturbed \/ r # row[c])
        /\ files' = files
    BY RequestKinds DEF Deposit, End
  <1>2. \A o \in Requests :
          \/ req'[o] = req[o]
          \/ req[o].kind # "upload" /\ req'[o].kind \notin {"upload", "deposit"}
    BY <1>1 DEF Idle, TypeOK
  <1>3. \A side \in Sides : Belongs(own, c, side, r[side])
    BY <1>1 DEF DiskInv, Owned
  <1> HIDE DEF c, r
  <1>4. row'[c] = r /\ \A d \in Customers \ {c} : row'[d] = row[d]
    BY <1>1 DEF TypeOK
  <1>5. \A d \in Customers, side \in Sides :
          row'[d] # Unused => Belongs(own, d, side, row'[d][side])
    BY <1>3, <1>4 DEF DiskInv, Owned
  <1>6. \A d \in Customers \ restored' : row'[d] = row[d]
    BY <1>1, <1>4
  <1>7. ~disturbed' => restored' = restored /\ \A d \in Customers : row'[d] = row[d]
    BY <1>1, <1>4
  <1> QED BY <1>1, <1>2, <1>5, <1>6, <1>7, Kept

\* The first request to end frees its place, which nothing rests on.
LEMMA Ended ==
  ASSUME TypeOK, NEW q \in Requests, NEW r, req' = [req EXCEPT ![q] = r],
         req[q].kind # "upload", r.kind \notin {"upload", "deposit"}
  PROVE  \A o \in Requests :
           \/ req'[o] = req[o]
           \/ req[o].kind # "upload" /\ req'[o].kind \notin {"upload", "deposit"}
  BY DEF TypeOK

\* Whatever happens, every file stays the photo of somebody.
LEMMA DiskStep ==
  ASSUME TypeOK, TypeOK', NEW own \in Owners, DiskInv(own), [IdentityNext]_identityVars
  PROVE  \E o \in Owners : DiskInv(o)'
  <1> SUFFICES ASSUME ~(\E q \in Requests, c \in Customers, side \in Sides, f \in Files :
                          SavePhoto(q, c, side, f))
               PROVE  DiskInv(own)'
    BY SaveKeeps
  <1>1. ASSUME NEW q \in Requests, NEW p \in Phones, BeginRegister(q, p) PROVE DiskInv(own)'
    <2>1. /\ req[q].kind # "upload" /\ req' = [req EXCEPT ![q] = [kind |-> "register", phone |-> p]]
          /\ UNCHANGED <<row, files, restored, disturbed>>
      BY <1>1 DEF BeginRegister, Begin, History, Idle
    <2> QED BY <2>1, KeptRow, Ended
  <1>2. ASSUME NEW q \in Requests, NEW c \in Customers, Register(q, c) PROVE DiskInv(own)'
    <2> DEFINE r == NewRow(req[q].phone, Nobody, "disabled")
    <2>1. r \in Rows /\ r.front \notin Files /\ r.back \notin Files
      <3>1. r \in Rows
        BY <1>2, RequestKinds, NewRows DEF Register, Verdicts
      <3>2. r.front \notin Files /\ r.back \notin Files
        BY IdentityAssumption DEF NewRow
      <3> QED BY <3>1, <3>2
    <2> HIDE DEF r
    <2>2. /\ req[q].kind # "upload" /\ req' = [req EXCEPT ![q] = Idle]
          /\ UNCHANGED <<files, restored, disturbed>> /\ row[c] = Unused
          /\ row' = row \/ row' = [row EXCEPT ![c] = r]
      BY <1>2 DEF Register, End, History, r
    <2>3. Idle.kind \notin {"upload", "deposit"}
      BY DEF Idle
    <2> QED BY <2>1, <2>2, <2>3, KeptRow, Ended
  <1>3. ASSUME NEW c \in Customers, NEW p \in Phones, NEW n \in People, NEW v \in Verdicts,
               Create(c, p, n, v)
        PROVE  DiskInv(own)'
    <2> DEFINE r == NewRow(p, n, v)
    <2>1. r \in Rows /\ r.front \notin Files /\ r.back \notin Files
      BY NewRows, IdentityAssumption DEF NewRow
    <2> HIDE DEF r
    <2>2. /\ req' = req /\ UNCHANGED <<files, restored, disturbed>> /\ row[c] = Unused
          /\ row' = [row EXCEPT ![c] = r]
      BY <1>3 DEF Create, Once, r
    <2> QED BY <2>1, <2>2, KeptRow
  <1>4. ASSUME NEW c \in Customers, Delete(c) PROVE DiskInv(own)'
    <2> DEFINE r == [row[c] EXCEPT !.state = "deleted"]
    <2>1. Live(c) /\ row[c] \in Rows
      BY <1>4, RowKinds DEF Delete
    <2>2. /\ r \in Rows /\ r.state = "deleted" /\ r.front = row[c].front
          /\ r.back = row[c].back
      BY <2>1, RowChanges DEF Rows
    <2>3. /\ row' = [row EXCEPT ![c] = r] /\ req' = req /\ UNCHANGED <<files, restored>>
          /\ disturbed' = (disturbed \/ \E q \in Requests : Upload(q) /\ req[q].who = c)
      BY <1>4 DEF Delete, Once, Upload
    <2> HIDE DEF r
    <2>4. disturbed' \/ \A q \in Requests : Upload(q) => req[q].who # c
      BY <2>3
    <2> QED BY <2>1, <2>2, <2>3, <2>4, KeptRow
  <1>5. ASSUME NEW q \in Requests, FindPrevious(q) PROVE DiskInv(own)'
    BY <1>5, FindKeeps
  <1>6. ASSUME NEW q \in Requests, NamePhoto(q) PROVE DiskInv(own)'
    BY <1>6, NameKeeps
  <1>7. ASSUME NEW q \in Requests, NamePhotoFails(q) PROVE DiskInv(own)'
    <2>1. Upload(q) /\ Fresh(q)
      BY <1>7 DEF NamePhotoFails, Upload, Fresh
    <2>2. /\ req' = [req EXCEPT ![q] = Idle] /\ UNCHANGED <<row, restored, disturbed>>
          /\ files' = IF req[q].file \in Files THEN [files EXCEPT ![req[q].file] = "removed"]
                      ELSE files
      BY <1>7 DEF NamePhotoFails, Remove, End, History
    <2> QED BY <2>1, <2>2, Removed
  <1>8. ASSUME NEW q \in Requests, RemovePrevious(q) PROVE DiskInv(own)'
    <2>1. Upload(q) /\ req[q].at = "written"
      BY <1>8 DEF RemovePrevious, Upload
    <2>2. /\ req' = [req EXCEPT ![q] = Idle] /\ UNCHANGED <<row, restored, disturbed>>
          /\ files' = IF req[q].previous \in Files
                      THEN [files EXCEPT ![req[q].previous] = "removed"] ELSE files
      BY <1>8 DEF RemovePrevious, Remove, End, History
    <2> QED BY <2>1, <2>2, Removed
  <1>9. ASSUME NEW c \in Customers, NEW n \in People, SaveVerificationProfile(c, n)
        PROVE  DiskInv(own)'
    <2> DEFINE r == [row[c] EXCEPT !.person = n, !.verified = "disabled"]
    <2>1. Live(c) /\ row[c] \in Rows
      BY <1>9, RowKinds DEF SaveVerificationProfile
    <2>2. /\ r \in Rows
      BY <2>1, RowChanges DEF Verdicts
    <2>3. r.state = "live" /\ r.front = row[c].front /\ r.back = row[c].back
      BY <2>1 DEF Rows, Live
    <2>4. row' = [row EXCEPT ![c] = r] /\ req' = req /\ UNCHANGED <<files, restored, disturbed>>
      BY <1>9 DEF SaveVerificationProfile, Once, History
    <2> HIDE DEF r
    <2> QED BY <2>1, <2>2, <2>3, <2>4, KeptRow
  <1>10. ASSUME NEW q \in Requests, NEW c \in Customers, NEW n \in People, BeginIdentity(q, c, n)
         PROVE  DiskInv(own)'
    <2>1. /\ req[q].kind # "upload"
          /\ req' = [req EXCEPT ![q] = [kind |-> "identity", who |-> c, person |-> n]]
          /\ UNCHANGED <<row, files, restored, disturbed>>
      BY <1>10 DEF BeginIdentity, Begin, History, Idle
    <2> QED BY <2>1, KeptRow, Ended
  <1>11. ASSUME NEW q \in Requests, SaveVerificationIdentity(q) PROVE DiskInv(own)'
    <2> DEFINE c == req[q].who
               r == [row[c] EXCEPT !.person = req[q].person, !.verified = "pending"]
    <2>1. c \in Customers /\ req[q].person \in People /\ req[q].kind = "identity"
      BY <1>11, RequestKinds DEF SaveVerificationIdentity
    <2>2. Live(c) => row[c] \in Rows
      BY <2>1, RowKinds
    <2>3. Live(c) => r \in Rows
      BY <2>1, <2>2, RowChanges DEF Verdicts
    <2>4. Live(c) => r.state = "live" /\ r.front = row[c].front /\ r.back = row[c].back
      BY <2>2 DEF Rows, Live
    <2>5. /\ req' = [req EXCEPT ![q] = Idle] /\ UNCHANGED <<files, restored, disturbed>>
          /\ row' = row \/ (Live(c) /\ row' = [row EXCEPT ![c] = r])
      BY <1>11 DEF SaveVerificationIdentity, Updated, End, History
    <2>6. Idle.kind \notin {"upload", "deposit"}
      BY DEF Idle
    <2> HIDE DEF r, c
    <2> QED BY <2>1, <2>3, <2>4, <2>5, <2>6, KeptRow, Ended
  <1>12. ASSUME NEW q \in Requests, NEW c \in Customers, StartFaceVerification(q, c)
         PROVE  DiskInv(own)'
    <2>1. /\ req[q].kind # "upload"
          /\ req' = [req EXCEPT ![q] = [kind |-> "face", who |-> c, look |-> Material(row[c])]]
          /\ UNCHANGED <<row, files, restored, disturbed>>
      BY <1>12 DEF StartFaceVerification, Begin, History, Idle
    <2> QED BY <2>1, KeptRow, Ended
  <1>13. ASSUME NEW q \in Requests, NEW d \in Customers, NEW look, NEW v \in Verdicts,
                req[q].kind # "upload", Judge(d, look, v), req' = [req EXCEPT ![q] = Idle],
                UNCHANGED <<files, restored, disturbed>>
         PROVE  DiskInv(own)'
    <2> DEFINE r == [row[d] EXCEPT !.verified = v]
    <2>1. Live(d) => row[d] \in Rows
      BY RowKinds
    <2>2. Live(d) => r \in Rows
      BY <2>1, RowChanges
    <2>3. Live(d) => r.state = "live" /\ r.front = row[d].front /\ r.back = row[d].back
      BY <2>1 DEF Rows, Live
    <2>4. row' = row \/ (Live(d) /\ row' = [row EXCEPT ![d] = r])
      BY <1>13 DEF Judge, Updated
    <2>5. Idle.kind \notin {"upload", "deposit"}
      BY DEF Idle
    <2> HIDE DEF r
    <2> QED BY <1>13, <2>2, <2>3, <2>4, <2>5, KeptRow, Ended
  <1>14. ASSUME NEW q \in Requests, NEW passed \in BOOLEAN, FaceVerified(q, passed)
         PROVE  DiskInv(own)'
    <2>1. /\ req[q].who \in Customers /\ req[q].kind = "face"
          /\ (IF passed THEN "verified" ELSE "pending") \in Verdicts
      BY <1>14, RequestKinds DEF FaceVerified, Verdicts
    <2> QED BY <1>13, <1>14, <2>1 DEF FaceVerified, End
  <1>15. ASSUME NEW q \in Requests, NEW c \in Customers, OpenForm(q, c) PROVE DiskInv(own)'
    <2>1. /\ req[q].kind # "upload"
          /\ req' = [req EXCEPT ![q] = [kind |-> "form", who |-> c, copy |-> row[c]]]
          /\ UNCHANGED <<row, files, restored, disturbed>>
      BY <1>15 DEF OpenForm, Begin, History, Idle
    <2> QED BY <2>1, KeptRow, Ended
  <1>16. ASSUME NEW q \in Requests, NEW v \in {"verified", "rejected"}, ReviewVerification(q, v)
         PROVE  DiskInv(own)'
    <2>1. req[q].who \in Customers /\ req[q].kind = "form" /\ v \in Verdicts
      BY <1>16, RequestKinds DEF ReviewVerification, Verdicts
    <2> QED BY <1>13, <1>16, <2>1 DEF ReviewVerification, End
  <1>17. ASSUME NEW q \in Requests, BeginUpdate(q) PROVE DiskInv(own)'
    <2> DEFINE r == [req[q] EXCEPT !.kind = "save"]
    <2>1. req[q].kind = "form" /\ r.kind = "save" /\ Idle.kind = "idle"
      BY <1>17, RequestKinds DEF BeginUpdate, Idle
    <2>2. /\ req' = [req EXCEPT ![q] = r] \/ req' = [req EXCEPT ![q] = Idle]
          /\ UNCHANGED <<row, files, restored, disturbed>>
      BY <1>17 DEF BeginUpdate, End, History
    <2> HIDE DEF r
    <2> QED BY <2>1, <2>2, KeptRow, Ended
  <1>18. ASSUME NEW q \in Requests, NEW n \in People \cup {Nobody}, NEW v \in Verdicts,
                Update(q, n, v)
         PROVE  DiskInv(own)'
    <2> DEFINE c == req[q].who
               copy == req[q].copy
               f == Shown(copy.front)
               b == Shown(copy.back)
               r == [copy EXCEPT !.person = n, !.verified = v, !.front = f, !.back = b]
    <2>1. c \in Customers /\ copy \in Rows /\ req[q].kind = "save"
      BY <1>18, RequestKinds DEF Update
    <2>2. /\ f \in Photos /\ b \in Photos
          /\ f \notin Files /\ b \notin Files
      BY <2>1, IdentityAssumption DEF Shown, Photos, Rows
    <2>3. /\ row' = [row EXCEPT ![c] = r] /\ disturbed' = TRUE
          /\ req' = [req EXCEPT ![q] = Idle] /\ UNCHANGED <<files, restored>>
      BY <1>18 DEF Update, End
    <2> HIDE DEF c, copy, f, b
    <2>4. r \in Rows
      BY <2>1, <2>2, RowChanges
    <2>5. r.front = f /\ r.back = b
      BY <2>1 DEF Rows
    <2>6. Idle.kind \notin {"upload", "deposit"}
      BY DEF Idle
    <2> HIDE DEF r
    <2> QED BY <2>1, <2>2, <2>3, <2>4, <2>5, <2>6, KeptRow, Ended
  <1>19. ASSUME NEW q \in Requests, Stop(q) PROVE DiskInv(own)'
    <2>1. /\ req' = [req EXCEPT ![q] = Idle] /\ UNCHANGED <<row, files, restored>>
          /\ disturbed' = (disturbed \/ req[q].kind = "upload")
      BY <1>19 DEF Stop, End
    <2>2. \A o \in Requests :
            \/ req'[o] = req[o]
            \/ req[o].kind # "upload" /\ req'[o].kind \notin {"upload", "deposit"}
            \/ req'[o].kind = "idle" /\ disturbed'
      BY <2>1 DEF Idle, TypeOK
    <2>3. \A c \in Customers, side \in Sides :
            row'[c] # Unused => Belongs(own, c, side, row'[c][side])
      BY <2>1 DEF DiskInv, Owned
    <2> QED BY <2>1, <2>2, <2>3, Kept
  <1>20. CASE UNCHANGED identityVars
    BY <1>20, KeptRow DEF identityVars
  <1> QED BY <1>1, <1>2, <1>3, <1>4, <1>5, <1>6, <1>7, <1>8, <1>9, <1>10, <1>11, <1>12, <1>14,
             <1>15, <1>16, <1>17, <1>18, <1>19, <1>20, KeptCopy, KeptRestored
          DEF IdentityNext, Accounts, UploadMaterial, Verification, WholeRows

\* The photos of the first customer are his.
LEMMA DiskInit == IdentityInit => \E own \in Owners : DiskInv(own)
  <1> SUFFICES ASSUME IdentityInit, TypeOK PROVE \E own \in Owners : DiskInv(own)
    BY TypeInit
  <1>1. /\ \A q \in Requests : req[q].kind = "idle"
        /\ restored = {} /\ disturbed = FALSE
    BY DEF IdentityInit, Idle
  <1>2. /\ \A q \in Requests : ~Upload(q) /\ ~Fresh(q) /\ req[q].kind # "deposit"
        /\ \A f \in Files : ~Saved(f) /\ ~Replaced(f)
    BY <1>1 DEF Upload, Fresh, Saved, Replaced
  <1>3. ASSUME NEW own \in Owners,
               \A c \in Customers, side \in Sides : row[c] # Unused =>
                 row[c][side] \in Files /\ files[row[c][side]] = "there"
                 /\ own[row[c][side]] = <<c, side>>,
               \A f \in Files : files[f] = "there" <=> Named(f)
        PROVE  DiskInv(own)
    <2>1. Owned(own)
      BY <1>2, <1>3 DEF Owned, Belongs
    <2>2. PhotosOnDisk
      BY <1>3 DEF PhotosOnDisk, Live, Unused
    <2>3. UploadsSafe
      BY <1>2 DEF UploadsSafe
    <2>4. Undisturbed
      BY <1>1, <1>2, <1>3 DEF Undisturbed
    <2> QED BY <2>1, <2>2, <2>3, <2>4 DEF DiskInv
  <1>4. CASE row = [c \in Customers |-> Unused] /\ files = [f \in Files |-> "unused"]
    <2> DEFINE own == [f \in Files |-> Nobody]
    <2>1. own \in Owners
      BY DEF Owners
    <2>2. \A f \in Files : files[f] = "there" <=> Named(f)
      BY <1>4 DEF Named
    <2> HIDE DEF own
    <2>3. DiskInv(own)
      BY <1>3, <1>4, <2>1, <2>2
    <2> QED BY <2>1, <2>3
  <1>5. ASSUME NEW c \in Customers, NEW p \in Phones, NEW n \in People, NEW f \in Files,
               NEW b \in Files, f # b,
               row = [d \in Customers |-> IF d # c THEN Unused ELSE
                 [state |-> "live", phone |-> p, person |-> n, verified |-> "pending",
                  front |-> f, back |-> b]],
               files = [x \in Files |-> IF x \in {f, b} THEN "there" ELSE "unused"]
        PROVE  \E own \in Owners : DiskInv(own)
    <2> DEFINE own == [x \in Files |-> <<c, IF x = f THEN "front" ELSE "back">>]
    <2>1. own \in Owners /\ own[f] = <<c, "front">> /\ own[b] = <<c, "back">>
      BY <1>5 DEF Owners, Sides
    <2>2. /\ \A d \in Customers : row[d] # Unused <=> d = c
          /\ row[c]["front"] = f /\ row[c]["back"] = b
          /\ \A x \in Files : files[x] = "there" <=> x = f \/ x = b
      BY <1>5 DEF Unused
    <2> HIDE DEF own
    <2>3. \A x \in Files : files[x] = "there" <=> Named(x)
      BY <2>2 DEF Named, Sides
    <2>4. DiskInv(own)
      BY <1>3, <2>1, <2>2, <2>3 DEF Sides
    <2> QED BY <2>1, <2>4
  <1> QED BY <1>4, <1>5 DEF IdentityInit

DiskInvariant == \E own \in Owners : DiskInv(own)

THEOREM IdentityDisk == IdentitySpec => []DiskInvariant
  <1>1. TypeOK /\ TypeOK' /\ DiskInvariant /\ [IdentityNext]_identityVars => DiskInvariant'
    <2> SUFFICES ASSUME TypeOK, TypeOK', DiskInvariant, [IdentityNext]_identityVars
                 PROVE  DiskInvariant'
      OBVIOUS
    <2>1. PICK own \in Owners : DiskInv(own)
      BY DEF DiskInvariant
    <2>2. \E o \in Owners : DiskInv(o)'
      BY <2>1, DiskStep
    <2> QED BY <2>2 DEF DiskInvariant, Owners
  <1> QED BY IdentityTyped, DiskInit, <1>1, PTL DEF IdentitySpec, DiskInvariant

\* For every number of customers, files and requests: uploads that overlap or
\* stop anywhere never remove a photo that a row in use names, unless a copy of
\* the row from before the upload came back.
THEOREM PhotosStay == IdentitySpec => []PhotosOnDisk
  <1>1. DiskInvariant => PhotosOnDisk
    BY DEF DiskInvariant, DiskInv
  <1> QED BY IdentityDisk, <1>1, PTL

\* Nor do they leave anything behind, as long as they do not meet or stop halfway.
THEOREM NothingLeftOnDisk == IdentitySpec => []DiskExact
  <1>1. ASSUME DiskInvariant, ~disturbed, \A q \in Requests : req[q].kind # "upload"
        PROVE  {f \in Files : files[f] = "there"} =
               {row[c][side] : c \in {d \in Customers : row[d] # Unused}, side \in Sides}
               \cap Files
    <2>1. Undisturbed
      BY <1>1 DEF DiskInvariant, DiskInv
    <2>2. \A f \in Files : ~Saved(f) /\ ~Replaced(f)
      BY <1>1 DEF Saved, Replaced, Fresh, Upload
    <2>3. \A f \in Files : files[f] = "there" <=> Named(f)
      BY <2>1, <2>2 DEF Undisturbed
    <2> QED BY <2>3 DEF Named
  <1>2. DiskInvariant => DiskExact
    BY <1>1 DEF DiskExact
  <1> QED BY IdentityDisk, <1>2, PTL
=============================================================================
