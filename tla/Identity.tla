------------------------------ MODULE Identity ------------------------------
(***************************************************************************)
(* Who a customer is: the phone he registers, the photos of his identity   *)
(* card, his name and card number, and whether he has been verified, by a  *)
(* face check of a third party or by a reviewer.                           *)
(*                                                                         *)
(* Most of these handlers read the row, do something slow and write, with  *)
(* no lock and no transaction around it.  `req' holds what each request    *)
(* has read.  The photos are files; a replaced one is removed after the    *)
(* row names its successor.  A token outlives its customer, so a deleted   *)
(* one may go on calling.                                                  *)
(***************************************************************************)
EXTENDS Naturals, FiniteSets

CONSTANTS
  Customers, Phones,
  People,        \* names with their card numbers
  Nobody,        \* no card number yet
  Files, NoPhoto,
  Inline,        \* a photo the row holds as a data URL
  Requests,      \* requests that are under way at a time
  MaxCalls       \* bound on the requests

ASSUME IdentityAssumption ==
  /\ Nobody \notin People /\ NoPhoto # Inline
  /\ {NoPhoto, Inline} \cap Files = {}
  /\ MaxCalls \in Nat

VARIABLES
  row,         \* customers
  files,       \* the verification material on the disk
  req,
  seen,        \* the material that was looked at by whoever verified a customer
  overtaken,   \* customers verified for material that had changed by then
  restored,    \* customers whose row was overwritten by an older copy
  disturbed,   \* two requests for one customer met, or one stopped halfway
  calls

identityVars == <<row, files, req, seen, overtaken, restored, disturbed, calls>>

Photos == Files \cup {NoPhoto, Inline}
Sides == {"front", "back"}
Verdicts == {"verified", "disabled", "rejected", "pending"}
Unused == [state |-> "unused"]
Rows == [state : {"live", "deleted"}, phone : Phones, person : People \cup {Nobody},
         verified : Verdicts, front : Photos, back : Photos]
Materials == [person : People \cup {Nobody}, front : Photos, back : Photos]

Idle == [kind |-> "idle"]
Uploads == [kind : {"upload"}, at : {"saved", "read", "written"}, who : Customers,
            side : Sides, file : Files, previous : Photos]
ReqRecords ==
  {Idle} \cup Uploads
  \cup [kind : {"register"}, phone : Phones]
  \cup [kind : {"identity"}, who : Customers, person : People]
  \cup [kind : {"face"}, who : Customers, look : Materials]
  \cup [kind : {"form", "save"}, who : Customers, copy : Rows]
  \cup [kind : {"deposit"}, who : Customers, copy : Rows, late : BOOLEAN]

TypeOK ==
  /\ row \in [Customers -> Rows \cup {Unused}]
  /\ files \in [Files -> {"unused", "there", "removed"}]
  /\ req \in [Requests -> ReqRecords]
  /\ seen \in [Customers -> SUBSET Materials]
  /\ overtaken \subseteq Customers /\ restored \subseteq Customers
  /\ disturbed \in BOOLEAN
  /\ calls \in 0..MaxCalls

-----------------------------------------------------------------------------
Live(c) == row[c].state = "live"

Material(r) == [person |-> r.person, front |-> r.front, back |-> r.back]

\* What an update by id changes; it finds no row that is deleted.
Updated(c, r) == row' = IF Live(c) THEN [row EXCEPT ![c] = r] ELSE row

Begin(q, r) ==
  /\ calls < MaxCalls /\ calls' = calls + 1
  /\ req[q] = Idle
  /\ req' = [req EXCEPT ![q] = r]

End(q) == req' = [req EXCEPT ![q] = Idle] /\ UNCHANGED calls

\* A handler that is one statement.
Once == calls < MaxCalls /\ calls' = calls + 1 /\ UNCHANGED req

Remove(f) == files' = IF f \in Files THEN [files EXCEPT ![f] = "removed"] ELSE files

History == <<seen, overtaken, restored, disturbed>>

-----------------------------------------------------------------------------
(* Accounts *)

\* The unique index on the phone has the deleted rows too.
Taken(p) == \E c \in Customers : row[c] # Unused /\ row[c].phone = p

NewRow(p, n, v) ==
  [state |-> "live", phone |-> p, person |-> n, verified |-> v,
   front |-> NoPhoto, back |-> NoPhoto]

BeginRegister(q, p) ==
  /\ \A c \in Customers : Live(c) => row[c].phone # p
  /\ Begin(q, [kind |-> "register", phone |-> p])
  /\ UNCHANGED <<row, files, History>>

Register(q, c) ==
  /\ req[q].kind = "register"
  /\ row[c] = Unused
  /\ row' = IF Taken(req[q].phone) THEN row
            ELSE [row EXCEPT ![c] = NewRow(req[q].phone, Nobody, "disabled")]
  /\ End(q)
  /\ UNCHANGED <<files, History>>

\* An administrator enters a customer, whom he may declare verified.
Create(c, p, n, v) ==
  /\ Once
  /\ row[c] = Unused /\ ~Taken(p)
  /\ row' = [row EXCEPT ![c] = NewRow(p, n, v)]
  /\ seen' = [seen EXCEPT ![c] = @ \cup {Material(NewRow(p, n, v))}]
  /\ UNCHANGED <<files, overtaken, restored, disturbed>>

\* The photos stay where they are.
Delete(c) ==
  /\ Once
  /\ Live(c)
  /\ row' = [row EXCEPT ![c].state = "deleted"]
  /\ disturbed' = (disturbed \/ \E q \in Requests : req[q].kind = "upload" /\ req[q].who = c)
  /\ UNCHANGED <<files, seen, overtaken, restored>>

-----------------------------------------------------------------------------
(* UploadVerificationMaterial *)

Uploading(c, side) ==
  {q \in Requests : req[q].kind = "upload" /\ req[q].who = c /\ req[q].side = side}

SavePhoto(q, c, side, f) ==
  /\ row[c] # Unused
  /\ files[f] = "unused"
  /\ files' = [files EXCEPT ![f] = "there"]
  /\ Begin(q, [kind |-> "upload", at |-> "saved", who |-> c, side |-> side, file |-> f,
               previous |-> NoPhoto])
  /\ disturbed' = (disturbed \/ Uploading(c, side) # {})
  /\ UNCHANGED <<row, seen, overtaken, restored>>

\* Fault: the old photo is removed before the row names the new one.
FindPreviousFirst(q) ==
  LET u == req[q]
  IN /\ u.kind = "upload" /\ u.at = "saved"
     /\ IF Live(u.who)
        THEN /\ req' = [req EXCEPT ![q].at = "read", ![q].previous = row[u.who][u.side]]
             /\ Remove(row[u.who][u.side])
             /\ UNCHANGED calls
        ELSE Remove(u.file) /\ End(q)
     /\ UNCHANGED <<row, History>>

\* Reads the row for the name of the photo to be replaced.
FindPrevious(q) ==
  LET u == req[q]
  IN /\ u.kind = "upload" /\ u.at = "saved"
     /\ IF Live(u.who)
        THEN /\ req' = [req EXCEPT ![q].at = "read", ![q].previous = row[u.who][u.side]]
             /\ UNCHANGED <<files, calls>>
        ELSE Remove(u.file) /\ End(q)
     /\ UNCHANGED <<row, History>>

\* A row that was deleted since is not updated, which is no error.
NamePhoto(q) ==
  LET u == req[q]
  IN /\ u.kind = "upload" /\ u.at = "read"
     /\ Updated(u.who, [[row[u.who] EXCEPT !.verified = "disabled"] EXCEPT ![u.side] = u.file])
     /\ req' = [req EXCEPT ![q].at = "written"]
     /\ UNCHANGED <<files, History, calls>>

\* Fault: the photo that was saved is left behind.
NamePhotoFailsDirty(q) ==
  /\ req[q].kind = "upload" /\ req[q].at = "read"
  /\ End(q)
  /\ UNCHANGED <<row, files, History>>

NamePhotoFails(q) ==
  /\ req[q].kind = "upload" /\ req[q].at = "read"
  /\ Remove(req[q].file)
  /\ End(q)
  /\ UNCHANGED <<row, History>>

RemovePrevious(q) ==
  /\ req[q].kind = "upload" /\ req[q].at = "written"
  /\ Remove(req[q].previous)
  /\ End(q)
  /\ UNCHANGED <<row, History>>

-----------------------------------------------------------------------------
(* The customer's own statements *)

\* Fault: a new name keeps the old verdict.
SaveProfileVerified(c, n) ==
  /\ Once
  /\ Live(c)
  /\ row' = [row EXCEPT ![c].person = n]
  /\ UNCHANGED <<files, History>>

SaveVerificationProfile(c, n) ==
  /\ Once
  /\ Live(c)
  /\ row' = [row EXCEPT ![c].person = n, ![c].verified = "disabled"]
  /\ UNCHANGED <<files, History>>

BothPhotos(c) == row[c].front # NoPhoto /\ row[c].back # NoPhoto

BeginIdentity(q, c, n) ==
  /\ Live(c) /\ BothPhotos(c)
  /\ Begin(q, [kind |-> "identity", who |-> c, person |-> n])
  /\ UNCHANGED <<row, files, History>>

SaveVerificationIdentity(q) ==
  LET c == req[q].who
  IN /\ req[q].kind = "identity"
     /\ Updated(c, [row[c] EXCEPT !.person = req[q].person, !.verified = "pending"])
     /\ End(q)
     /\ UNCHANGED <<files, History>>

-----------------------------------------------------------------------------
(* Being verified *)

\* Somebody who looked at the material `look' writes the verdict v on the row.
Judge(c, look, v) ==
  /\ Updated(c, [row[c] EXCEPT !.verified = v])
  /\ seen' = [seen EXCEPT ![c] = IF v = "verified" THEN @ \cup {look} ELSE @]
  /\ overtaken' = IF v # "verified" \/ ~Live(c) THEN overtaken
                  ELSE IF Material(row[c]) = look THEN overtaken \ {c} ELSE overtaken \cup {c}

StartFaceVerification(q, c) ==
  /\ Live(c) /\ BothPhotos(c) /\ row[c].person # Nobody
  /\ Begin(q, [kind |-> "face", who |-> c, look |-> Material(row[c])])
  /\ UNCHANGED <<row, files, History>>

FaceVerified(q, passed) ==
  /\ req[q].kind = "face"
  /\ Judge(req[q].who, req[q].look, IF passed THEN "verified" ELSE "pending")
  /\ End(q)
  /\ UNCHANGED <<files, restored, disturbed>>

\* An administrator opens the list or the page of a customer.
OpenForm(q, c) ==
  /\ Live(c)
  /\ Begin(q, [kind |-> "form", who |-> c, copy |-> row[c]])
  /\ UNCHANGED <<row, files, History>>

ReviewVerification(q, v) ==
  /\ req[q].kind = "form"
  /\ Judge(req[q].who, Material(req[q].copy), v)
  /\ End(q)
  /\ UNCHANGED <<files, restored, disturbed>>

-----------------------------------------------------------------------------
(* Whole rows *)

\* What a response has for a photo: its content, or nothing if it is not there.
Shown(p) == IF p \in Files THEN (IF files[p] = "there" THEN Inline ELSE NoPhoto) ELSE p

\* The form is sent back, as it was filled in when it was opened.
BeginUpdate(q) ==
  /\ req[q].kind = "form"
  /\ IF Live(req[q].who)
     THEN req' = [req EXCEPT ![q].kind = "save"] /\ UNCHANGED calls
     ELSE End(q)
  /\ UNCHANGED <<row, files, History>>

\* A row that is deleted by now is inserted again, and so returns.
Update(q, n, v) ==
  LET copy == req[q].copy
      new == [copy EXCEPT !.person = n, !.verified = v,
                          !.front = Shown(copy.front), !.back = Shown(copy.back)]
  IN /\ req[q].kind = "save"
     /\ row' = [row EXCEPT ![req[q].who] = new]
     /\ seen' = [seen EXCEPT ![req[q].who] = IF v = "verified" THEN @ \cup {Material(new)} ELSE @]
     /\ disturbed' = TRUE
     /\ End(q)
     /\ UNCHANGED <<files, overtaken, restored>>

\* The row is read, and with it comes a verdict that was late.
BeginDeposit(q, c) ==
  /\ Live(c)
  /\ Begin(q, [kind |-> "deposit", who |-> c, copy |-> row[c], late |-> c \in overtaken])
  /\ UNCHANGED <<row, files, History>>

Deposit(q) ==
  LET c == req[q].who
      stale == req[q].copy # row[c]
  IN /\ req[q].kind = "deposit"
     /\ row' = [row EXCEPT ![c] = req[q].copy]
     /\ restored' = IF stale THEN restored \cup {c} ELSE restored
     /\ disturbed' = (disturbed \/ stale)
     /\ overtaken' = IF req[q].late THEN overtaken \cup {c} ELSE overtaken \ {c}
     /\ End(q)
     /\ UNCHANGED <<files, seen>>

\* An error between two statements, a request given up or the end of the
\* process: what was done stays done.
Stop(q) ==
  /\ req[q] # Idle
  /\ End(q)
  /\ disturbed' = (disturbed \/ req[q].kind = "upload")
  /\ UNCHANGED <<row, files, seen, overtaken, restored>>

-----------------------------------------------------------------------------
\* Nobody is registered yet, or one customer waits for his review.
IdentityInit ==
  /\ \/ /\ row = [c \in Customers |-> Unused]
        /\ files = [f \in Files |-> "unused"]
     \/ \E c \in Customers, p \in Phones, n \in People, f, b \in Files :
          /\ f # b
          /\ row = [d \in Customers |-> IF d # c THEN Unused ELSE
                [state |-> "live", phone |-> p, person |-> n, verified |-> "pending",
                 front |-> f, back |-> b]]
          /\ files = [x \in Files |-> IF x \in {f, b} THEN "there" ELSE "unused"]
  /\ req = [q \in Requests |-> Idle]
  /\ seen = [c \in Customers |-> {}]
  /\ overtaken = {} /\ restored = {} /\ disturbed = FALSE
  /\ calls = 0

Accounts ==
  \/ \E q \in Requests, p \in Phones : BeginRegister(q, p)
  \/ \E q \in Requests, c \in Customers : Register(q, c)
  \/ \E c \in Customers, p \in Phones, n \in People, v \in Verdicts : Create(c, p, n, v)
  \/ \E c \in Customers : Delete(c)

UploadMaterial == \E q \in Requests :
  \/ \E c \in Customers, side \in Sides, f \in Files : SavePhoto(q, c, side, f)
  \/ FindPrevious(q) \/ NamePhoto(q) \/ NamePhotoFails(q) \/ RemovePrevious(q)

Verification ==
  \/ \E c \in Customers, n \in People : SaveVerificationProfile(c, n)
  \/ \E q \in Requests, c \in Customers, n \in People : BeginIdentity(q, c, n)
  \/ \E q \in Requests : SaveVerificationIdentity(q)
  \/ \E q \in Requests, c \in Customers : StartFaceVerification(q, c) \/ OpenForm(q, c)
  \/ \E q \in Requests, passed \in BOOLEAN : FaceVerified(q, passed)
  \/ \E q \in Requests, v \in {"verified", "rejected"} : ReviewVerification(q, v)

WholeRows == \E q \in Requests :
  \/ BeginUpdate(q) \/ Deposit(q) \/ Stop(q)
  \/ \E n \in People \cup {Nobody}, v \in Verdicts : Update(q, n, v)
  \/ \E c \in Customers : BeginDeposit(q, c)

IdentityNext == Accounts \/ UploadMaterial \/ Verification \/ WholeRows

IdentitySpec == IdentityInit /\ [][IdentityNext]_identityVars

-----------------------------------------------------------------------------
\* The photo a row names is on the disk, however uploads of one side overlap
\* and wherever they stop, unless an older copy of the row came back.
PhotosOnDisk == \A c \in Customers \ restored, side \in Sides :
  Live(c) /\ row[c][side] \in Files => files[row[c][side]] = "there"

\* As long as requests do not meet or stop halfway, the disk holds the photos
\* the rows name, and no others once the uploads are over.
DiskExact ==
  ~disturbed /\ (\A q \in Requests : req[q].kind # "upload") =>
    {f \in Files : files[f] = "there"} =
    {row[c][side] : c \in {d \in Customers : row[d] # Unused}, side \in Sides} \cap Files

\* A customer is verified for the name and the photos that the one who verified
\* him saw: every change of them takes the verdict back.  The exception is a
\* verdict that was on its way while they changed.
VerifiedWasSeen == \A c \in Customers \ overtaken :
  Live(c) /\ row[c].verified = "verified" => Material(row[c]) \in seen[c]
=============================================================================
