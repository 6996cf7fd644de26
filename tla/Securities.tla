----------------------------- MODULE Securities -----------------------------
(***************************************************************************)
(* The catalogue of securities.  A synchronisation, by the cron job or by  *)
(* an administrator, reads the source page by page and writes each page as *)
(* it comes; administrators change, withdraw and delete securities         *)
(* meanwhile.  A form writes the whole row as it was when it was opened.   *)
(*                                                                         *)
(* A page holds one security here.  The source sorts by the change of the  *)
(* day, so that securities move from page to page between two reads.       *)
(***************************************************************************)
EXTENDS Naturals, Sequences, FiniteSets

CONSTANTS
  Securities, Quotes,
  Syncs, CronSync,    \* the synchronisations that may be under way
  MaxPages,           \* MaxSyncRows, in pages
  MaxStockEdits       \* bound on what administrators and the market do

ASSUME SecuritiesAssumption ==
  /\ CronSync \in Syncs /\ IsFiniteSet(Securities)
  /\ MaxPages \in Nat \ {0} /\ MaxStockEdits \in Nat

VARIABLES
  security,    \* stock_securities
  clash,       \* securities whose symbol a row entered by hand has
  listing,     \* the securities of the source in its order, with their quotes
  sync,        \* the page each synchronisation is at, and what it read of it
  form,        \* the row an administrator has opened
  heldBack,    \* securities an administrator disabled or deleted last
  stockEdits

stockVars == <<security, clash, listing, sync, form, heldBack, stockEdits>>
Catalogue == <<security, clash, heldBack>>

StockRows == [state : {"live", "deleted"}, status : {"enabled", "disabled"}, quote : Quotes]
Missing == [state |-> "unused"]
ListedItems == [code : Securities, quote : Quotes]
NoForm == [code |-> "none"]
NoSync == [page |-> 0, read |-> {}, total |-> 0]

\* What the source may list: every security once at most.
Lists == {l \in UNION {[1..n -> ListedItems] : n \in 0..Cardinality(Securities)} :
            \A i, j \in DOMAIN l : l[i].code = l[j].code => i = j}

StockTypeOK ==
  /\ security \in [Securities -> StockRows \cup {Missing}]
  /\ clash \subseteq Securities /\ heldBack \subseteq Securities
  /\ listing \in Lists
  /\ \A j \in Syncs : /\ sync[j].page \in 0..MaxPages
                      /\ sync[j].read \subseteq ListedItems /\ Cardinality(sync[j].read) <= 1
                      /\ sync[j].total \in 0..Cardinality(Securities)
  /\ form = NoForm \/ (form.code \in Securities /\ form.copy \in StockRows)
  /\ stockEdits \in 0..MaxStockEdits

StockEdit == stockEdits < MaxStockEdits /\ stockEdits' = stockEdits + 1

-----------------------------------------------------------------------------
\* The job when it is due and not at work, an administrator at any time.
BeginSync(j) ==
  /\ sync[j] = NoSync
  /\ sync' = [sync EXCEPT ![j].page = 1]
  /\ IF j = CronSync THEN UNCHANGED stockEdits ELSE StockEdit
  /\ UNCHANGED <<Catalogue, listing, form>>

\* A page that is not there ends the loop without an error.
ReadPage(j, n) ==
  /\ sync[j].page = n /\ sync[j].read = {}
  /\ sync' = [sync EXCEPT ![j] =
       IF n \in DOMAIN listing
       THEN [page |-> n, read |-> {listing[n]}, total |-> Len(listing)] ELSE NoSync]
  /\ UNCHANGED <<Catalogue, listing, form, stockEdits>>

\* The loop goes as far as the page that was read last said.
Turned(at) ==
  IF at.page < MaxPages /\ at.page < at.total
  THEN [at EXCEPT !.page = @ + 1, !.read = {}] ELSE NoSync

\* Fault: a security that the source has is open for trade again.
UpsertAll(item) ==
  security' = [security EXCEPT ![item.code] =
    [state |-> "live", status |-> "enabled", quote |-> item.quote]]

\* A new security is for trade; of a known one the status and the deletion stay.
Upsert(item) ==
  security' = [security EXCEPT ![item.code] =
    IF @ = Missing THEN [state |-> "live", status |-> "enabled", quote |-> item.quote]
    ELSE [@ EXCEPT !.quote = item.quote]]

WritePage(j, n) ==
  /\ sync[j].page = n
  /\ \E item \in sync[j].read : item.code \notin clash /\ Upsert(item)
  /\ sync' = [sync EXCEPT ![j] = Turned(@)]
  /\ UNCHANGED <<clash, heldBack, listing, form, stockEdits>>

\* The pages before stay.  A symbol that is taken refuses the page every time,
\* the source and the data base do so now and then.
SyncFails(j) ==
  /\ sync[j] # NoSync
  /\ sync' = [sync EXCEPT ![j] = NoSync]
  /\ IF \E item \in sync[j].read : item.code \in clash
     THEN UNCHANGED stockEdits ELSE StockEdit
  /\ UNCHANGED <<Catalogue, listing, form>>

-----------------------------------------------------------------------------
\* What an administrator said of a security last.
Say(s, r) ==
  heldBack' = IF r.state = "live" /\ r.status = "enabled"
              THEN heldBack \ {s} ELSE heldBack \cup {s}

\* Nothing is known of a deleted security but by its id in an old form.
OpenStockForm(s) ==
  /\ security[s].state = "live" /\ form = NoForm
  /\ form' = [code |-> s, copy |-> security[s]]
  /\ UNCHANGED <<Catalogue, listing, sync, stockEdits>>

\* Save, with an id: a deleted row is inserted anew over itself.
SaveSecurity(status) ==
  /\ form # NoForm /\ StockEdit
  /\ LET filled == [form.copy EXCEPT !.status = status]
     IN  security' = [security EXCEPT ![form.code] = filled] /\ Say(form.code, filled)
  /\ form' = NoForm
  /\ UNCHANGED <<clash, listing, sync>>

CreateSecurity(s, q) ==
  /\ security[s] = Missing /\ s \notin clash /\ StockEdit
  /\ security' = [security EXCEPT ![s] =
       [state |-> "live", status |-> "enabled", quote |-> q]]
  /\ UNCHANGED <<clash, heldBack, listing, sync, form>>

\* Save, of a code that the source does not have with the symbol of one it has:
\* without a symbol the code stands for it.  And its correction.
EnterSymbol(s) ==
  /\ security[s] = Missing /\ StockEdit
  /\ clash' = (clash \ {s}) \cup ({s} \ clash)
  /\ UNCHANGED <<security, heldBack, listing, sync, form>>

ChangeLive(s, r) ==
  /\ security[s].state = "live" /\ StockEdit
  /\ security' = [security EXCEPT ![s] = r]
  /\ Say(s, r)
  /\ UNCHANGED <<clash, listing, sync, form>>

UpdateStockStatus(s, status) == ChangeLive(s, [security[s] EXCEPT !.status = status])
DeleteSecurity(s) == ChangeLive(s, [security[s] EXCEPT !.state = "deleted"])

MarketMoves(l) ==
  /\ StockEdit
  /\ listing' = l
  /\ UNCHANGED <<Catalogue, sync, form>>

-----------------------------------------------------------------------------
StockInit ==
  /\ security = [s \in Securities |-> Missing]
  /\ clash = {} /\ heldBack = {} /\ form = NoForm
  /\ listing \in Lists
  /\ sync = [j \in Syncs |-> NoSync]
  /\ stockEdits = 0

StockNext ==
  \/ \E j \in Syncs : \/ BeginSync(j) \/ SyncFails(j)
                      \/ \E n \in 1..MaxPages : ReadPage(j, n) \/ WritePage(j, n)
  \/ \E status \in {"enabled", "disabled"} : SaveSecurity(status)
  \/ \E s \in Securities :
       \/ OpenStockForm(s) \/ EnterSymbol(s) \/ DeleteSecurity(s)
       \/ \E q \in Quotes : CreateSecurity(s, q)
       \/ \E status \in {"enabled", "disabled"} : UpdateStockStatus(s, status)
  \/ \E l \in Lists : MarketMoves(l)

\* What the job does next, a failure included.
SyncStep ==
  \/ BeginSync(CronSync) \/ SyncFails(CronSync)
  \/ \E n \in 1..MaxPages : ReadPage(CronSync, n) \/ WritePage(CronSync, n)

\* The job is due every minute, and its waits have timeouts.
StockSpec == StockInit /\ [][StockNext]_stockVars /\ WF_stockVars(SyncStep)

-----------------------------------------------------------------------------
\* When the market rests and no one edits, the catalogue comes to have what the
\* source lists at its quotes, unless a symbol is taken, and no synchronisation
\* on the way, an old page included, put back for trade what an administrator
\* had withdrawn.
CatalogueSettles == <>[](
  /\ clash = {} =>
       \A n \in 1..MaxPages : n \in DOMAIN listing =>
         /\ security[listing[n].code] # Missing
         /\ security[listing[n].code].quote = listing[n].quote
  /\ \A s \in heldBack : security[s].state = "deleted" \/ security[s].status = "disabled")
=============================================================================
