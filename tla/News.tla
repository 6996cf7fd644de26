-------------------------------- MODULE News --------------------------------
(***************************************************************************)
(* The collection of news.  A collector takes the sources one by one,      *)
(* fetches what the source has and writes each item: over the row that has *)
(* the item's id at the source, its address or its story, or as a new row. *)
(* The cron job is one collector; administrators start others.             *)
(*                                                                         *)
(* An advisory lock of the data base is to keep two collectors from one    *)
(* source.  It belongs to the session, and a statement runs in whatever    *)
(* session the pool has at hand: a second collector in the same session is *)
(* let in, and a release in another session releases nothing.  A session   *)
(* that is closed gives up its locks.                                      *)
(*                                                                         *)
(* A row is named by the item it was made from, whose keys it keeps.  One  *)
(* of them is the hash of its title, its source and the ten minutes in     *)
(* which it was published; the dates here are counted in these.  An item   *)
(* may bring another date each time: a source changes it, or does not tell *)
(* it and it is the time of the fetch.                                     *)
(* Counters and what is only displayed are left out.                       *)
(***************************************************************************)
EXTENDS Naturals, FiniteSets

CONSTANTS
  Sources,
  FeedItems,     \* records [source, uid, url, story, dates]: a story is a title
  Window,        \* how far a date may be off for a row to be found by its hash
  Collectors, Cron,
  Sessions,
  MaxRetries,
  MaxCollections, MaxNewsEdits   \* bounds

ASSUME NewsAssumption ==
  /\ \A i \in FeedItems : i.source \in Sources /\ i.dates \subseteq Nat
  /\ Window \in Nat
  /\ "nowhere" \notin Sources
  /\ Cron \in Collectors /\ IsFiniteSet(Collectors)
  /\ MaxRetries \in Nat /\ MaxCollections \in Nat /\ MaxNewsEdits \in Nat

VARIABLES
  source,      \* the state of each source
  article,     \* the state of each row
  made,        \* the date that is in the hash of the row
  published,   \* the date it was last given
  relations,   \* how many times a row is related to its security
  held,        \* how many times a session holds the lock of a source
  collector,
  withdrawn,   \* rows an administrator hid or deleted and did not publish since
  unguarded,   \* sources whose lock let a second collector in, or was lost
  strayed,     \* rows that were given a date too far from the one in their hash
  crossed,     \* rows whose relations were last written by two at a time, or by halves
  collections, newsEdits

newsVars == <<source, article, made, published, relations, held, collector, withdrawn,
              unguarded, strayed, crossed, collections, newsEdits>>

Absent == [source |-> "nowhere"]
Resting == [at |-> "rest", source |-> "nowhere", queue |-> {}, todo |-> {}, row |-> Absent,
            item |-> Absent, date |-> 0, tries |-> 0]

Dates == {0} \cup UNION {i.dates : i \in FeedItems}

NewsTypeOK ==
  /\ source \in [Sources -> {"none", "enabled", "disabled", "deleted"}]
  /\ article \in [FeedItems -> {"none", "published", "hidden", "deleted"}]
  /\ made \in [FeedItems -> Dates] /\ published \in [FeedItems -> Dates]
  /\ relations \in [FeedItems -> 0..Cardinality(Collectors)]
  /\ held \in [Sessions -> [Sources -> Nat]]
  /\ collector \in [Collectors ->
       [at : {"rest", "next", "fetch", "items", "write", "written", "relate", "release"},
        source : Sources \cup {"nowhere"}, queue : SUBSET Sources, todo : SUBSET FeedItems,
        row : FeedItems \cup {Absent}, item : FeedItems \cup {Absent}, date : Dates,
        tries : 0..MaxRetries]]
  /\ strayed \subseteq FeedItems
  /\ withdrawn \subseteq FeedItems /\ unguarded \subseteq Sources /\ crossed \subseteq FeedItems
  /\ collections \in 0..MaxCollections /\ newsEdits \in 0..MaxNewsEdits

-----------------------------------------------------------------------------
LiveRows == {r \in FeedItems : article[r] \in {"published", "hidden"}}

\* A row is looked for up to six hours before and after a date.
Near(d, date) == d <= date + Window /\ date <= d + Window

\* What the app lists, shows and relates to a security.
VisibleRows == {r \in FeedItems : article[r] = "published"}

\* Between its lock and its release.
AtWork(s) == {k \in Collectors :
  collector[k].at \notin {"rest", "next"} /\ collector[k].source = s}

Advance(k, change) == collector' = [collector EXCEPT ![k] = change]

NextItem(k) == [collector[k] EXCEPT !.at = "items", !.todo = @ \ {collector[k].item},
                                    !.item = Absent, !.row = Absent, !.date = 0]

Administration == <<source, withdrawn, newsEdits>>
Dating == <<made, published, strayed>>

-----------------------------------------------------------------------------
(* One run *)

Collect(k, queue) ==
  /\ collector[k].at = "rest" /\ collections < MaxCollections
  /\ collections' = collections + 1
  /\ Advance(k, [Resting EXCEPT !.at = "next", !.queue = queue])
  /\ UNCHANGED <<article, Dating, relations, held, unguarded, crossed, Administration>>

\* The cron job and an administrator who names no source.
CollectEnabledSources(k) == Collect(k, {s \in Sources : source[s] = "enabled"})

CollectBySourceID(k, s) ==
  k # Cron /\ source[s] \in {"enabled", "disabled"} /\ Collect(k, {s})

EndCollection(k) ==
  /\ collector[k].at = "next" /\ collector[k].queue = {}
  /\ Advance(k, Resting)
  /\ UNCHANGED <<article, Dating, relations, held, unguarded, crossed, collections, Administration>>

\* Fault: whether somebody else holds the lock is not asked.
TrySourceLockAlways(k, s, c) ==
  LET lost == held[c][s] > 0 /\ AtWork(s) # {}
  IN /\ collector[k].at = "next" /\ s \in collector[k].queue
     /\ Advance(k, [collector[k] EXCEPT !.at = "fetch", !.source = s, !.queue = @ \ {s}])
     /\ held' = [held EXCEPT ![c][s] = @ + 1]
     /\ unguarded' = IF lost THEN unguarded \cup {s} ELSE unguarded
     /\ UNCHANGED <<article, Dating, relations, crossed, collections, Administration>>

\* A log row is made, and ended as skipped if another session has the lock.
TrySourceLock(k, s, c) ==
  LET locked == \A d \in Sessions \ {c} : held[d][s] = 0
      twice == locked /\ held[c][s] > 0 /\ AtWork(s) # {}
  IN /\ collector[k].at = "next" /\ s \in collector[k].queue
     /\ Advance(k, IF locked
                   THEN [collector[k] EXCEPT !.at = "fetch", !.source = s, !.queue = @ \ {s}]
                   ELSE [collector[k] EXCEPT !.queue = @ \ {s}])
     /\ held' = IF locked THEN [held EXCEPT ![c][s] = @ + 1] ELSE held
     /\ unguarded' = IF twice THEN unguarded \cup {s} ELSE unguarded
     /\ UNCHANGED <<article, Dating, relations, crossed, collections, Administration>>

\* The data base cannot be asked for the lock: the source is left for this time.
LockFails(k, s) ==
  /\ collector[k].at = "next" /\ s \in collector[k].queue
  /\ Advance(k, [collector[k] EXCEPT !.queue = @ \ {s}])
  /\ UNCHANGED <<article, Dating, relations, held, unguarded, crossed, collections, Administration>>

Writing == <<held, unguarded, collections, Administration>>

\* An item that the source does not bring is as one that cannot be written.
FetchItems(k) ==
  LET items == {i \in FeedItems : i.source = collector[k].source}
  IN /\ collector[k].at = "fetch"
     /\ Advance(k, [collector[k] EXCEPT !.at = "items", !.todo = items, !.tries = 0])
     /\ UNCHANGED <<article, Dating, relations, crossed, Writing>>

\* Fault: the attempts are counted from the start again.
FetchForEver(k, retryable) ==
  /\ collector[k].at = "fetch"
  /\ Advance(k, IF retryable THEN [collector[k] EXCEPT !.tries = (@ + 1) % (MaxRetries + 1)]
                ELSE [collector[k] EXCEPT !.at = "release", !.tries = 0])
  /\ UNCHANGED <<article, Dating, relations, crossed, Writing>>

\* An error that may pass is met by another attempt, MaxRetries times.
FetchFails(k, retryable) ==
  /\ collector[k].at = "fetch"
  /\ Advance(k, IF retryable /\ collector[k].tries < MaxRetries
                THEN [collector[k] EXCEPT !.tries = @ + 1]
                ELSE [collector[k] EXCEPT !.at = "release", !.tries = 0])
  /\ UNCHANGED <<article, Dating, relations, crossed, Writing>>

-----------------------------------------------------------------------------
(* One item: upsertNormalized *)

\* The row an item belongs to, which its id at the source tells before its
\* address and its address before its title, its source and its date: the row has
\* to be made in the same ten minutes and still have a date near them.
Existing(i, date) ==
  LET byId == {r \in LiveRows : r.source = i.source /\ r.uid = i.uid}
      byUrl == {r \in LiveRows : r.url = i.url}
      byHash == {r \in LiveRows : /\ r.source = i.source /\ r.story = i.story /\ made[r] = date
                                  /\ Near(published[r], date)}
      of(S) == CHOOSE r \in S : TRUE
  IN IF byId # {} THEN of(byId)
     ELSE IF byUrl # {} THEN of(byUrl)
     ELSE IF byHash # {} THEN of(byHash)
     ELSE Absent

FindExisting(k, i, date) ==
  /\ collector[k].at = "items" /\ i \in collector[k].todo /\ date \in i.dates
  /\ Advance(k, [collector[k] EXCEPT !.at = "write", !.item = i, !.date = date,
                                     !.row = Existing(i, date)])
  /\ UNCHANGED <<article, Dating, relations, crossed, Writing>>

\* Fault: what the source has is published again.
UpdateExistingPublished(k) ==
  LET r == collector[k].row
      date == collector[k].date
  IN /\ collector[k].at = "write" /\ r # Absent
     /\ article' = IF r \in LiveRows THEN [article EXCEPT ![r] = "published"] ELSE article
     /\ published' = [published EXCEPT ![r] = date]
     /\ strayed' = IF Near(date, made[r]) THEN strayed ELSE strayed \cup {r}
     /\ Advance(k, [collector[k] EXCEPT !.at = "written", !.date = 0])
     /\ UNCHANGED <<made, relations, crossed, Writing>>

\* The text and the date are written, but neither the title nor the hash nor the
\* status, and nothing to a row that was deleted meanwhile.
UpdateExisting(k) ==
  LET r == collector[k].row
      date == collector[k].date
  IN /\ collector[k].at = "write" /\ r # Absent
     /\ IF r \in LiveRows
        THEN /\ published' = [published EXCEPT ![r] = date]
             /\ strayed' = IF Near(date, made[r]) THEN strayed ELSE strayed \cup {r}
        ELSE UNCHANGED <<published, strayed>>
     /\ Advance(k, [collector[k] EXCEPT !.at = "written", !.date = 0])
     /\ UNCHANGED <<article, made, relations, crossed, Writing>>

\* Deleted rows keep their keys: the unique indexes refuse an item that meets
\* them, which is counted and is no error.
CreateArticle(k) ==
  LET i == collector[k].item
      date == collector[k].date
      free == \A r \in FeedItems : article[r] # "none" => r.uid # i.uid /\ r.url # i.url
  IN /\ collector[k].at = "write" /\ collector[k].row = Absent
     /\ IF free
        THEN /\ article' = [article EXCEPT ![i] = "published"]
             /\ made' = [made EXCEPT ![i] = date]
             /\ published' = [published EXCEPT ![i] = date]
             /\ Advance(k, [collector[k] EXCEPT !.at = "written", !.row = i, !.date = 0])
        ELSE UNCHANGED <<article, made, published>> /\ Advance(k, NextItem(k))
     /\ UNCHANGED <<strayed, relations, crossed, Writing>>

\* Fault: the relations from the last time are kept.
KeepRelations(k) ==
  LET r == collector[k].row
      others == {j \in Collectors \ {k} : collector[j].at = "relate" /\ collector[j].row = r}
  IN /\ collector[k].at = "written"
     /\ crossed' = IF others = {} THEN crossed \ {r} ELSE crossed \cup {r}
     /\ Advance(k, [collector[k] EXCEPT !.at = "relate"])
     /\ UNCHANGED <<article, Dating, relations, Writing>>

\* syncRelations deletes and inserts, and has no transaction around it.
DropRelations(k) ==
  LET r == collector[k].row
      others == {j \in Collectors \ {k} : collector[j].at = "relate" /\ collector[j].row = r}
  IN /\ collector[k].at = "written"
     /\ relations' = [relations EXCEPT ![r] = 0]
     /\ crossed' = IF others = {} THEN crossed \ {r} ELSE crossed \cup {r}
     /\ Advance(k, [collector[k] EXCEPT !.at = "relate"])
     /\ UNCHANGED <<article, Dating, Writing>>

AddRelations(k) ==
  /\ collector[k].at = "relate"
  /\ relations' = [relations EXCEPT ![collector[k].row] = @ + 1]
  /\ Advance(k, NextItem(k))
  /\ UNCHANGED <<article, Dating, crossed, Writing>>

\* An item with an error is left where it is and the next one taken.
ItemFails(k) ==
  /\ collector[k].at \in {"write", "written", "relate"}
  /\ crossed' = IF collector[k].at = "write" THEN crossed ELSE crossed \cup {collector[k].row}
  /\ Advance(k, NextItem(k))
  /\ UNCHANGED <<article, Dating, relations, Writing>>

FinishSource(k) ==
  /\ collector[k].at = "items" /\ collector[k].todo = {}
  /\ Advance(k, [collector[k] EXCEPT !.at = "release"])
  /\ UNCHANGED <<article, Dating, relations, crossed, Writing>>

ReleaseSourceLock(k, c) ==
  LET s == collector[k].source
  IN /\ collector[k].at = "release"
     /\ held' = IF held[c][s] > 0 THEN [held EXCEPT ![c][s] = @ - 1] ELSE held
     /\ Advance(k, [Resting EXCEPT !.at = "next", !.queue = collector[k].queue])
     /\ UNCHANGED <<article, Dating, relations, crossed, unguarded, collections, Administration>>

-----------------------------------------------------------------------------
(* Around it *)

\* A session is closed: it is an hour old or the pool has idle ones to spare.
CloseSession(c) ==
  LET lost == {s \in Sources : held[c][s] > 0}
  IN /\ lost # {}
     /\ held' = [held EXCEPT ![c] = [s \in Sources |-> 0]]
     /\ unguarded' = unguarded \cup {s \in lost : AtWork(s) # {}}
     /\ UNCHANGED <<article, Dating, relations, crossed, collector, collections, Administration>>

\* The process ends, and with it every session.
KillServer ==
  /\ \E k \in Collectors : collector[k] # Resting
  /\ crossed' = crossed \cup {collector[k].row :
       k \in {j \in Collectors : collector[j].at \in {"written", "relate"}}}
  /\ collector' = [k \in Collectors |-> Resting]
  /\ held' = [c \in Sessions |-> [s \in Sources |-> 0]]
  /\ UNCHANGED <<article, Dating, relations, unguarded, collections, Administration>>

NewsEdit ==
  /\ newsEdits < MaxNewsEdits /\ newsEdits' = newsEdits + 1
  /\ UNCHANGED <<Dating, relations, held, collector, unguarded, crossed, collections>>

UpdateNews(r, status) ==
  /\ NewsEdit
  /\ r \in LiveRows
  /\ article' = [article EXCEPT ![r] = status]
  /\ withdrawn' = IF status = "hidden" THEN withdrawn \cup {r} ELSE withdrawn \ {r}
  /\ UNCHANGED source

DeleteNews(r) ==
  /\ NewsEdit
  /\ r \in LiveRows
  /\ article' = [article EXCEPT ![r] = "deleted"]
  /\ withdrawn' = withdrawn \cup {r}
  /\ UNCHANGED source

\* The name of a deleted source cannot be given again.
SaveSource(s, state) ==
  /\ NewsEdit
  /\ source[s] # "deleted" /\ (source[s] = "none" => state # "deleted")
  /\ source' = [source EXCEPT ![s] = state]
  /\ UNCHANGED <<article, withdrawn>>

-----------------------------------------------------------------------------
NewsInit ==
  /\ source = [s \in Sources |-> "enabled"]
  /\ article = [i \in FeedItems |-> "none"]
  /\ made = [i \in FeedItems |-> 0] /\ published = [i \in FeedItems |-> 0]
  /\ relations = [i \in FeedItems |-> 0]
  /\ held = [c \in Sessions |-> [s \in Sources |-> 0]]
  /\ collector = [k \in Collectors |-> Resting]
  /\ withdrawn = {} /\ unguarded = {} /\ strayed = {} /\ crossed = {}
  /\ collections = 0 /\ newsEdits = 0

CollectorStep(k) ==
  \/ EndCollection(k) \/ FinishSource(k)
  \/ \E s \in Sources : LockFails(k, s) \/ \E c \in Sessions : TrySourceLock(k, s, c)
  \/ FetchItems(k)
  \/ \E retryable \in BOOLEAN : FetchFails(k, retryable)
  \/ \E i \in FeedItems, date \in Dates : FindExisting(k, i, date)
  \/ UpdateExisting(k) \/ CreateArticle(k) \/ DropRelations(k) \/ AddRelations(k)
  \/ ItemFails(k)
  \/ \E c \in Sessions : ReleaseSourceLock(k, c)

NewsNext ==
  \/ \E k \in Collectors :
       \/ CollectorStep(k)
       \/ CollectEnabledSources(k)
       \/ \E s \in Sources : CollectBySourceID(k, s)
  \/ \E c \in Sessions : CloseSession(c)
  \/ KillServer
  \/ \E r \in FeedItems : DeleteNews(r) \/ \E status \in {"published", "hidden"} : UpdateNews(r, status)
  \/ \E s \in Sources, state \in {"enabled", "disabled", "deleted"} : SaveSource(s, state)

\* The cron job goes on: its waits all have timeouts.  No other collector has to.
NewsFairness == WF_newsVars(CollectorStep(Cron))

NewsSpec == NewsInit /\ [][NewsNext]_newsVars /\ NewsFairness

-----------------------------------------------------------------------------
\* As long as the lock of a source lets one collector in at a time, a story that
\* the source has under two ids and addresses with dates in the same ten minutes has
\* one row: no index guards the hash, only the look for it.  It is not found, and
\* has another row, when the row was deleted or was given a date too far away since.
OneRowPerStory == \A r, q \in LiveRows \ strayed :
  r.source = q.source /\ r.story = q.story /\ made[r] = made[q] /\ r.source \notin unguarded =>
    r = q

\* What an administrator withdrew stays away, under its id and its address, from
\* whatever source and collector it comes again.
WithdrawnStaysAway == \A r \in withdrawn, q \in VisibleRows :
  r.uid # q.uid /\ r.url # q.url

\* Once an article is written it is related to its security exactly once, or the
\* list of the security would have it twice or not at all, unless two collectors
\* wrote its relations at a time or one of them stopped between its statements.
RelationsExact == \A r \in FeedItems \ crossed :
  article[r] # "none" /\ (\A k \in Collectors :
    collector[k].row = r => collector[k].at \notin {"written", "relate"}) =>
  relations[r] = 1

\* A run of the cron job comes to its end whatever the sources answer and the other
\* collectors do: no source is tried for ever.  While it lasts the job is skipped.
CronRunEnds == []<>(collector[Cron] = Resting)
=============================================================================
