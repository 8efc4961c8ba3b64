------------------------------ MODULE Ingestion ------------------------------
(***************************************************************************)
(* Documents on their way in (src/crates/ingestion, DocumentArchive of     *)
(* src/crates/store and the trigger route): a poll asks a source for its   *)
(* documents and, one after the other, saves each in the archive and       *)
(* announces it on the bus.  The worker polls its own list of sources      *)
(* without end; a trigger polls the registered source of a name.  Polls    *)
(* run beside each other and beside changes of the registry.               *)
(*                                                                         *)
(* A source shows the Window newest of the items it has published so far.  *)
(* The archive is the sequence of the files on disk in the order they were *)
(* written: a file appears in one step, by its rename, but it may be cut   *)
(* short without an error.  Of the files with one content hash the archive *)
(* lists only the first in the order of their paths, and it lists nothing  *)
(* when one of its files cannot be read.  Documents that are announced are *)
(* kept as a set.                                                          *)
(***************************************************************************)
EXTENDS SourceRegistry, FeedAdapters, ApiAdapters

CONSTANTS Items,           \* Items[u]: all that is ever published at u, oldest first
          Serves,          \* Serves[u]: the adapter types that can read what is published at u
          Window,
          RepoUrls,        \* the urls that look like a GitHub repository's
          HackerNewsUrl, SecEdgarUrl,
          WorkerSources,   \* the sequence of sources the daemon always polls
          Worker, Triggers, Now

Pollers == {Worker} \cup Triggers

ASSUME IngestionAssumption ==
    /\ Worker \notin Triggers /\ Window \in Nat \ {0}
    /\ \A u \in DOMAIN Items : Items[u] \in Seq(ToSet(Items[u]))
    /\ WorkerSources \in Seq(ToSet(WorkerSources)) \ {<<>>}
    /\ \A s \in ToSet(WorkerSources) : s.type \in SourceType

VARIABLES shown,      \* how many of the items of each url are published
          poll,       \* per poller: its step, its source and the documents it has still to save
          round,      \* the source of WorkerSources the worker has come to
          archive,    \* the files on disk, each with the poller that wrote it
          listed,     \* those of them list_documents gives, by their place in archive
          announced   \* the documents of the ingestion.document.received events

pollVars == <<shown, poll, round, archive, listed, announced>>
ingestionVars == <<registryVars, pollVars>>

Resting == [step |-> "idle", source |-> None, left |-> <<>>]

IngestionTypeOK ==
    /\ RegistryTypeOK
    /\ \A u \in DOMAIN Items : shown[u] \in 0..Len(Items[u])
    /\ \A p \in Pollers :
        /\ poll[p].step \in {"idle", "fetching", "looking", "writing", "announcing"}
        /\ poll[p].step = "fetching" => poll[p].source \in Source \cup ToSet(WorkerSources)
        /\ (poll[p].left = <<>>) = (poll[p].step \in {"idle", "fetching"})
    /\ round \in 1..Len(WorkerSources)
    /\ \A k \in DOMAIN archive : archive[k].by \in Pollers /\ archive[k].whole \in BOOLEAN
    /\ listed \subseteq DOMAIN archive

IngestionInit ==
    /\ RegistryInit
    /\ shown = [u \in DOMAIN Items |-> 0]
    /\ poll = [p \in Pollers |-> Resting]
    /\ round = 1 /\ archive = <<>> /\ listed = {} /\ announced = {}

-----------------------------------------------------------------------------
(* Something new is published at a url.                                    *)
Upstream(u) ==
    /\ shown[u] < Len(Items[u])
    /\ shown' = [shown EXCEPT ![u] = @ + 1]
    /\ UNCHANGED <<registryVars, poll, round, archive, listed, announced>>

(* What is shown at u when n items are published.                          *)
Feed(u, n) == SubSeq(Items[u], IF n > Window THEN n - Window + 1 ELSE 1, n)

(* SourceRegistry::spawn_adapter makes an adapter of the source.           *)
Spawns(s) == CASE s.type = "github"          -> s.url # None
               [] s.type = "github_releases" -> s.url \in RepoUrls
               [] OTHER                      -> TRUE

(* The adapter's validate: most need a target.                             *)
Validates(s) == s.type \in {"hackernews", "sec_edgar", "static"} \/ s.url # None

Endpoint(s) == CASE s.type = "hackernews" -> HackerNewsUrl
                 [] s.type = "sec_edgar"  -> SecEdgarUrl
                 [] OTHER                 -> s.url

ParsePoll(type, items, cursor) ==
    CASE type = "rss"             -> RssPoll(items, cursor)
      [] type = "reddit"          -> RedditPoll(items, cursor)
      [] type = "youtube"         -> YouTubePoll(items, cursor)
      [] type = "hackernews"      -> HackerNewsPoll(items, cursor)
      [] type = "arxiv"           -> ArxivPoll(items, cursor)
      [] type = "podcast"         -> PodcastPoll(items, cursor)
      [] type = "github"          -> GithubPoll(items, cursor)
      [] type = "github_releases" -> ReleasesPoll(items, cursor)
      [] type = "sec_edgar"       -> SecEdgarPoll(items, cursor)

(* Something can be read there that the adapter of the source understands. *)
Answers(s, n) ==
    /\ Endpoint(s) \in DOMAIN Items
    /\ s.type \in Serves[Endpoint(s)] /\ Feed(Endpoint(s), n) # <<>>

(* The adapter's poll, without a cursor, for nobody keeps one: what comes  *)
(* of it when n items are published at the endpoint of the source.         *)
PollAt(s, n) ==
    IF s.type = "static" THEN StaticPoll(IF s.url = None THEN Blank ELSE Head(s.url), Now)
    ELSE IF ~Answers(s, n) THEN Failed
    ELSE IF s.type = "web" THEN WebPoll(s.url, Last(Feed(s.url, n)), Now)
    ELSE ParsePoll(s.type, Feed(Endpoint(s), n), None)

(* The same as a table, which is worked out only once.                     *)
Published(s, n) == IF Endpoint(s) \in DOMAIN n THEN n[Endpoint(s)] ELSE 0
Outcomes ==
    UNION {{[source |-> s, at |-> n, result |-> PollAt(s, n)] :
                n \in 0..Published(s, [u \in DOMAIN Items |-> Len(Items[u])])} :
           s \in Source \cup ToSet(WorkerSources)}
PollOf(s) == (CHOOSE o \in Outcomes : o.source = s /\ o.at = Published(s, shown)).result

(* save_document takes two documents for one.                              *)
SameDocument(d, e) == d.body = e.body \/ d.url = e.url

(* The poll is over: the worker goes on to the next of its sources.        *)
EndPoll(p) ==
    /\ poll' = [poll EXCEPT ![p] = Resting]
    /\ round' = IF p = Worker THEN (round % Len(WorkerSources)) + 1 ELSE round

Begin(p, s) == poll' = [poll EXCEPT ![p] = [Resting EXCEPT !.step = "fetching", !.source = s]]

(* run_ingestion: the worker's next source.                                *)
NextSource ==
    /\ poll[Worker] = Resting
    /\ Begin(Worker, WorkerSources[round])
    /\ UNCHANGED <<registryVars, shown, round, archive, listed, announced>>

(* trigger_source: a source that is registered, enabled and makes an       *)
(* adapter.  What happens to the registration later does not matter.       *)
Trigger(p) ==
    /\ p \in Triggers /\ poll[p] = Resting
    /\ \E n \in Names : /\ sources[n] # None
                        /\ sources[n].enabled /\ Spawns(sources[n])
                        /\ Begin(p, sources[n])
    /\ UNCHANGED <<registryVars, shown, round, archive, listed, announced>>

(* poll_source, poll_adapter: validate and poll; any error ends it.        *)
Fetch(p) ==
    /\ poll[p].step = "fetching"
    /\ LET result == IF Validates(poll[p].source) THEN PollOf(poll[p].source) ELSE Failed
       IN  \/ /\ result.documents # <<>>
              /\ poll' = [poll EXCEPT ![p] = [step |-> "looking", source |-> None,
                                                  left |-> result.documents]]
              /\ UNCHANGED <<round, faults>>
           \/ result.documents = <<>> /\ EndPoll(p) /\ UNCHANGED faults
           \/ Fault /\ EndPoll(p)
    /\ UNCHANGED <<sources, file, request, alone, doubtful, changes, shown, archive, listed, announced>>

(* A file that cannot be read: save_document and list_documents fail.      *)
Broken == \E k \in DOMAIN archive : ~archive[k].whole

IsListed(d) == \E k \in listed : SameDocument(d, archive[k])

(* Mutant: only the content is compared.                                   *)
Look_HashOnly(p) ==
    /\ poll[p].step = "looking" /\ ~Broken
    /\ poll' = [poll EXCEPT ![p].step = IF \E k \in listed : Head(poll[p].left).body = archive[k].body
                                        THEN "announcing" ELSE "writing"]
    /\ UNCHANGED <<registryVars, shown, round, archive, listed, announced>>

(* save_document reads the archive; a document that is listed already is   *)
(* not written again, and that is a success.  A file that cannot be read   *)
(* ends the poll.                                                          *)
Look(p) ==
    /\ poll[p].step = "looking"
    /\ \/ /\ ~Broken
          /\ poll' = [poll EXCEPT ![p].step = IF IsListed(Head(poll[p].left)) THEN "announcing"
                                              ELSE "writing"]
          /\ UNCHANGED <<round, faults>>
       \/ Broken /\ EndPoll(p) /\ UNCHANGED faults
       \/ Fault /\ EndPoll(p)
    /\ UNCHANGED <<sources, file, request, alone, doubtful, changes, shown, archive, listed, announced>>

(* A file: what the document is found by, who wrote it and whether it can  *)
(* be read.                                                                *)
Written(p, d, whole) == [by |-> p, url |-> d.url, body |-> d.body, whole |-> whole]

(* The file of a document is new in the archive.  Its path is made of the  *)
(* id the document got when it was fetched, so it comes before or behind   *)
(* the files with the same hash.                                           *)
NewFile(p, d) ==
    LET same == {k \in listed : archive[k].body = d.body}
    IN  /\ archive' = Append(archive, Written(p, d, TRUE))
        /\ \/ listed' = (listed \ same) \cup {Len(archive) + 1}
           \/ same # {} /\ UNCHANGED listed

(* Mutant: a write that failed does not end the poll.                      *)
WriteDocument_Ignores(p) ==
    /\ poll[p].step = "writing"
    /\ poll' = [poll EXCEPT ![p].step = "announcing"]
    /\ \/ NewFile(p, Head(poll[p].left)) /\ UNCHANGED faults
       \/ Fault /\ UNCHANGED <<archive, listed>>
    /\ UNCHANGED <<sources, file, request, alone, doubtful, changes, shown, round, announced>>

(* Mutant: the file is not renamed to what it is looked for as.            *)
WriteDocument_NoRename(p) ==
    /\ poll[p].step = "writing"
    /\ poll' = [poll EXCEPT ![p].step = "announcing"]
    /\ UNCHANGED <<registryVars, shown, round, archive, listed, announced>>

(* write_document, under no lock: another poll may have written the same   *)
(* document since this one looked.  What is still in the buffers of the    *)
(* encoder is written when it is dropped, and an error there is lost: the  *)
(* file is renamed as it is.                                               *)
WriteDocument(p) ==
    /\ poll[p].step = "writing"
    /\ \/ /\ NewFile(p, Head(poll[p].left))
          /\ poll' = [poll EXCEPT ![p].step = "announcing"]
          /\ UNCHANGED <<round, faults>>
       \/ /\ Fault
          /\ archive' = Append(archive, Written(p, Head(poll[p].left), FALSE))
          /\ poll' = [poll EXCEPT ![p].step = "announcing"]
          /\ UNCHANGED <<round, listed>>
       \/ Fault /\ EndPoll(p) /\ UNCHANGED <<archive, listed>>
    /\ UNCHANGED <<sources, file, request, alone, doubtful, changes, shown, announced>>

(* The document is announced, whether it was written or not; then the next *)
(* one.  A bus that refuses ends the poll.                                 *)
Announce(p) ==
    /\ poll[p].step = "announcing"
    /\ \/ /\ announced' = announced \cup {Head(poll[p].left)}
          /\ IF Len(poll[p].left) = 1 THEN EndPoll(p)
             ELSE /\ poll' = [poll EXCEPT ![p].step = "looking", ![p].left = Tail(@)]
                  /\ UNCHANGED round
          /\ UNCHANGED faults
       \/ Fault /\ EndPoll(p) /\ UNCHANGED announced
    /\ UNCHANGED <<sources, file, request, alone, doubtful, changes, shown, archive, listed>>

(* The process ends and starts again: the files are what is left.          *)
IngestionRestart ==
    /\ RegistryRestart
    /\ poll' = [p \in Pollers |-> Resting] /\ round' = 1
    /\ UNCHANGED <<shown, archive, listed, announced>>

PollStep(p) ==
    \/ p = Worker /\ NextSource
    \/ Fetch(p) \/ Look(p) \/ WriteDocument(p) \/ Announce(p)

IngestionNext ==
    \/ \E u \in DOMAIN Items : Upstream(u)
    \/ \E c \in Clients : RegistryStep(c) /\ UNCHANGED pollVars
    \/ \E p \in Triggers : Trigger(p)
    \/ \E p \in Pollers : PollStep(p)
    \/ IngestionRestart

IngestionSpec == IngestionInit /\ [][IngestionNext]_ingestionVars

(* The worker polls again and again, and its polls come to an end.         *)
FairSpec == IngestionSpec /\ WF_ingestionVars(PollStep(Worker))

-----------------------------------------------------------------------------
(* What is announced can be read from disk, the document itself or one     *)
(* save_document took for it; or its own file is there and was cut short,  *)
(* without an error, when it was written.                                  *)
CanBeRead(d) == \E k \in DOMAIN archive : archive[k].whole /\ SameDocument(d, archive[k])
CutShort(d) ==
    \E k \in DOMAIN archive : ~archive[k].whole /\ archive[k].url = d.url /\ archive[k].body = d.body
AnnouncedIsArchived == \A d \in announced : CanBeRead(d) \/ CutShort(d)

(* No poller ever writes a body twice, and one with the url of a file it   *)
(* wrote before only when that file was hidden by then, behind another     *)
(* poller's with the same hash.  All other copies come from polls that run *)
(* beside each other, because save_document looks and writes in two steps. *)
OneCopyPerPoller ==
    \A i, j \in DOMAIN archive :
        i < j /\ archive[i].by = archive[j].by =>
            /\ archive[i].body # archive[j].body
            /\ archive[i].url = archive[j].url => i \notin listed

(* What a source of the worker shows is listed sooner or later, as long as *)
(* none of what it shows is too short, unless a file that was cut short    *)
(* has made the archive unreadable.                                        *)
Missing ==
    \E k \in DOMAIN WorkerSources :
        \E d \in ToSet(PollOf(WorkerSources[k]).documents) : ~IsListed(d)
NewsIsArchived == Missing ~> (~Missing \/ Broken)
===============================================================================
