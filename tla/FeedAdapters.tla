----------------------------- MODULE FeedAdapters -----------------------------
(***************************************************************************)
(* The adapters of RSS and Atom feeds of src/crates/ingestion: rss, arxiv, *)
(* youtube and podcast, and the two that fetch no list, web and static.    *)
(* An entry has an id (which may be Blank), a title, a summary, a content, *)
(* the first of its links and the first whose relation is "alternate", and *)
(* the times it was published and updated.  Podcasts are not transcribed:  *)
(* nothing calls with_asr.                                                 *)
(***************************************************************************)
EXTENDS Normalizer

EntryTime(e) == Or(e.published, e.updated)
AlternateLink(e) == Or(e.alternate, e.link)

RssInput(e) ==
    DocumentInput(IF IsEmpty(e.id) THEN Or(e.link, <<Or(e.title, Blank)>>) ELSE <<e.id>>, e.link,
                  <<Or(Or(e.content, e.summary), Or(e.title, Blank))>>, EntryTime(e))
RssPoll(entries, cursor) == PollItems(RssInput, entries, cursor)
RssFetchOne(entries, id) ==
    FindPolled(RssPoll(entries, None), LAMBDA d : d.id = id \/ d.url = id)

ArxivInput(e) ==
    DocumentInput(IF IsEmpty(e.id) THEN Or(AlternateLink(e), <<Or(e.title, Blank)>>) ELSE <<e.id>>,
                  AlternateLink(e), <<Or(e.content, Or(e.summary, Or(e.title, Blank)))>>, EntryTime(e))
ArxivPoll(entries, cursor) == PollItems(ArxivInput, entries, cursor)
ArxivFetchOne(entries, id) ==
    FindPolled(ArxivPoll(entries, None), LAMBDA d : d.id = id \/ d.url = id)

YouTubeInput(e) ==
    LET content == Or(e.content, Or(e.summary, Blank))
    IN  DocumentInput(<<e.id>>, AlternateLink(e),
                      <<IF IsEmpty(content) THEN Or(e.title, Blank) ELSE content>>, EntryTime(e))
YouTubePoll(entries, cursor) == PollItems(YouTubeInput, entries, cursor)
YouTubeFetchOne(entries, id) ==
    FindPolled(YouTubePoll(entries, None), LAMBDA d : d.id = id \/ d.url = id)

PodcastInput(e) ==
    LET summary == Or(e.summary, Blank)
        content == Or(e.content, summary)
    IN  DocumentInput(<<e.id>>, e.link, <<IF IsEmpty(content) THEN summary ELSE content>>, EntryTime(e))
PodcastPoll(entries, cursor) == PollItems(PodcastInput, entries, cursor)
PodcastFetchOne(entries, id) == FindPolled(PodcastPoll(entries, None), LAMBDA d : d.id = id)

(* The page as it is now, whatever the cursor: published now.              *)
WebPoll(url, text, now) == Polled(<<DocumentInput(url, url, <<text>>, now)>>)

(* The text a static source was registered with.                           *)
StaticPoll(text, now) ==
    LET result == Polled(<<DocumentInput(<<"fixture-1">>, None, <<text>>, None)>>)
    IN  IF result.ok THEN [result EXCEPT !.cursor = now] ELSE Failed
===============================================================================
