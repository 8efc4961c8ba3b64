------------------------------ MODULE ApiAdapters ------------------------------
(***************************************************************************)
(* The adapters of JSON services of src/crates/ingestion: github,          *)
(* github_releases, hacker_news, reddit and sec_edgar.  Every field of an  *)
(* item may be absent; a field that is only a part of the body stands for  *)
(* the sentence made of it.                                                *)
(***************************************************************************)
EXTENDS Normalizer

(* GitHub events: an event's url is that of its repository.                *)
GithubId(e) == <<Or(e.id, Unknown)>>
GithubBody(e) ==
    LET parts == Given(<<e.type, Or(e.login, e.display_login), e.full_name>> \o e.payload)
    IN  IF parts = <<>> THEN GithubId(e) ELSE parts
GithubUrl(e) ==
    IF e.repo_url # None \/ e.full_name = None THEN e.repo_url ELSE <<"github.com", e.full_name>>
GithubInput(e) == DocumentInput(GithubId(e), GithubUrl(e), GithubBody(e), e.created_at)
GithubPoll(items, cursor) == PollItems(GithubInput, items, cursor)
GithubFetchOne(items, id) == FindItem(GithubInput, items, LAMBDA e : GithubId(e) = id)

ReleaseId(r) == <<Or(r.tag_name, Or(r.id, Unknown))>>
ReleaseBody(r) ==
    LET name  == IF r.name = Or(r.tag_name, Blank) THEN None ELSE r.name
        notes == IF r.body # None /\ IsEmpty(r.body) THEN None ELSE r.body
        parts == Given(<<r.tag_name, name, r.author, r.draft, r.prerelease, notes>> \o r.assets)
    IN  IF parts = <<>> THEN <<Or(r.id, Unknown)>> ELSE parts
ReleaseInput(r) ==
    DocumentInput(ReleaseId(r), r.html_url, ReleaseBody(r), Or(r.published_at, r.created_at))
ReleasesPoll(items, cursor) == PollItems(ReleaseInput, items, cursor)
ReleasesFetchOne(items, id) == FindItem(ReleaseInput, items, LAMBDA r : ReleaseId(r) = id)

(* Hacker News: a story without a link has the url of its own page.        *)
HitId(h) == <<Or(h.object_id, Or(h.story_id, Unknown))>>
HitBody(h) ==
    LET parts == Given(<<Or(h.story_title, h.title), Or(h.story_text, h.comment_text), h.points,
                         h.num_comments>>)
    IN  IF parts = <<>> THEN Given(<<Or(h.story_id, Or(h.object_id, Unknown)), h.author>>) ELSE parts
HitUrl(h) ==
    LET page == Or(h.story_id, h.object_id)
    IN  Or(h.story_url, Or(h.url, IF page = None THEN None ELSE <<"news.ycombinator.com", page>>))
HitInput(h) == DocumentInput(HitId(h), HitUrl(h), HitBody(h), Or(h.created_at, h.created_at_unix))
HackerNewsPoll(items, cursor) == PollItems(HitInput, items, cursor)
HackerNewsFetchOne(items, id) ==
    FindItem(HitInput, items, LAMBDA h : HitId(h) = id \/ <<h.story_id>> = id)

(* Reddit: a child of the listing may have no post.                        *)
PostBody(p) ==
    LET text  == IF p.selftext # None /\ IsEmpty(p.selftext) THEN None ELSE p.selftext
        parts == Given(<<p.title, text, p.score, p.num_comments, p.flair>>)
    IN  IF parts = <<>> THEN Given(<<Or(p.id, Unknown), p.author>>) ELSE parts
PostInput(p) ==
    DocumentInput(<<Or(p.id, Unknown)>>,
                  IF p.permalink = None THEN p.url ELSE <<"reddit.com", p.permalink>>,
                  PostBody(p), p.created_utc)
RedditPoll(children, cursor) == PollItems(PostInput, Given(children), cursor)
RedditFetchOne(children, id) == FindItem(PostInput, Given(children), LAMBDA p : <<p.id>> = id)

(* SEC EDGAR: a filing's url is the list of the filings of its form, and   *)
(* its time the day it was filed, which the sentence filed names.          *)
FilingForm(f) == Or(f.form_type, Blank)
FilingCompany(f) ==
    IF f.display_names = None THEN f.entity_name
    ELSE IF f.display_names = <<>> THEN None ELSE Head(f.display_names)
FilingBody(f) ==
    LET parts == Given(<<f.form_type, FilingCompany(f), f.filed, f.period, f.items>>)
    IN  IF parts = <<>> THEN <<Or(f.id, Unknown)>> ELSE parts
FilingInput(f) ==
    DocumentInput(<<Or(f.id, Unknown)>>, <<"sec.gov", FilingForm(f), "count=40">>, FilingBody(f), f.file_date)
SecEdgarPoll(items, cursor) == PollItems(FilingInput, items, cursor)
SecEdgarFetchOne(items, id) ==
    FindItem(LAMBDA f : [FilingInput(f) EXCEPT !.url = <<"sec.gov", FilingForm(f)>>], items,
             LAMBDA f : <<Or(f.id, Unknown)>> = id)
===============================================================================
