---------------------------- MODULE ConsolePages ----------------------------
(***************************************************************************)
(* One page of the console that shows what the API keeps, from its mount   *)
(* to its unmount: it loads at once, after what its user does, when a      *)
(* realtime frame's debounce is over and, where it polls, every 30 s.      *)
(* What is shown is a version of the data, which others change too.        *)
(* Requests are answered in any order.                                     *)
(***************************************************************************)
EXTENDS Integers, FiniteSets

CONSTANTS
    Kinds,          \* pages: of AllKinds
    Loads,          \* GETs under way at once
    Posts,          \* POSTs under way at once
    MaxVersion,     \* bound: changes of the data
    MaxPageFaults   \* bound: requests that fail and frames that are lost

AllKinds == {"dashboard", "tickets", "incidents", "hosts", "agents", "ticket", "incident", "host"}

ASSUME PagesAssumption ==
    /\ Kinds \subseteq AllKinds
    /\ {MaxVersion, MaxPageFaults} \subseteq Nat

VARIABLES
    kind,         \* which page it is
    version,      \* of the data, in the database
    page,         \* its state: what it shows, loading, busy, posting, reloadTimer
    loads,        \* GETs under way
    posts,        \* POSTs under way
    frames,       \* a frame is on its way to the page
    pageFaults    \* history: what failed or was lost

pageVars == <<kind, version, page, loads, posts, frames, pageFaults>>

NotYet == 0
NoLoad == [at |-> "free", version |-> NotYet, for |-> "load"]
NoPost == [at |-> "free", version |-> NotYet, for |-> "act", ok |-> TRUE]
\* The pages that poll and listen.
Listens == kind \in {"dashboard", "tickets"}
\* A skeleton stands for the page while it loads.
Hides == kind \in {"ticket", "incident", "host"}
\* An error stands for what was shown.
ErrorHides == kind \notin {"dashboard", "incidents", "hosts"}

\* The effect of the mount has sent a first GET.
First == CHOOSE l \in Loads : TRUE
InitPages ==
    /\ kind \in Kinds /\ version = 1 /\ frames = FALSE /\ pageFaults = 0
    /\ page = [shown |-> NotYet, loading |-> Hides, busy |-> FALSE, posting |-> FALSE,
               timer |-> FALSE, failed |-> FALSE]
    /\ loads = [l \in Loads |-> IF l = First THEN [NoLoad EXCEPT !.at = "sent"] ELSE NoLoad]
    /\ posts = [p \in Posts |-> NoPost]

PageFault == pageFaults < MaxPageFaults /\ pageFaults' = pageFaults + 1

\* The data changes, and whoever listens is told.
Changed == version < MaxVersion /\ version' = version + 1 /\ frames' = Listens

-----------------------------------------------------------------------------
(* Others, and the frames *)

OthersChange ==
    /\ Changed /\ UNCHANGED <<kind, page, loads, posts, pageFaults>>

LoseFrame ==
    /\ frames /\ PageFault /\ frames' = FALSE
    /\ UNCHANGED <<kind, version, page, loads, posts>>

\* scheduleReload: the timer starts again.
HearFrame ==
    /\ frames /\ frames' = FALSE /\ page' = [page EXCEPT !.timer = TRUE]
    /\ UNCHANGED <<kind, version, loads, posts, pageFaults>>

-----------------------------------------------------------------------------
(* load *)

\* The GET l is sent.
Load(l) ==
    /\ loads[l] = NoLoad
    /\ loads' = [loads EXCEPT ![l].at = "sent"]

\* The page once it has sent one: the dashboard forgets an error when it has loaded.
Loading == [page EXCEPT !.loading = Hides, !.failed = @ /\ kind = "dashboard"]

\* The button of an error.
Retry(l) ==
    /\ page.failed /\ ~page.loading /\ kind # "dashboard" /\ Load(l)
    /\ page' = Loading
    /\ UNCHANGED <<kind, version, posts, frames, pageFaults>>

TimerFires(l) ==
    /\ page.timer /\ Load(l)
    /\ page' = [Loading EXCEPT !.timer = FALSE]
    /\ UNCHANGED <<kind, version, posts, frames, pageFaults>>

\* Mutant of Poll: it is there for loads that failed only.
PollToRetry(l) ==
    /\ Listens /\ page.failed /\ Load(l) /\ page' = Loading
    /\ UNCHANGED <<kind, version, posts, frames, pageFaults>>
\* setInterval(load, 30 s).
Poll(l) ==
    /\ Listens /\ Load(l) /\ page' = Loading
    /\ UNCHANGED <<kind, version, posts, frames, pageFaults>>

ServeLoad(l) ==
    /\ loads[l].at = "sent"
    /\ loads' = [loads EXCEPT ![l].at = "served", ![l].version = version]
    /\ UNCHANGED <<kind, version, page, posts, frames, pageFaults>>

\* What came last is shown, whenever it was asked for.
ShowLoad(l) ==
    /\ loads[l].at = "served" /\ loads[l].for # "timeline"
    /\ page' = [page EXCEPT !.shown = loads[l].version,
                            !.failed = @ /\ kind # "dashboard",
                            !.loading = @ /\ loads[l].for # "load",
                            !.posting = @ /\ loads[l].for # "comment"]
    /\ loads' = [loads EXCEPT ![l] = NoLoad]
    /\ UNCHANGED <<kind, version, posts, frames, pageFaults>>

LoadFails(l) ==
    /\ loads[l].at # "free" /\ PageFault
    /\ page' = [page EXCEPT !.failed = @ \/ loads[l].for = "load",
                            !.loading = @ /\ loads[l].for # "load",
                            !.posting = @ /\ loads[l].for # "comment",
                            !.busy = @ /\ loads[l].for # "timeline"]
    /\ loads' = [loads EXCEPT ![l] = NoLoad]
    /\ UNCHANGED <<kind, version, posts, frames>>

-----------------------------------------------------------------------------
(* Actions of the user *)

\* The buttons of what is shown are there.
Usable == page.shown # NotYet /\ ~page.loading /\ ~(page.failed /\ ErrorHides)
\* They are disabled while an action is under way.
Buttons == Usable /\ ~page.busy
\* A form: a comment, or a new ticket, disabled while it is posted; a new host, never.
Form ==
    \/ kind = "ticket" /\ Usable /\ ~page.posting
    \/ kind = "tickets" /\ ~page.posting
    \/ kind = "hosts"

\* Mutant of Act: no double-submit guard.
ActAgain(p) ==
    /\ kind \notin {"dashboard", "hosts", "host"} /\ Usable /\ posts[p] = NoPost
    /\ posts' = [posts EXCEPT ![p].at = "sent"]
    /\ page' = [page EXCEPT !.busy = TRUE]
    /\ UNCHANGED <<kind, version, loads, frames, pageFaults>>
\* acknowledge, resolve, a transition, revoke.
Act(p) ==
    /\ kind \notin {"dashboard", "hosts", "host"} /\ Buttons
    /\ posts[p] = NoPost /\ posts' = [posts EXCEPT ![p].at = "sent"]
    /\ page' = [page EXCEPT !.busy = TRUE]
    /\ UNCHANGED <<kind, version, loads, frames, pageFaults>>

Submit(p) ==
    /\ Form /\ posts[p] = NoPost
    /\ posts' = [posts EXCEPT ![p] = [NoPost EXCEPT !.at = "sent", !.for = "form"]]
    /\ page' = [page EXCEPT !.posting = kind # "hosts"]
    /\ UNCHANGED <<kind, version, loads, frames, pageFaults>>

\* The API writes and answers with the new row, or with 409.
ServePost(p) ==
    /\ posts[p].at = "sent"
    /\ \/ Changed /\ posts' = [posts EXCEPT ![p].at = "served", ![p].version = version']
       \/ /\ posts' = [posts EXCEPT ![p].at = "served", ![p].ok = FALSE]
          /\ UNCHANGED <<version, frames>>
    /\ UNCHANGED <<kind, page, loads, pageFaults>>

\* The incident's page shows the row of the answer and asks for its timeline.
ShowPost(p, l) ==
    /\ kind = "incident" /\ posts[p].at = "served" /\ posts[p].ok
    /\ loads[l] = NoLoad
    /\ page' = [page EXCEPT !.shown = posts[p].version]
    /\ loads' = [loads EXCEPT ![l] = [NoLoad EXCEPT !.at = "sent", !.for = "timeline"]]
    /\ posts' = [posts EXCEPT ![p] = NoPost]
    /\ UNCHANGED <<kind, version, frames, pageFaults>>

\* act is over once the timeline is there.
ShowTimeline(l) ==
    /\ loads[l].at = "served" /\ loads[l].for = "timeline"
    /\ page' = [page EXCEPT !.busy = FALSE]
    /\ loads' = [loads EXCEPT ![l] = NoLoad]
    /\ UNCHANGED <<kind, version, posts, frames, pageFaults>>

\* The POST p is over: its guard is released.
Over(p) == /\ posts' = [posts EXCEPT ![p] = NoPost]
           /\ UNCHANGED <<kind, version, frames>>
Released(pg, p) == [pg EXCEPT !.busy = @ /\ posts[p].for = "form",
                              !.posting = @ /\ posts[p].for = "act"]

\* The others load again after an answer, and after 409 all but the agents'.
ReloadAfter(p, l) ==
    /\ posts[p].at = "served"
    /\ IF posts[p].for = "form" THEN kind # "ticket" /\ posts[p].ok
       ELSE IF posts[p].ok THEN kind # "incident" ELSE kind # "agents"
    /\ Load(l) /\ page' = Released(Loading, p)
    /\ Over(p) /\ UNCHANGED pageFaults

\* After a comment the ticket is read again, in view.
ReadAfterComment(p, l) ==
    /\ posts[p].at = "served" /\ posts[p].for = "form" /\ posts[p].ok /\ kind = "ticket"
    /\ loads[l] = NoLoad
    /\ loads' = [loads EXCEPT ![l] = [NoLoad EXCEPT !.at = "sent", !.for = "comment"]]
    /\ Over(p) /\ UNCHANGED <<page, pageFaults>>

\* An error that is only told; the lists of tickets and hosts have one place for
\* every error but that of the new ticket.
Tell(p) ==
    /\ page' = [Released(page, p) EXCEPT !.failed = @ \/ kind = "hosts"
                                              \/ (kind = "tickets" /\ posts[p].for = "act")]
    /\ Over(p) /\ UNCHANGED loads

\* A form, or a revocation, was refused.
RefusalTold(p) ==
    /\ posts[p].at = "served" /\ ~posts[p].ok
    /\ posts[p].for = "form" \/ kind = "agents"
    /\ Tell(p) /\ UNCHANGED pageFaults

\* An answer is lost.
PostFails(p) == posts[p].at # "free" /\ PageFault /\ Tell(p)

-----------------------------------------------------------------------------

NextPages ==
    \/ OthersChange \/ LoseFrame \/ HearFrame
    \/ \E l \in Loads : \/ Retry(l) \/ TimerFires(l) \/ Poll(l) \/ ServeLoad(l)
                        \/ ShowLoad(l) \/ ShowTimeline(l) \/ LoadFails(l)
    \/ \E p \in Posts : \/ Act(p) \/ Submit(p) \/ ServePost(p) \/ RefusalTold(p) \/ PostFails(p)
                        \/ \E l \in Loads : \/ ShowPost(p, l) \/ ReloadAfter(p, l)
                                            \/ ReadAfterComment(p, l)

\* Intervals fire, requests are answered or fail.  Nothing is owed by the user, by
\* others or by the stream.
FairPages ==
    /\ \A l \in Loads : /\ WF_pageVars(ServeLoad(l)) /\ WF_pageVars(ShowLoad(l))
                       /\ WF_pageVars(ShowTimeline(l))
    /\ WF_pageVars(\E l \in Loads : Poll(l))

SpecPages == InitPages /\ [][NextPages]_pageVars /\ FairPages

-----------------------------------------------------------------------------
(* Properties *)

PagesOK ==
    /\ kind \in Kinds /\ version \in Nat /\ frames \in BOOLEAN /\ pageFaults \in Nat
    /\ page \in [shown : Nat, loading : BOOLEAN, busy : BOOLEAN, posting : BOOLEAN,
                 timer : BOOLEAN, failed : BOOLEAN]
    /\ loads \in [Loads -> [at : {"free", "sent", "served"}, version : Nat,
                            for : {"load", "comment", "timeline"}]]
    /\ posts \in [Posts -> [at : {"free", "sent", "served"}, version : Nat,
                            for : {"act", "form"}, ok : BOOLEAN]]

\* A page that polls comes to show what the database has and keeps it, though
\* loads fail, overtake each other and frames are lost.
CatchesUp == Listens => <>[](page.shown = version)

\* The incident's page and the host's never go back to an older state than they have
\* shown: guards and skeletons leave one request under way that can change it.
IncidentNeverGoesBack ==
    [][(kind \in {"incident", "host"}) => page.shown' >= page.shown]_pageVars
=============================================================================
