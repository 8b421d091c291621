--------------------------- MODULE LinearLifecycle ---------------------------
(***************************************************************************)
(* The Linear webhook adapter: Alertmanager posts firing and resolved      *)
(* notifications, and each POST is a process that queries Linear for the   *)
(* issues of its alert group and then creates, updates, comments or        *)
(* archives.  The adapter keeps no state; everything that has to agree is  *)
(* in Linear, which sees the calls of overlapping POSTs interleaved, may   *)
(* refuse a call, may carry it out and lose the answer, and may carry it   *)
(* out long after the client has given up on it.                           *)
(***************************************************************************)
EXTENDS Naturals, Sequences, FiniteSets

CONSTANTS
  Request,              \* the POSTs that may be made
  Group,                \* alert groups (groupKey)
  GroupOf,              \* the group each POST is about
  StatusOf,             \* "firing" or "resolved"
  SeverityOf,           \* "critical" or "warning"
  CapabilityOf,         \* capability label of the alert, or NoCapability
  NoCapability,
  RetryOf, NoRequest,   \* the POST that a POST repeats, if any
  RecommentMinInterval, \* age of an issue from which re-firing comments
  MaxClock,             \* bound on time
  MaxCrashes,           \* bound on crashes of the adapter
  Faults                \* the failures of Linear this instance lets happen

FaultKind == {"http_4xx", "http_5xx", "lost", "late", "hangup"}

ASSUME RequestAssumption ==
  /\ NoRequest \notin Request
  /\ GroupOf \in [Request -> Group]
  /\ StatusOf \in [Request -> {"firing", "resolved"}]
  /\ RetryOf \in [Request -> Request \cup {NoRequest}]
ASSUME ClockAssumption == RecommentMinInterval \in Nat /\ MaxClock \in Nat /\ MaxCrashes \in Nat
ASSUME FaultAssumption == Faults \subseteq FaultKind

VARIABLES
  (* the adapter: one record per POST, lost in a crash *)
  pc,       \* the Linear call the POST is about to make
  target,   \* issue chosen by pickMostRecentOpen; 0 is nil
  aged,     \* was the issue old enough for a comment
  todo,     \* label names still to be translated to ids
  err,      \* status the failed issueLabelCreate would be answered with
  status,   \* HTTP status of the answer
  gone,     \* has the client hung up
  (* Linear *)
  issues,   \* by id, in order of creation; `written': the POSTs whose text was put there
  comments,
  labels,   \* label names of the team
  late,     \* mutations whose client has given up, not carried out yet
  clock,
  (* history *)
  crashes,
  overlap   \* pairs of POSTs of one group, the second begun before the first was over

adapterVars == <<pc, target, aged, todo, err, status, gone>>
linearVars  == <<issues, comments, labels, late>>
vars == <<adapterVars, linearVars, clock, crashes, overlap>>

-----------------------------------------------------------------------------
(* Values *)

Label(kind, of) == [kind |-> kind, of |-> of]

\* The hash of the groupKey, taken to be free of collisions.
DedupLabel(g) == Label("alert", g)

BuildLabels(r) ==
  <<Label("alert-managed", "all"), DedupLabel(GroupOf[r]), Label("severity", SeverityOf[r])>>
  \o (IF CapabilityOf[r] = NoCapability THEN <<>> ELSE <<Label("capability", CapabilityOf[r])>>)

LabelNames(r) == {BuildLabels(r)[i] : i \in DOMAIN BuildLabels(r)}

\* A POST that has been accepted and not answered.
Calling == {"find", "label", "label_create", "label_requery", "create", "update",
            "comment", "archive"}
Active(r) == pc[r] \in Calling
Firing(r) == StatusOf[r] = "firing"

NoLabel == Label("none", "none")

\* A mutation that POST r sends, with the issue and the label it is about.
Mutation(r, op) ==
  [op |-> op, req |-> r, issue |-> target[r],
   label |-> IF todo[r] = <<>> THEN NoLabel ELSE Head(todo[r])]

CommentKind(r) == IF Firing(r) THEN "refire" ELSE "resolution"

\* The issues of group g that Linear shows as open.
OpenIssues(g) ==
  {i \in DOMAIN issues : issues[i].open /\ DedupLabel(g) \in issues[i].labels}

-----------------------------------------------------------------------------
Init ==
  /\ pc = [r \in Request |-> "idle"]
  /\ target = [r \in Request |-> 0]
  /\ aged = [r \in Request |-> FALSE]
  /\ todo = [r \in Request |-> <<>>]
  /\ err = [r \in Request |-> 0]
  /\ status = [r \in Request |-> 0]
  /\ gone = [r \in Request |-> FALSE]
  /\ issues = <<>> /\ comments = {} /\ labels = {} /\ late = {}
  /\ clock = 0 /\ crashes = 0 /\ overlap = {}

-----------------------------------------------------------------------------
(* Linear, as the client sees it *)

\* Linear carries out mutation m.
Apply(m) ==
  /\ issues' = CASE m.op = "create"  -> Append(issues, [open |-> TRUE, labels |-> LabelNames(m.req),
                                                        created |-> clock, written |-> {m.req}])
                 [] m.op = "update"  -> [issues EXCEPT ![m.issue].written = @ \cup {m.req}]
                 [] m.op = "archive" -> [issues EXCEPT ![m.issue].open = FALSE]
                 [] OTHER            -> issues
  /\ comments' = IF m.op = "comment"
                 THEN comments \cup {[kind |-> CommentKind(m.req), issue |-> m.issue,
                                      req |-> m.req, at |-> clock]}
                 ELSE comments
  /\ labels' = IF m.op = "label" THEN labels \cup {m.label} ELSE labels

\* Label names are unique in a team.
Acceptable(m) == m.op = "label" => m.label \notin labels

\* The answers do() can give: "ok", or the status the error will map to.  A
\* client whose context is cancelled only sees transport errors.
Answers(r) ==
  (IF gone[r] THEN {502} ELSE {200})
  \cup (IF "http_5xx" \in Faults THEN {502} ELSE {})
  \cup (IF "http_4xx" \in Faults /\ ~gone[r] THEN {500} ELSE {})

\* A query changes nothing.
Query(r, a) == a \in Answers(r) /\ UNCHANGED linearVars

\* The mutation takes effect and the answer arrives, or it is refused, or it
\* takes effect and the answer is lost or cannot be decoded, or the client
\* gives up before it takes effect.
Mutate(r, m, a) ==
  \/ a = 200 /\ a \in Answers(r) /\ Acceptable(m) /\ Apply(m) /\ UNCHANGED late
  \/ a \in Answers(r) \ {200} /\ UNCHANGED linearVars
  \/ a = 500 /\ ~gone[r] /\ ~Acceptable(m) /\ UNCHANGED linearVars
  \/ a \in {500, 502} /\ "lost" \in Faults /\ Apply(m) /\ UNCHANGED late
  \/ a = 502 /\ "late" \in Faults /\ late' = late \cup {m} /\ UNCHANGED <<issues, comments, labels>>

\* A mutation the client has given up on takes effect.
TakeEffect(m) ==
  /\ m \in late
  /\ late' = late \ {m}
  /\ Apply(m)
  /\ UNCHANGED <<adapterVars, clock, crashes, overlap>>

Tick ==
  /\ clock < MaxClock
  /\ clock' = clock + 1
  /\ UNCHANGED <<adapterVars, linearVars, crashes, overlap>>

-----------------------------------------------------------------------------
(* The webhook handler *)

Goto(r, label) == pc' = [pc EXCEPT ![r] = label]
Answer(r, code) == Goto(r, "done") /\ status' = [status EXCEPT ![r] = code]

\* 405 or 400: wrong method, body that does not parse, missing group key or
\* alert name, unknown status or severity.
RejectPayload(r) ==
  /\ pc[r] = "idle" /\ RetryOf[r] = NoRequest
  /\ Answer(r, 400)
  /\ UNCHANGED <<target, aged, todo, err, gone, linearVars, clock, crashes, overlap>>

\* POSTs of r's group that are not over: being handled, or with a create that
\* may still take effect.
Unfinished(r) ==
  {s \in Request \ {r} : /\ GroupOf[s] = GroupOf[r]
                         /\ Active(s) \/ \E m \in late : m.req = s /\ m.op = "create"}

\* Alertmanager repeats a POST that was answered with 5xx or not at all.
Arrive(r) ==
  /\ pc[r] = "idle"
  /\ RetryOf[r] # NoRequest => LET s == RetryOf[r]
                               IN status[s] \in {500, 502} \/ gone[s] \/ pc[s] = "lost"
  /\ Goto(r, "find")
  /\ overlap' = overlap \cup {<<s, r>> : s \in Unfinished(r)}
  /\ UNCHANGED <<target, aged, todo, err, status, gone, linearVars, clock, crashes>>

\* The client disconnects: the context of the handler's calls is cancelled.
HangUp(r) ==
  /\ "hangup" \in Faults /\ Active(r) /\ ~gone[r]
  /\ gone' = [gone EXCEPT ![r] = TRUE]
  /\ UNCHANGED <<pc, target, aged, todo, err, status, linearVars, clock, crashes, overlap>>

Crash ==
  /\ crashes < MaxCrashes
  /\ crashes' = crashes + 1
  /\ pc' = [r \in Request |-> IF Active(r) THEN "lost" ELSE pc[r]]
  /\ UNCHANGED <<target, aged, todo, err, status, gone, linearVars, clock, overlap>>

-----------------------------------------------------------------------------
(* Lifecycle: find the issue of the group *)

\* The open issue created last; sort.Slice leaves ties in any order.
pickMostRecentOpen(g) ==
  LET open == OpenIssues(g)
  IN IF open = {} THEN {0}
     ELSE {i \in open : \A j \in open : issues[j].created <= issues[i].created}

\* Mutant: the comparison has the wrong sense.
OldEnoughReversed(i) == clock <= issues[i].created + RecommentMinInterval

\* now.Sub(open.CreatedAt) >= RecommentMinInterval
OldEnough(i) == clock >= issues[i].created + RecommentMinInterval

\* Mutant: handleResolved without the check for nil.
BranchNoNilCheck(r, i) ==
  IF Firing(r) THEN IF i = 0 THEN "label" ELSE "update" ELSE "comment"

\* handleFiring and handleResolved: what comes after the query.
Branch(r, i) ==
  IF Firing(r) THEN IF i = 0 THEN "label" ELSE "update"
               ELSE IF i = 0 THEN "done" ELSE "comment"

\* The handlers go on with issue i, or with none.
Proceed(r, i) ==
  /\ target' = [target EXCEPT ![r] = i]
  /\ aged' = [aged EXCEPT ![r] = i # 0 /\ OldEnough(i)]
  /\ todo' = [todo EXCEPT ![r] = IF Firing(r) /\ i = 0 THEN BuildLabels(r) ELSE <<>>]
  /\ IF Branch(r, i) = "done" THEN Answer(r, 200)
                             ELSE Goto(r, Branch(r, i)) /\ UNCHANGED status

\* Mutant: a failed query counts as finding nothing.
FindIssuesFailOpen(r) ==
  /\ pc[r] = "find"
  /\ \E a \in Answers(r) :
       /\ Query(r, a)
       /\ \E i \in (IF a = 200 THEN pickMostRecentOpen(GroupOf[r]) ELSE {0}) : Proceed(r, i)
  /\ UNCHANGED <<err, gone, clock, crashes, overlap>>

FindIssuesByLabel(r) ==
  /\ pc[r] = "find"
  /\ \E a \in Answers(r) :
       /\ Query(r, a)
       /\ IF a # 200 THEN Answer(r, a) /\ UNCHANGED <<target, aged, todo>>
          ELSE \E i \in pickMostRecentOpen(GroupOf[r]) : Proceed(r, i)
  /\ UNCHANGED <<err, gone, clock, crashes, overlap>>

-----------------------------------------------------------------------------
(* CreateIssue: translate every label name, then create *)

\* The id of the first remaining name is known.
LabelResolved(r) ==
  /\ todo' = [todo EXCEPT ![r] = Tail(@)]
  /\ Goto(r, IF Len(todo[r]) = 1 THEN "create" ELSE "label")

\* EnsureLabelByName, 1: query.
FindLabel(r) ==
  /\ pc[r] = "label"
  /\ \E a \in Answers(r) :
       /\ Query(r, a)
       /\ IF a # 200 THEN Answer(r, a) /\ UNCHANGED todo
          ELSE /\ UNCHANGED status
               /\ IF Head(todo[r]) \in labels THEN LabelResolved(r)
                  ELSE Goto(r, "label_create") /\ UNCHANGED todo
  /\ UNCHANGED <<target, aged, err, gone, clock, crashes, overlap>>

\* EnsureLabelByName, 2: issueLabelCreate; an error leads to one more query,
\* an answer without success does not.
IssueLabelCreate(r) ==
  /\ pc[r] = "label_create"
  /\ \/ \E a \in {200, 500, 502} :
          /\ Mutate(r, Mutation(r, "label"), a)
          /\ IF a = 200 THEN LabelResolved(r) /\ UNCHANGED err
             ELSE /\ Goto(r, "label_requery") /\ UNCHANGED todo
                  /\ err' = [err EXCEPT ![r] = a]
          /\ UNCHANGED status
     \/ /\ "http_4xx" \in Faults /\ ~gone[r]
        /\ Answer(r, 500)
        /\ UNCHANGED <<todo, err, linearVars>>
  /\ UNCHANGED <<target, aged, gone, clock, crashes, overlap>>

\* Mutant: starts over until the label is there.
RequeryLabelForever(r) ==
  /\ pc[r] = "label_requery"
  /\ \E a \in Answers(r) :
       /\ Query(r, a)
       /\ UNCHANGED status
       /\ IF a = 200 /\ Head(todo[r]) \in labels THEN LabelResolved(r)
          ELSE Goto(r, "label_create") /\ UNCHANGED todo
  /\ UNCHANGED <<target, aged, err, gone, clock, crashes, overlap>>

\* Mutant: takes the failed create for the race it usually is.
RequeryLabelSkipped(r) ==
  /\ pc[r] = "label_requery"
  /\ LabelResolved(r)
  /\ UNCHANGED <<target, aged, err, status, gone, linearVars, clock, crashes, overlap>>

\* The query after a failed create; if it does not find the label the error
\* of the create is returned.
RequeryLabel(r) ==
  /\ pc[r] = "label_requery"
  /\ \E a \in Answers(r) :
       /\ Query(r, a)
       /\ IF a = 200 /\ Head(todo[r]) \in labels THEN LabelResolved(r) /\ UNCHANGED status
          ELSE Answer(r, err[r]) /\ UNCHANGED todo
  /\ UNCHANGED <<target, aged, err, gone, clock, crashes, overlap>>

CreateIssue(r) ==
  /\ pc[r] = "create"
  /\ \E a \in {200, 500, 502} : Mutate(r, Mutation(r, "create"), a) /\ Answer(r, a)
  /\ UNCHANGED <<target, aged, todo, err, gone, clock, crashes, overlap>>

-----------------------------------------------------------------------------
(* Existing issue: update and maybe comment, or comment and archive *)

\* A call at label `at' that goes on to `next' when it succeeds.
CallThen(r, at, next) ==
  /\ pc[r] = at
  /\ \E a \in {200, 500, 502} :
       /\ Mutate(r, Mutation(r, at), a)
       /\ IF a = 200 /\ next # "done" THEN Goto(r, next) /\ UNCHANGED status ELSE Answer(r, a)
  /\ UNCHANGED <<target, aged, todo, err, gone, clock, crashes, overlap>>

\* Mutant: an error of the update is logged and the handler goes on.
UpdateIssueBestEffort(r) ==
  /\ pc[r] = "update"
  /\ \E a \in {200, 500, 502} :
       /\ Mutate(r, Mutation(r, "update"), a)
       /\ IF aged[r] THEN Goto(r, "comment") /\ UNCHANGED status ELSE Answer(r, 200)
  /\ UNCHANGED <<target, aged, todo, err, gone, clock, crashes, overlap>>

UpdateIssue(r) == CallThen(r, "update", IF aged[r] THEN "comment" ELSE "done")

\* Mutant: an error of the resolution comment does not stop the archiving.
AddCommentBestEffort(r) ==
  /\ pc[r] = "comment"
  /\ \E a \in {200, 500, 502} :
       /\ Mutate(r, Mutation(r, "comment"), a)
       /\ IF Firing(r) THEN Answer(r, a) ELSE Goto(r, "archive") /\ UNCHANGED status
  /\ UNCHANGED <<target, aged, todo, err, gone, clock, crashes, overlap>>

AddComment(r) == CallThen(r, "comment", IF Firing(r) THEN "done" ELSE "archive")

ArchiveIssue(r) == CallThen(r, "archive", "done")

-----------------------------------------------------------------------------
Step(r) == \/ FindIssuesByLabel(r) \/ FindLabel(r) \/ IssueLabelCreate(r) \/ RequeryLabel(r)
           \/ CreateIssue(r) \/ UpdateIssue(r) \/ AddComment(r) \/ ArchiveIssue(r)

Next ==
  \/ \E r \in Request : RejectPayload(r) \/ Arrive(r) \/ HangUp(r) \/ Step(r)
  \/ \E m \in late : TakeEffect(m)
  \/ Tick
  \/ Crash

Spec == Init /\ [][Next]_vars

\* The client's 10 s timeout ends every call; nothing else is promised.
LiveSpec == Spec /\ \A r \in Request : WF_vars(Step(r))

-----------------------------------------------------------------------------
(* Properties *)

LabelSet == UNION {LabelNames(r) : r \in Request}
MutationSet == [op : {"label", "create", "update", "comment", "archive"}, req : Request,
                issue : Nat, label : LabelSet \cup {NoLabel}]

Issue == [open : BOOLEAN, labels : SUBSET LabelSet, created : Nat, written : SUBSET Request]

\* Every variable keeps its type; what a POST holds and what a comment was put
\* on are issues that exist: no branch goes on with nil.
TypeOK ==
  /\ pc \in [Request -> Calling \cup {"idle", "done", "lost"}]
  /\ target \in [Request -> 0..Len(issues)]
  /\ aged \in [Request -> BOOLEAN] /\ gone \in [Request -> BOOLEAN]
  /\ todo \in [Request -> Seq(LabelSet)]
  /\ err \in [Request -> {0, 500, 502}]
  /\ status \in [Request -> {0, 200, 400, 500, 502}]
  /\ issues \in Seq(Issue)
  /\ comments \subseteq [kind : {"refire", "resolution"}, issue : DOMAIN issues,
                          req : Request, at : Nat]
  /\ labels \subseteq LabelSet
  /\ late \subseteq MutationSet
  /\ clock \in Nat /\ crashes \in 0..MaxCrashes
  /\ overlap \subseteq Request \X Request

\* Two firing POSTs of g overlapped; any two did.
FiringsOverlapped(g) ==
  \E p \in overlap : GroupOf[p[1]] = g /\ Firing(p[1]) /\ Firing(p[2])
Overlapped(g) == \E p \in overlap : GroupOf[p[1]] = g

\* Dedup-query-then-write: a group has at most one open issue, through lost
\* answers, retries, crashes and resolved POSTs in between, unless two of its
\* firing POSTs overlapped.
OneOpenIssue ==
  \A g \in Group : ~FiringsOverlapped(g) =>
    \A i, j \in OpenIssues(g) : i = j

\* An issue the adapter closed says so: it carries a resolution comment, by a
\* resolved POST of the issue's own group.
ClosedIsExplained ==
  \A i \in DOMAIN issues : ~issues[i].open =>
    \E c \in comments : /\ c.issue = i /\ c.kind = "resolution"
                        /\ DedupLabel(GroupOf[c.req]) \in issues[i].labels

\* A resolved POST that had found the same issue overlapped r, or was answered
\* 502 and its archive may have been carried out after that.
ClosedBeside(r) ==
  \E s \in Request : /\ ~Firing(s) /\ target[s] = target[r]
                     /\ {<<r, s>>, <<s, r>>} \cap overlap # {} \/ status[s] = 502

\* The work of POST r is done: what it reports is on an open issue, created or
\* updated by r itself, save that a resolved POST may have closed the one it
\* updated; or what it resolves is closed.
Done(r) ==
  /\ Firing(r) /\ target[r] = 0 => \E i \in DOMAIN issues : issues[i].open /\ r \in issues[i].written
  /\ Firing(r) /\ target[r] # 0 =>
       r \in issues[target[r]].written /\ (issues[target[r]].open \/ ClosedBeside(r))
  /\ ~Firing(r) /\ target[r] = 0 => OpenIssues(GroupOf[r]) = {}
  /\ ~Firing(r) /\ target[r] # 0 => ~issues[target[r]].open

\* 200 is only given for work that Linear has done: when a firing POST is
\* answered with it, its own text is on an issue that is open, unless a
\* resolved POST about that issue overlapped it or gave up on its archive; when
\* a resolved one is, the issue it found is closed, or there was none.
OKMeansDone ==
  [][\A r \in Request :
       pc[r] # "done" /\ pc'[r] = "done" /\ status'[r] = 200 => Done(r)']_vars

\* Every label of an issue is a label of the team: no id is used that
\* EnsureLabelByName did not get from Linear, whoever created it.
LabelsExist == \A i \in DOMAIN issues : issues[i].labels \subseteq labels

\* What a POST writes, it writes on an issue of its own group; and a re-firing
\* comment never appears on an issue younger than RecommentMinInterval, however
\* long the call takes.
CommentsInPlace ==
  /\ \A i \in DOMAIN issues : \A r \in issues[i].written :
       DedupLabel(GroupOf[r]) \in issues[i].labels
  /\ \A c \in comments :
       /\ DedupLabel(GroupOf[c.req]) \in issues[c.issue].labels
       /\ c.kind = "refire" => c.at >= issues[c.issue].created + RecommentMinInterval

\* A resolved POST answered with 200 leaves its group without an open issue,
\* if no two POSTs of the group ever overlapped.
ResolvedClears ==
  [][\A r \in Request :
       /\ pc[r] # "done" /\ pc'[r] = "done" /\ status'[r] = 200
       /\ ~Firing(r) /\ ~Overlapped(GroupOf[r])
       => OpenIssues(GroupOf[r])' = {}]_vars

-----------------------------------------------------------------------------
(* The inductive invariant *)

Creating == {"label", "label_create", "label_requery", "create"}

\* Issue i is one of group g.
InGroup(i, g) == i \in DOMAIN issues /\ DedupLabel(g) \in issues[i].labels

\* Issue i has its resolution comment.
Explained(i) ==
  \E c \in comments : /\ c.issue = i /\ c.kind = "resolution"
                      /\ DedupLabel(GroupOf[c.req]) \in issues[i].labels

\* Where a POST is tells which branch it took and which issue it holds.
BranchOf(r) ==
  /\ pc[r] \in Creating => Firing(r) /\ target[r] = 0
  /\ pc[r] \in Creating \ {"create"} => todo[r] # <<>>
  /\ pc[r] = "update" => Firing(r)
  /\ pc[r] \in {"update", "comment", "archive"} => target[r] # 0
  /\ pc[r] = "archive" => ~Firing(r) /\ Explained(target[r])
  /\ target[r] # 0 => InGroup(target[r], GroupOf[r])
  /\ pc[r] = "comment" /\ Firing(r) => OldEnough(target[r])
  /\ aged[r] => target[r] # 0 /\ OldEnough(target[r])
BranchSound == \A r \in Request : BranchOf(r)

\* The same for a mutation that has been sent.
WellFormed(m) ==
  /\ m.op = "create" => Firing(m.req)
  /\ m.op = "label" => m.label # NoLabel
  /\ m.op \in {"update", "comment", "archive"} => InGroup(m.issue, GroupOf[m.req])
  /\ m.op = "archive" => Explained(m.issue)
  /\ m.op = "comment" /\ Firing(m.req) => OldEnough(m.issue)
LateSound ==
  \A m \in late : WellFormed(m) /\ (m.op = "create" => pc[m.req] \in {"done", "lost"})

\* Without overlapping firings, a group has one firing POST or one late create
\* at a time, and while it is creating there is no open issue.
LateCreates(g) == {m \in late : m.op = "create" /\ GroupOf[m.req] = g}
ActiveFirings(g) == {r \in Request : Active(r) /\ Firing(r) /\ GroupOf[r] = g}
OneWriter ==
  \A g \in Group : ~FiringsOverlapped(g) =>
    /\ \A r, s \in ActiveFirings(g) : r = s
    /\ \A m, n \in LateCreates(g) : m = n
    /\ LateCreates(g) = {} \/ ActiveFirings(g) = {}
    /\ LateCreates(g) # {} => OpenIssues(g) = {}
    /\ \A r \in ActiveFirings(g) : pc[r] \in Creating => OpenIssues(g) = {}

Coherent ==
  /\ TypeOK /\ BranchSound /\ LateSound /\ OneWriter
  /\ OneOpenIssue /\ ClosedIsExplained /\ CommentsInPlace

\* Every POST that was accepted is answered, unless the adapter dies: labels
\* that cannot be created do not make EnsureLabelByName go round in circles.
Answered == \A r \in Request : Active(r) ~> pc[r] \in {"done", "lost"}
=============================================================================
