----------------------- MODULE LinearLifecycleProofs -----------------------
(***************************************************************************)
(* Proofs about LinearLifecycle, for any number of POSTs, groups and       *)
(* faults: Coherent is an inductive invariant, with Labelled and Solitary  *)
(* beside it, and the properties TLC checks on small instances follow.     *)
(***************************************************************************)
EXTENDS LinearLifecycle, SequenceTheorems, TLAPS

\* The labels of an issue created for r: the dedup label of r's group and of
\* no other group is among them.
LEMMA DedupOfRequest ==
  ASSUME NEW r \in Request
  PROVE  /\ DedupLabel(GroupOf[r]) \in LabelNames(r)
         /\ \A g : DedupLabel(g) \in LabelNames(r) => g = GroupOf[r]
<1> DEFINE base == <<Label("alert-managed", "all"), DedupLabel(GroupOf[r]),
                     Label("severity", SeverityOf[r])>>
           full == base \o <<Label("capability", CapabilityOf[r])>>
<1>1. CASE CapabilityOf[r] = NoCapability
  <2>1. BuildLabels(r) = base
    BY <1>1 DEF BuildLabels
  <2>2. DOMAIN base = 1..3 /\ base[1] = Label("alert-managed", "all")
        /\ base[2] = DedupLabel(GroupOf[r]) /\ base[3] = Label("severity", SeverityOf[r])
    OBVIOUS
  <2> QED
    BY <2>1, <2>2 DEF LabelNames, DedupLabel, Label
<1>2. CASE CapabilityOf[r] # NoCapability
  <2>1. BuildLabels(r) = full
    BY <1>2 DEF BuildLabels
  <2>2. DOMAIN full = 1..4 /\ full[1] = Label("alert-managed", "all")
        /\ full[2] = DedupLabel(GroupOf[r]) /\ full[3] = Label("severity", SeverityOf[r])
        /\ full[4] = Label("capability", CapabilityOf[r])
    OBVIOUS
  <2> QED
    BY <2>1, <2>2 DEF LabelNames, DedupLabel, Label
<1> QED
  BY <1>1, <1>2

\* BuildLabels is a sequence of the labels of the system.
LEMMA LabelsTyped ==
  ASSUME NEW r \in Request
  PROVE  /\ BuildLabels(r) \in Seq(LabelSet) /\ BuildLabels(r) # <<>>
         /\ LabelNames(r) \subseteq LabelSet
<1>1. LabelNames(r) \subseteq LabelSet
  BY DEF LabelSet
<1>2. /\ BuildLabels(r) \in Seq({BuildLabels(r)[i] : i \in DOMAIN BuildLabels(r)})
      /\ BuildLabels(r) # <<>>
  <2>1. CASE CapabilityOf[r] = NoCapability
    BY <2>1 DEF BuildLabels
  <2>2. CASE CapabilityOf[r] # NoCapability
    BY <2>2 DEF BuildLabels
  <2> QED
    BY <2>1, <2>2
<1> QED
  BY <1>1, <1>2 DEF LabelNames

-----------------------------------------------------------------------------
(* What a mutation does to Linear *)

\* Linear's data only grow: issues keep their labels and their creation time
\* and are never reopened, comments stay.
Evolves ==
  /\ Len(issues) <= Len(issues')
  /\ \A i \in DOMAIN issues : /\ issues'[i].labels = issues[i].labels
                              /\ issues'[i].created = issues[i].created
                              /\ issues'[i].open => issues[i].open
  /\ comments \subseteq comments' /\ clock <= clock'

\* The facts about Linear's data that hold in every state.
LinearType ==
  /\ issues \in Seq(Issue)
  /\ comments \subseteq [kind : {"refire", "resolution"}, issue : DOMAIN issues,
                          req : Request, at : Nat]
  /\ labels \subseteq LabelSet /\ late \subseteq MutationSet /\ clock \in Nat

\* What Apply(m) does, issue by issue and comment by comment.
LEMMA ApplyEffect ==
  ASSUME LinearType, NEW m \in MutationSet, WellFormed(m), Apply(m), clock' = clock
  PROVE  /\ issues' \in Seq(Issue)
         /\ Evolves
         /\ m.op # "create" => Len(issues') = Len(issues)
         /\ m.op = "create" =>
              /\ Len(issues') = Len(issues) + 1
              /\ issues'[Len(issues) + 1] = [open |-> TRUE, labels |-> LabelNames(m.req),
                                             created |-> clock, written |-> {m.req}]
         /\ \A i \in DOMAIN issues :
              /\ ~issues'[i].open => ~issues[i].open \/ (m.op = "archive" /\ m.issue = i)
              /\ \/ issues'[i].written = issues[i].written
                 \/ /\ m.op = "update" /\ m.issue = i
                    /\ issues'[i].written = issues[i].written \cup {m.req}
         /\ m.op = "archive" => ~issues'[m.issue].open
         /\ m.op = "update" => m.req \in issues'[m.issue].written
<1> USE DEF LinearType
<1>0. /\ m.req \in Request /\ clock \in Nat /\ LabelNames(m.req) \subseteq LabelSet
      /\ DOMAIN issues = 1..Len(issues) /\ Len(issues) \in Nat
      /\ \A i \in DOMAIN issues : issues[i] \in Issue
  BY LabelsTyped DEF MutationSet
<1>a. comments \subseteq comments'
  BY DEF Apply
<1>1. CASE m.op = "create"
  <2> DEFINE new == [open |-> TRUE, labels |-> LabelNames(m.req), created |-> clock, written |-> {m.req}]
  <2>1. issues' = Append(issues, new)
    BY <1>1 DEF Apply
  <2>2. new \in Issue
    BY <1>0 DEF Issue
  <2> HIDE DEF new
  <2>3. /\ issues' \in Seq(Issue) /\ Len(issues') = Len(issues) + 1
        /\ issues'[Len(issues) + 1] = new
        /\ \A i \in DOMAIN issues : issues'[i] = issues[i]
    BY <2>1, <2>2, <1>0
  <2> QED
    BY <2>3, <1>0, <1>1, <1>a DEF new, Evolves
<1>2. CASE m.op \in {"update", "archive"}
  <2>1. m.issue \in DOMAIN issues
    BY <1>2 DEF WellFormed, InGroup
  <2>2. CASE m.op = "update"
    <3>1. issues' = [issues EXCEPT ![m.issue].written = issues[m.issue].written \cup {m.req}]
      BY <2>2 DEF Apply
    <3> DEFINE new == [issues[m.issue] EXCEPT !.written = issues[m.issue].written \cup {m.req}]
    <3>2. new \in Issue /\ new.labels = issues[m.issue].labels /\ new.created = issues[m.issue].created
          /\ new.open = issues[m.issue].open /\ new.written = issues[m.issue].written \cup {m.req}
      BY <1>0, <2>1 DEF Issue
    <3>3. issues' = [issues EXCEPT ![m.issue] = new]
      BY <3>1
    <3> HIDE DEF new
    <3>4. /\ issues' \in Seq(Issue) /\ Len(issues') = Len(issues)
          /\ \A i \in DOMAIN issues : issues'[i] = IF i = m.issue THEN new ELSE issues[i]
      BY <3>2, <3>3, <1>0, <2>1, ExceptSeq
    <3> QED
      BY <3>2, <3>4, <1>0, <2>1, <2>2, <1>a DEF Evolves
  <2>3. CASE m.op = "archive"
    <3>1. issues' = [issues EXCEPT ![m.issue].open = FALSE]
      BY <2>3 DEF Apply
    <3> DEFINE new == [issues[m.issue] EXCEPT !.open = FALSE]
    <3>2. new \in Issue /\ new.labels = issues[m.issue].labels /\ new.created = issues[m.issue].created
          /\ new.open = FALSE /\ new.written = issues[m.issue].written
      BY <1>0, <2>1 DEF Issue
    <3>3. issues' = [issues EXCEPT ![m.issue] = new]
      BY <3>1
    <3> HIDE DEF new
    <3>4. /\ issues' \in Seq(Issue) /\ Len(issues') = Len(issues)
          /\ \A i \in DOMAIN issues : issues'[i] = IF i = m.issue THEN new ELSE issues[i]
      BY <3>2, <3>3, <1>0, <2>1, ExceptSeq
    <3> QED
      BY <3>2, <3>4, <1>0, <2>1, <2>3, <1>a DEF Evolves
  <2> QED
    BY <1>2, <2>2, <2>3
<1>3. CASE m.op \in {"label", "comment"}
  <2>1. issues' = issues
    BY <1>3 DEF Apply
  <2>2. Evolves /\ issues' \in Seq(Issue)
    BY <2>1, <1>0, <1>a DEF Evolves
  <2>3. m.op # "create" /\ m.op # "archive" /\ m.op # "update"
    BY <1>3
  <2> QED
    BY <2>1, <2>2, <2>3
<1> QED
  BY <1>1, <1>2, <1>3 DEF MutationSet

\* Apply(m) closes an issue only if it archives it, and erases nobody's text.
LEMMA ApplyKeeps ==
  ASSUME LinearType, NEW m \in MutationSet, WellFormed(m), Apply(m), clock' = clock,
         NEW i \in DOMAIN issues
  PROVE  /\ ~issues'[i].open => ~issues[i].open \/ (m.op = "archive" /\ m.issue = i)
         /\ issues[i].written \subseteq issues'[i].written
<1>1. ~issues'[i].open => ~issues[i].open \/ (m.op = "archive" /\ m.issue = i)
  BY ApplyEffect
<1>2. issues'[i].written = issues[i].written \/ issues'[i].written = issues[i].written \cup {m.req}
  BY ApplyEffect
<1> QED
  BY <1>1, <1>2

\* What Apply(m) does to comments and labels.
LEMMA CommentEffect ==
  ASSUME LinearType, NEW m \in MutationSet, WellFormed(m), Apply(m), clock' = clock
  PROVE  /\ \A c \in comments' : c \in comments \/
              (/\ m.op = "comment" /\ c.kind = CommentKind(m.req) /\ c.issue = m.issue
               /\ c.req = m.req /\ c.at = clock)
         /\ m.op = "comment" => \E c \in comments' : /\ c.kind = CommentKind(m.req)
                                                    /\ c.issue = m.issue /\ c.req = m.req
         /\ comments' \subseteq [kind : {"refire", "resolution"}, issue : DOMAIN issues',
                                 req : Request, at : Nat]
         /\ labels' \subseteq LabelSet
<1> DEFINE new == [kind |-> CommentKind(m.req), issue |-> m.issue, req |-> m.req, at |-> clock]
<1>1. DOMAIN issues \subseteq DOMAIN issues'
  <2>1. issues' \in Seq(Issue) /\ Evolves
    BY ApplyEffect
  <2> QED
    BY <2>1 DEF LinearType, Evolves
<1>2. labels' \subseteq LabelSet
  BY DEF Apply, WellFormed, LinearType, MutationSet
<1>3. CASE m.op = "comment"
  <2>1. comments' = comments \cup {new}
    BY <1>3 DEF Apply
  <2>2. m.issue \in DOMAIN issues /\ m.req \in Request /\ clock \in Nat
    BY <1>3 DEF WellFormed, InGroup, MutationSet, LinearType
  <2>3. CommentKind(m.req) \in {"refire", "resolution"}
    BY DEF CommentKind
  <2>4. new \in [kind : {"refire", "resolution"}, issue : DOMAIN issues', req : Request, at : Nat]
    BY <1>1, <2>2, <2>3
  <2>5. comments \subseteq [kind : {"refire", "resolution"}, issue : DOMAIN issues', req : Request, at : Nat]
    BY <1>1 DEF LinearType
  <2>6. /\ new.kind = CommentKind(m.req) /\ new.issue = m.issue
        /\ new.req = m.req /\ new.at = clock
    OBVIOUS
  <2> HIDE DEF new
  <2> QED
    BY <1>2, <1>3, <2>1, <2>4, <2>5, <2>6
<1>4. CASE m.op # "comment"
  <2>1. comments' = comments
    BY <1>4 DEF Apply
  <2>2. comments \subseteq [kind : {"refire", "resolution"}, issue : DOMAIN issues', req : Request, at : Nat]
    BY <1>1 DEF LinearType
  <2> QED
    BY <1>2, <1>4, <2>1, <2>2
<1> QED
  BY <1>3, <1>4

\* What was established about an issue stays so.
LEMMA Stable ==
  ASSUME LinearType, issues' \in Seq(Issue), clock' \in Nat, Evolves
  PROVE  /\ DOMAIN issues \subseteq DOMAIN issues'
         /\ \A i, g : InGroup(i, g) => InGroup(i, g)'
         /\ \A i \in DOMAIN issues : /\ Explained(i) => Explained(i)'
                                     /\ OldEnough(i) => OldEnough(i)'
         /\ \A g : OpenIssues(g)' \cap DOMAIN issues \subseteq OpenIssues(g)
         /\ \A m \in MutationSet : WellFormed(m) => WellFormed(m)'
<1> USE DEF LinearType
<1>1. DOMAIN issues \subseteq DOMAIN issues'
  BY DEF Evolves
<1>2. \A i, g : InGroup(i, g) => InGroup(i, g)'
  BY <1>1 DEF Evolves, InGroup
<1>3. \A i \in DOMAIN issues : Explained(i) => Explained(i)'
  BY DEF Evolves, Explained
<1>4. \A i \in DOMAIN issues : OldEnough(i) => OldEnough(i)'
  <2>0. \A i \in DOMAIN issues : issues[i] \in Issue
    OBVIOUS
  <2>1. \A i \in DOMAIN issues : issues[i].created \in Nat /\ issues'[i].created = issues[i].created
    BY <2>0 DEF Evolves, Issue
  <2>2. clock <= clock' /\ clock \in Nat /\ clock' \in Nat /\ RecommentMinInterval \in Nat
    BY ClockAssumption DEF Evolves
  <2> SUFFICES ASSUME NEW i \in DOMAIN issues, OldEnough(i)
               PROVE  OldEnough(i)'
    OBVIOUS
  <2>3. clock >= issues[i].created + RecommentMinInterval
    BY DEF OldEnough
  <2>4. clock' >= issues'[i].created + RecommentMinInterval
    BY <2>1, <2>2, <2>3
  <2> QED
    BY <2>4 DEF OldEnough
<1>5. \A g : OpenIssues(g)' \cap DOMAIN issues \subseteq OpenIssues(g)
  BY DEF Evolves, OpenIssues
<1>6. ASSUME NEW m \in MutationSet, WellFormed(m)
      PROVE  WellFormed(m)'
  <2>1. m.op \in {"update", "comment", "archive"} => m.issue \in DOMAIN issues
    BY <1>6 DEF WellFormed, InGroup
  <2> QED
    BY <1>2, <1>3, <1>4, <1>6, <2>1 DEF WellFormed, Firing
<1> QED
  BY <1>1, <1>2, <1>3, <1>4, <1>5, <1>6

\* The invariants about Linear's data alone.
DataSound == LinearType /\ ClosedIsExplained /\ CommentsInPlace

\* A well-formed mutation that takes effect, or that is left under way, keeps
\* them.
LEMMA EffectKeeps ==
  ASSUME DataSound, NEW m \in MutationSet, WellFormed(m), clock' = clock,
         late' \subseteq late \cup {m},
         Apply(m) \/ UNCHANGED <<issues, comments, labels>>
  PROVE  DataSound' /\ Evolves
<1>0. LinearType
  BY DEF DataSound
<1>1. CASE Apply(m)
  <2>1. /\ issues' \in Seq(Issue) /\ Evolves /\ clock' \in Nat
        /\ DOMAIN issues = 1..Len(issues) /\ DOMAIN issues' = 1..Len(issues')
        /\ Len(issues) \in Nat
    <3>1. issues' \in Seq(Issue) /\ Evolves
      BY <1>0, <1>1, ApplyEffect
    <3> QED
      BY <1>0, <3>1 DEF LinearType
  <2>2. LinearType'
    BY <1>0, <1>1, <2>1, CommentEffect DEF LinearType
  <2>3. m.req \in Request /\ m.op \in {"label", "create", "update", "comment", "archive"}
    BY DEF MutationSet
  <2>4. DedupLabel(GroupOf[m.req]) \in LabelNames(m.req)
    BY <2>3, DedupOfRequest
  <2>5. ASSUME NEW i \in DOMAIN issues', i \notin DOMAIN issues
        PROVE  issues'[i] = [open |-> TRUE, labels |-> LabelNames(m.req),
                             created |-> clock, written |-> {m.req}]
    <3>1. CASE m.op = "create"
      <4>0. Len(issues') = Len(issues) + 1
        BY <1>0, <1>1, <3>1, ApplyEffect
      <4>1. i = Len(issues) + 1
        BY <2>1, <2>5, <4>0
      <4> QED
        BY <1>0, <1>1, <3>1, <4>1, ApplyEffect
    <3>2. CASE m.op # "create"
      BY <1>0, <1>1, <2>1, <2>5, <3>2, ApplyEffect
    <3> QED
      BY <3>1, <3>2
  <2>6. ClosedIsExplained'
    <3> SUFFICES ASSUME NEW i \in DOMAIN issues', ~issues'[i].open
                 PROVE  Explained(i)'
      BY DEF ClosedIsExplained, Explained
    <3>1. i \in DOMAIN issues
      BY <2>5
    <3>2. Explained(i)
      <4>1. CASE ~issues[i].open
        BY <3>1, <4>1 DEF DataSound, ClosedIsExplained, Explained
      <4>2. CASE m.op = "archive" /\ m.issue = i
        BY <4>2 DEF WellFormed
      <4> QED
        BY <1>0, <1>1, <3>1, <4>1, <4>2, ApplyEffect
    <3> QED
      BY <1>0, <2>1, <3>1, <3>2, Stable
  <2>7. ASSUME NEW i \in DOMAIN issues', NEW p \in issues'[i].written
        PROVE  DedupLabel(GroupOf[p]) \in issues'[i].labels
    <3>1. CASE i \notin DOMAIN issues
      BY <2>4, <2>5, <2>7, <3>1
    <3>2. CASE i \in DOMAIN issues /\ p \in issues[i].written
      BY <2>1, <3>2 DEF DataSound, CommentsInPlace, Evolves
    <3>3. CASE i \in DOMAIN issues /\ m.op = "update" /\ m.issue = i /\ p = m.req
      BY <2>1, <3>3 DEF WellFormed, InGroup, Evolves
    <3>4. ASSUME i \in DOMAIN issues
          PROVE  \/ issues'[i].written = issues[i].written
                 \/ /\ m.op = "update" /\ m.issue = i
                    /\ issues'[i].written = issues[i].written \cup {m.req}
      BY <1>0, <1>1, <3>4, ApplyEffect
    <3> QED
      BY <2>7, <3>1, <3>2, <3>3, <3>4
  <2>8. ASSUME NEW c \in comments'
        PROVE  /\ DedupLabel(GroupOf[c.req]) \in issues'[c.issue].labels
               /\ c.kind = "refire" => c.at >= issues'[c.issue].created + RecommentMinInterval
    <3>1. CASE c \in comments
      <4>1. c.issue \in DOMAIN issues
        BY <1>0, <3>1 DEF LinearType
      <4> QED
        BY <2>1, <3>1, <4>1 DEF DataSound, CommentsInPlace, Evolves
    <3>2. CASE /\ m.op = "comment" /\ c.kind = CommentKind(m.req) /\ c.issue = m.issue
               /\ c.req = m.req /\ c.at = clock
      <4>1. InGroup(m.issue, GroupOf[m.req]) /\ (Firing(m.req) => OldEnough(m.issue))
        BY <3>2 DEF WellFormed
      <4>2. issues'[m.issue].labels = issues[m.issue].labels
            /\ issues'[m.issue].created = issues[m.issue].created
        BY <2>1, <4>1 DEF Evolves, InGroup
      <4>3. c.kind = "refire" => Firing(m.req)
        BY <3>2 DEF CommentKind
      <4> QED
        BY <3>2, <4>1, <4>2, <4>3 DEF InGroup, OldEnough
    <3> QED
      BY <1>0, <1>1, <3>1, <3>2, CommentEffect
  <2> QED
    BY <2>1, <2>2, <2>6, <2>7, <2>8 DEF DataSound, CommentsInPlace
<1>2. CASE UNCHANGED <<issues, comments, labels>>
  <2>1. Evolves
    BY <1>0, <1>2 DEF Evolves, LinearType
  <2>2. LinearType'
    BY <1>0, <1>2 DEF LinearType
  <2> QED
    BY <1>2, <2>1, <2>2 DEF DataSound, ClosedIsExplained, CommentsInPlace
<1> QED
  BY <1>1, <1>2

-----------------------------------------------------------------------------
(* One open issue per group *)

\* A mutation opens at most the issue it creates, in the group of its POST.
LEMMA OpenAfter ==
  ASSUME DataSound, NEW m \in MutationSet, WellFormed(m), clock' = clock, Apply(m)
  PROVE  \A g : OpenIssues(g)' \subseteq
           OpenIssues(g) \cup (IF m.op = "create" /\ g = GroupOf[m.req] THEN {Len(issues) + 1} ELSE {})
<1>0. LinearType
  BY DEF DataSound
<1>1. issues' \in Seq(Issue) /\ Evolves /\ clock' \in Nat
  <2>1. issues' \in Seq(Issue) /\ Evolves
    BY <1>0, ApplyEffect
  <2> QED
    BY <1>0, <2>1 DEF LinearType
<1>2. /\ m.req \in Request
      /\ DOMAIN issues = 1..Len(issues) /\ DOMAIN issues' = 1..Len(issues') /\ Len(issues) \in Nat
  BY <1>0, <1>1 DEF MutationSet, LinearType
<1> SUFFICES ASSUME NEW g, NEW i \in OpenIssues(g)'
             PROVE  i \in OpenIssues(g) \/ (m.op = "create" /\ g = GroupOf[m.req] /\ i = Len(issues) + 1)
  OBVIOUS
<1>3. CASE i \in DOMAIN issues
  BY <1>0, <1>1, <1>3, Stable
<1>4. CASE i \notin DOMAIN issues
  <2>1. i \in DOMAIN issues' /\ DedupLabel(g) \in issues'[i].labels
    BY DEF OpenIssues
  <2>2. m.op = "create"
    <3>1. m.op # "create" => Len(issues') = Len(issues)
      BY <1>0, ApplyEffect
    <3> QED
      BY <1>2, <1>4, <2>1, <3>1
  <2>3. Len(issues') = Len(issues) + 1 /\ issues'[Len(issues) + 1].labels = LabelNames(m.req)
    <3>1. /\ Len(issues') = Len(issues) + 1
          /\ issues'[Len(issues) + 1] = [open |-> TRUE, labels |-> LabelNames(m.req),
                                         created |-> clock, written |-> {m.req}]
      BY <1>0, <2>2, ApplyEffect
    <3> QED
      BY <3>1
  <2>4. i = Len(issues) + 1
    BY <1>2, <1>4, <2>1, <2>3
  <2> QED
    BY <1>2, <2>1, <2>2, <2>3, <2>4, DedupOfRequest
<1> QED
  BY <1>3, <1>4

\* Overlaps are never forgotten.
LEMMA OverlapGrows ==
  ASSUME overlap \subseteq overlap'
  PROVE  \A g : FiringsOverlapped(g) => FiringsOverlapped(g)'
  BY DEF FiringsOverlapped, Firing

\* A step that opens no issue, begins no POST and leaves no create under way
\* keeps the discipline; a POST may only start creating when it found nothing.
LEMMA Calm ==
  ASSUME OneWriter, OneOpenIssue, overlap \subseteq overlap',
         \A g \in Group : /\ OpenIssues(g)' \subseteq OpenIssues(g)
                          /\ ActiveFirings(g)' \subseteq ActiveFirings(g)
                          /\ LateCreates(g)' \subseteq LateCreates(g),
         \A r \in Request : pc'[r] \in Creating => pc[r] \in Creating \/ OpenIssues(GroupOf[r]) = {}
  PROVE  OneWriter' /\ OneOpenIssue'
<1> SUFFICES ASSUME NEW g \in Group, ~FiringsOverlapped(g)'
             PROVE  /\ \A r, s \in ActiveFirings(g)' : r = s
                    /\ \A m, n \in LateCreates(g)' : m = n
                    /\ LateCreates(g)' = {} \/ ActiveFirings(g)' = {}
                    /\ LateCreates(g)' # {} => OpenIssues(g)' = {}
                    /\ \A r \in ActiveFirings(g)' : pc'[r] \in Creating => OpenIssues(g)' = {}
                    /\ \A i, j \in OpenIssues(g)' : i = j
  BY DEF OneWriter, OneOpenIssue
<1>1. ~FiringsOverlapped(g)
  BY OverlapGrows
<1>2. /\ \A r, s \in ActiveFirings(g) : r = s
      /\ \A m, n \in LateCreates(g) : m = n
      /\ LateCreates(g) = {} \/ ActiveFirings(g) = {}
      /\ LateCreates(g) # {} => OpenIssues(g) = {}
      /\ \A r \in ActiveFirings(g) : pc[r] \in Creating => OpenIssues(g) = {}
      /\ \A i, j \in OpenIssues(g) : i = j
  BY <1>1 DEF OneWriter, OneOpenIssue
<1>3. \A r \in ActiveFirings(g) : r \in Request /\ GroupOf[r] = g
  BY DEF ActiveFirings
<1>4. ASSUME NEW r \in ActiveFirings(g)', pc'[r] \in Creating
      PROVE  OpenIssues(g)' = {}
  BY <1>2, <1>3, <1>4
<1> QED
  BY <1>2, <1>4

\* The step with which a create reaches Linear, or is left under way: before
\* it POST r was the only writer of its group, or its create the only one.
LEMMA OneCreate ==
  ASSUME OneWriter, OneOpenIssue, overlap' = overlap,
         NEW h \in Group, NEW n,
         ~FiringsOverlapped(h) => /\ OpenIssues(h) = {}
                                  /\ ActiveFirings(h)' = {}
                                  /\ \A k, l \in LateCreates(h)' : k = l
                                  /\ OpenIssues(h)' \subseteq {n}
                                  /\ LateCreates(h)' # {} => OpenIssues(h)' = {},
         \A g \in Group \ {h} : /\ OpenIssues(g)' \subseteq OpenIssues(g)
                                /\ ActiveFirings(g)' \subseteq ActiveFirings(g)
                                /\ LateCreates(g)' \subseteq LateCreates(g),
         \A r \in Request : pc'[r] \in Creating => pc[r] \in Creating
  PROVE  OneWriter' /\ OneOpenIssue'
<1> SUFFICES ASSUME NEW g \in Group, ~FiringsOverlapped(g)'
             PROVE  /\ \A r, s \in ActiveFirings(g)' : r = s
                    /\ \A m, k \in LateCreates(g)' : m = k
                    /\ LateCreates(g)' = {} \/ ActiveFirings(g)' = {}
                    /\ LateCreates(g)' # {} => OpenIssues(g)' = {}
                    /\ \A r \in ActiveFirings(g)' : pc'[r] \in Creating => OpenIssues(g)' = {}
                    /\ \A i, j \in OpenIssues(g)' : i = j
  BY DEF OneWriter, OneOpenIssue
<1>1. ~FiringsOverlapped(g)
  BY OverlapGrows
<1>2. CASE g = h
  BY <1>1, <1>2
<1>3. CASE g # h
  <2>1. /\ \A r, s \in ActiveFirings(g) : r = s
        /\ \A m, k \in LateCreates(g) : m = k
        /\ LateCreates(g) = {} \/ ActiveFirings(g) = {}
        /\ LateCreates(g) # {} => OpenIssues(g) = {}
        /\ \A r \in ActiveFirings(g) : pc[r] \in Creating => OpenIssues(g) = {}
        /\ \A i, j \in OpenIssues(g) : i = j
    BY <1>1 DEF OneWriter, OneOpenIssue
  <2>2. \A r \in ActiveFirings(g) : r \in Request
    BY DEF ActiveFirings
  <2>3. /\ OpenIssues(g)' \subseteq OpenIssues(g)
        /\ ActiveFirings(g)' \subseteq ActiveFirings(g)
        /\ LateCreates(g)' \subseteq LateCreates(g)
    BY <1>3
  <2> QED
    BY <2>1, <2>2, <2>3
<1> QED
  BY <1>2, <1>3

-----------------------------------------------------------------------------
(* Steps of one POST *)

\* The step is POST r's: the others are where they were.
OnlyPost(r) ==
  \A s \in Request \ {r} :
    /\ pc'[s] = pc[s] /\ target'[s] = target[s] /\ aged'[s] = aged[s]
    /\ todo'[s] = todo[s] /\ status'[s] = status[s]

\* A POST that takes no step keeps its branch.
LEMMA StaysPut ==
  ASSUME Coherent, issues' \in Seq(Issue), clock' \in Nat, Evolves, NEW s \in Request,
         pc'[s] = pc[s], target'[s] = target[s], aged'[s] = aged[s], todo'[s] = todo[s]
  PROVE  BranchOf(s)'
<1>0. LinearType
  BY DEF Coherent, TypeOK, LinearType
<1>1. /\ DOMAIN issues \subseteq DOMAIN issues'
      /\ \A i, g : InGroup(i, g) => InGroup(i, g)'
      /\ \A i \in DOMAIN issues : (Explained(i) => Explained(i)') /\ (OldEnough(i) => OldEnough(i)')
  BY <1>0, Stable
<1>2. BranchOf(s)
  BY DEF Coherent, BranchSound
<1>3. target[s] # 0 => target[s] \in DOMAIN issues
  BY <1>2 DEF BranchOf, InGroup
<1> QED
  BY <1>1, <1>2, <1>3 DEF BranchOf, Firing

\* The part of Coherent that a step of r can only disturb at r.
LEMMA LocalStep ==
  ASSUME Coherent, issues' \in Seq(Issue), clock' \in Nat, Evolves, NEW r \in Request, OnlyPost(r),
         BranchOf(r)'
  PROVE  BranchSound'
<1>1. \A s \in Request \ {r} : BranchOf(s)'
  BY StaysPut DEF OnlyPost
<1> QED
  BY <1>1 DEF BranchSound

\* Mutations under way stay well formed; a new one has to be.
LEMMA LateStep ==
  ASSUME Coherent, issues' \in Seq(Issue), clock' \in Nat, Evolves,
         \A n \in late' \ late : WellFormed(n)' /\ (n.op = "create" => pc'[n.req] \in {"done", "lost"}),
         \A s \in Request : pc[s] \in {"done", "lost"} => pc'[s] = pc[s]
  PROVE  LateSound'
<1>0. LinearType
  BY DEF Coherent, TypeOK, LinearType
<1>1. ASSUME NEW n \in late
      PROVE  WellFormed(n)' /\ (n.op = "create" => pc'[n.req] \in {"done", "lost"})
  <2>1. n \in MutationSet /\ n.req \in Request
    BY <1>0 DEF LinearType, MutationSet
  <2>2. WellFormed(n) /\ (n.op = "create" => pc[n.req] \in {"done", "lost"})
    BY DEF Coherent, LateSound
  <2>3. WellFormed(n)'
    BY <1>0, <2>1, <2>2, Stable
  <2> QED
    BY <2>1, <2>2, <2>3
<1> QED
  BY <1>1 DEF LateSound

\* A step that only queries Linear leaves its data as they are.
LEMMA Quiet ==
  ASSUME Coherent, UNCHANGED <<linearVars, clock>>
  PROVE  /\ DataSound' /\ Evolves
         /\ \A g : OpenIssues(g)' = OpenIssues(g) /\ LateCreates(g)' = LateCreates(g)
<1>1. DataSound
  BY DEF Coherent, TypeOK, DataSound, LinearType
<1>2. issues' = issues /\ comments' = comments /\ labels' = labels /\ late' = late /\ clock' = clock
  BY DEF linearVars
<1>3. DataSound'
  BY <1>1, <1>2 DEF DataSound, LinearType, ClosedIsExplained, CommentsInPlace
<1>4. Evolves
  BY <1>1, <1>2 DEF Evolves, DataSound, LinearType
<1>5. \A g : OpenIssues(g)' = OpenIssues(g) /\ LateCreates(g)' = LateCreates(g)
  BY <1>2 DEF OpenIssues, LateCreates
<1> QED
  BY <1>3, <1>4, <1>5

\* Leaving one label for another, inside a POST, begins no POST.
LEMMA ActiveShrinks ==
  ASSUME NEW r \in Request, Active(r), OnlyPost(r)
  PROVE  \A g : ActiveFirings(g)' \subseteq ActiveFirings(g)
  BY DEF OnlyPost, ActiveFirings, Active, Firing

\* A step of POST r that queries Linear and goes on to label l.
LEMMA QueryStep ==
  ASSUME Coherent, UNCHANGED <<linearVars, clock>>, UNCHANGED overlap,
         NEW r \in Request, Active(r), OnlyPost(r), TypeOK',
         NEW l, pc' = [pc EXCEPT ![r] = l],
         l \in Creating => pc[r] \in Creating \/ OpenIssues(GroupOf[r]) = {},
         BranchOf(r)'
  PROVE  Coherent'
<1>1. /\ DataSound' /\ Evolves
      /\ \A g : OpenIssues(g)' = OpenIssues(g) /\ LateCreates(g)' = LateCreates(g)
  BY Quiet
<1>2. TypeOK /\ pc \in [Request -> Calling \cup {"idle", "done", "lost"}] /\ pc'[r] = l
  <2>1. TypeOK
    BY DEF Coherent
  <2>2. pc \in [Request -> Calling \cup {"idle", "done", "lost"}]
    BY <2>1 DEF TypeOK
  <2> QED
    BY <2>1, <2>2
<1>3. issues' \in Seq(Issue) /\ clock' \in Nat
  BY <1>1 DEF DataSound, LinearType
<1>4. BranchSound'
  BY <1>1, <1>2, <1>3, LocalStep
<1>5. LateSound'
  <2>1. late' \ late = {}
    BY DEF linearVars
  <2>2. \A s \in Request : pc[s] \in {"done", "lost"} => pc'[s] = pc[s]
    BY <1>2 DEF Active, Calling
  <2> QED
    BY <1>1, <1>3, <2>1, <2>2, LateStep
<1>6. OneWriter' /\ OneOpenIssue'
  <2>1. \A g : ActiveFirings(g)' \subseteq ActiveFirings(g)
    BY ActiveShrinks
  <2>2. \A s \in Request : pc'[s] \in Creating => pc[s] \in Creating \/ OpenIssues(GroupOf[s]) = {}
    BY <1>2
  <2> QED
    BY <1>1, <2>1, <2>2, Calm DEF Coherent
<1> QED
  BY <1>1, <1>4, <1>5, <1>6 DEF Coherent, DataSound

\* The query for the issues of the group, and the branch taken on its answer.
LEMMA FindStep ==
  ASSUME Coherent, NEW r \in Request, FindIssuesByLabel(r)
  PROVE  Coherent'
<1>0. TypeOK /\ BranchOf(r)
  BY DEF Coherent, BranchSound
<1>1. /\ pc[r] = "find" /\ Active(r) /\ UNCHANGED <<err, gone, clock, crashes, overlap>>
      /\ UNCHANGED linearVars
  BY DEF FindIssuesByLabel, Active, Calling, Query
<1>2. \A l : pc' = [pc EXCEPT ![r] = l] => pc'[r] = l
  BY <1>0 DEF TypeOK
<1>3. PICK a \in Answers(r) :
        IF a # 200 THEN Answer(r, a) /\ UNCHANGED <<target, aged, todo>>
        ELSE \E i \in pickMostRecentOpen(GroupOf[r]) : Proceed(r, i)
  BY DEF FindIssuesByLabel
<1>4. a \in {200, 500, 502}
  BY DEF Answers
<1>5. CASE a # 200
  <2>1. /\ pc' = [pc EXCEPT ![r] = "done"] /\ status' = [status EXCEPT ![r] = a]
        /\ UNCHANGED <<target, aged, todo>>
    BY <1>3, <1>5 DEF Answer, Goto
  <2>2. TypeOK'
    BY <1>0, <1>1, <1>4, <1>5, <2>1, SMTT(30) DEF TypeOK, linearVars
  <2>3. OnlyPost(r) /\ status'[r] # 200
    BY <1>0, <1>5, <2>1 DEF OnlyPost, TypeOK
  <2>4. BranchOf(r)'
    BY <1>0, <1>1, <1>2, <2>1 DEF BranchOf, Creating, InGroup, OldEnough, linearVars
  <2>5. "done" \notin Creating
    BY DEF Creating
  <2> QED
    BY <1>1, <2>1, <2>2, <2>3, <2>4, <2>5, QueryStep
<1>6. CASE a = 200
  <2>1. PICK i \in pickMostRecentOpen(GroupOf[r]) : Proceed(r, i)
    BY <1>3, <1>6
  <2>2. /\ i = 0 => OpenIssues(GroupOf[r]) = {}
        /\ i # 0 => i \in DOMAIN issues /\ InGroup(i, GroupOf[r])
        /\ i \in 0..Len(issues)
    <3>1. DOMAIN issues = 1..Len(issues) /\ Len(issues) \in Nat
      BY <1>0 DEF TypeOK
    <3>2. CASE OpenIssues(GroupOf[r]) = {}
      BY <3>1, <3>2 DEF pickMostRecentOpen
    <3>3. CASE OpenIssues(GroupOf[r]) # {}
      <4>1. i \in OpenIssues(GroupOf[r])
        BY <3>3 DEF pickMostRecentOpen
      <4>2. i \in DOMAIN issues /\ InGroup(i, GroupOf[r])
        BY <4>1 DEF OpenIssues, InGroup
      <4> QED
        BY <3>1, <4>2
    <3> QED
      BY <3>2, <3>3
  <2>3. Branch(r, i) \in {"label", "update", "comment", "done"}
    BY DEF Branch
  <2>4. /\ pc' = [pc EXCEPT ![r] = Branch(r, i)]
        /\ target' = [target EXCEPT ![r] = i]
        /\ aged' = [aged EXCEPT ![r] = i # 0 /\ OldEnough(i)]
        /\ todo' = [todo EXCEPT ![r] = IF Firing(r) /\ i = 0 THEN BuildLabels(r) ELSE <<>>]
        /\ status' = status \/ status' = [status EXCEPT ![r] = 200]
    BY <2>1 DEF Proceed, Answer, Goto
  <2>5. BuildLabels(r) \in Seq(LabelSet) /\ BuildLabels(r) # <<>>
    BY LabelsTyped
  <2>6. TypeOK'
    <3>1. pc' \in [Request -> Calling \cup {"idle", "done", "lost"}]
      BY <1>0, <2>3, <2>4 DEF TypeOK, Calling
    <3>2. target' \in [Request -> 0..Len(issues')] /\ aged' \in [Request -> BOOLEAN]
      BY <1>0, <1>1, <2>2, <2>4 DEF TypeOK, linearVars
    <3>3. todo' \in [Request -> Seq(LabelSet)]
      BY <1>0, <2>4, <2>5 DEF TypeOK
    <3>4. status' \in [Request -> {0, 200, 400, 500, 502}]
      BY <1>0, <2>4 DEF TypeOK
    <3> QED
      BY <1>0, <1>1, <3>1, <3>2, <3>3, <3>4, ZenonT(60) DEF TypeOK, linearVars
  <2>7. OnlyPost(r)
    BY <1>0, <2>4 DEF OnlyPost, TypeOK
  <2>8. /\ pc'[r] = Branch(r, i) /\ target'[r] = i /\ aged'[r] = (i # 0 /\ OldEnough(i))
        /\ todo'[r] = IF Firing(r) /\ i = 0 THEN BuildLabels(r) ELSE <<>>
    BY <1>0, <2>4 DEF TypeOK
  <2>9. i # 0 => InGroup(i, GroupOf[r])' /\ (OldEnough(i) <=> OldEnough(i)')
    BY <1>1, <2>2 DEF InGroup, OldEnough, linearVars
  <2>10. BranchOf(r)'
    <3>1. CASE Firing(r) /\ i = 0
      <4>1. Branch(r, i) = "label"
        BY <3>1 DEF Branch
      <4> QED
        BY <2>5, <2>8, <3>1, <4>1 DEF BranchOf, Creating, Firing
    <3>2. CASE Firing(r) /\ i # 0
      <4>1. Branch(r, i) = "update"
        BY <3>2 DEF Branch
      <4> QED
        BY <2>8, <2>9, <3>2, <4>1 DEF BranchOf, Creating, Firing
    <3>3. CASE ~Firing(r) /\ i = 0
      <4>1. Branch(r, i) = "done"
        BY <3>3 DEF Branch
      <4> QED
        BY <2>8, <3>3, <4>1 DEF BranchOf, Creating, Firing
    <3>4. CASE ~Firing(r) /\ i # 0
      <4>1. Branch(r, i) = "comment"
        BY <3>4 DEF Branch
      <4> QED
        BY <2>8, <2>9, <3>4, <4>1 DEF BranchOf, Creating, Firing
    <3> QED
      BY <3>1, <3>2, <3>3, <3>4
  <2>11. Branch(r, i) \in Creating => OpenIssues(GroupOf[r]) = {}
    BY <2>2 DEF Branch, Creating
  <2> HIDE DEF Branch
  <2> QED
    BY <1>1, <2>4, <2>6, <2>7, <2>10, <2>11, QueryStep
<1> QED
  BY <1>5, <1>6

\* The label at the head of todo has its id: go on with the next, or create.
LEMMA ResolvedLabel ==
  ASSUME Coherent, NEW r \in Request, pc[r] \in Creating \ {"create"}, LabelResolved(r)
  PROVE  /\ todo' \in [Request -> Seq(LabelSet)]
         /\ \E l \in {"create", "label"} : /\ pc' = [pc EXCEPT ![r] = l]
                                           /\ l = "label" => todo'[r] # <<>>
         /\ \A s \in Request \ {r} : todo'[s] = todo[s]
<1>0. TypeOK /\ BranchOf(r)
  BY DEF Coherent, BranchSound
<1>1. todo \in [Request -> Seq(LabelSet)] /\ todo[r] \in Seq(LabelSet) /\ todo[r] # <<>>
  BY <1>0 DEF TypeOK, BranchOf
<1>2. Tail(todo[r]) \in Seq(LabelSet) /\ Len(Tail(todo[r])) = Len(todo[r]) - 1 /\ Len(todo[r]) \in Nat \ {0}
  BY <1>1
<1>3. todo' = [todo EXCEPT ![r] = Tail(todo[r])]
  BY DEF LabelResolved
<1>4. todo'[r] = Tail(todo[r]) /\ todo' \in [Request -> Seq(LabelSet)]
      /\ \A s \in Request \ {r} : todo'[s] = todo[s]
  BY <1>1, <1>2, <1>3
<1>5. CASE Len(todo[r]) = 1
  <2>1. pc' = [pc EXCEPT ![r] = "create"]
    BY <1>5 DEF LabelResolved, Goto
  <2> QED
    BY <1>4, <2>1
<1>6. CASE Len(todo[r]) # 1
  <2>1. pc' = [pc EXCEPT ![r] = "label"]
    BY <1>6 DEF LabelResolved, Goto
  <2>2. Tail(todo[r]) # <<>>
    <3>1. Len(Tail(todo[r])) # 0
      BY <1>2, <1>6
    <3>2. Len(<<>>) = 0
      BY EmptySeq
    <3> QED
      BY <3>1, <3>2
  <2> QED
    BY <1>4, <2>1, <2>2
<1> QED
  BY <1>5, <1>6

\* A step of a POST that is creating, and goes on creating or answers without
\* success, keeps what BranchOf says.
LEMMA CreatingStep ==
  ASSUME Coherent, NEW r \in Request, pc[r] \in Creating, NEW l \in Creating \cup {"done"},
         pc'[r] = l, UNCHANGED <<target, aged>>,
         l \in Creating \ {"create"} => todo'[r] # <<>>
  PROVE  BranchOf(r)'
<1>0. TypeOK /\ BranchOf(r)
  BY DEF Coherent, BranchSound
<1>1. pc'[r] = l /\ target'[r] = 0 /\ Firing(r) /\ ~aged[r] /\ aged'[r] = aged[r]
  BY <1>0 DEF TypeOK, BranchOf
<1>2. l \notin {"update", "comment", "archive"}
  BY DEF Creating
<1> QED
  BY <1>1, <1>2 DEF BranchOf, Firing

\* EnsureLabelByName: the first query.
LEMMA FindLabelStep ==
  ASSUME Coherent, NEW r \in Request, FindLabel(r)
  PROVE  Coherent'
<1>0. TypeOK /\ BranchOf(r) /\ todo[r] # <<>>
  BY DEF Coherent, BranchSound, BranchOf, FindLabel, Creating
<1>1. /\ pc[r] = "label" /\ Active(r) /\ pc[r] \in Creating \ {"create"}
      /\ UNCHANGED <<target, aged, err, gone, clock, crashes, overlap, linearVars>>
  BY DEF FindLabel, Active, Calling, Creating, Query
<1>2. PICK a \in Answers(r) :
        IF a # 200 THEN Answer(r, a) /\ UNCHANGED todo
        ELSE /\ UNCHANGED status
             /\ IF Head(todo[r]) \in labels THEN LabelResolved(r)
                ELSE Goto(r, "label_create") /\ UNCHANGED todo
  BY DEF FindLabel
<1>3. a \in {200, 500, 502}
  BY DEF Answers
<1>4. /\ todo' \in [Request -> Seq(LabelSet)] /\ \A s \in Request \ {r} : todo'[s] = todo[s]
      /\ status' = status \/ \E b \in {500, 502} : status' = [status EXCEPT ![r] = b]
      /\ \E l \in {"label_create", "create", "label", "done"} :
           /\ pc' = [pc EXCEPT ![r] = l]
           /\ l \in {"label_create", "label"} => todo'[r] # <<>>
           /\ l = "done" => status'[r] # 200
  <2>1. CASE a # 200
    BY <1>0, <1>2, <1>3, <2>1 DEF Answer, Goto, TypeOK
  <2>2. CASE a = 200 /\ Head(todo[r]) \in labels
    <3>1. LabelResolved(r) /\ status' = status
      BY <1>2, <2>2
    <3> QED
      BY <1>1, <3>1, ResolvedLabel
  <2>3. CASE a = 200 /\ Head(todo[r]) \notin labels
    BY <1>0, <1>2, <2>3 DEF Goto, TypeOK
  <2> QED
    BY <2>1, <2>2, <2>3
<1>5. PICK l \in {"label_create", "create", "label", "done"} :
           /\ pc' = [pc EXCEPT ![r] = l]
           /\ l \in {"label_create", "label"} => todo'[r] # <<>>
           /\ l = "done" => status'[r] # 200
  BY <1>4
<1>6. l \in Creating \cup {"done"} /\ (l \in Creating \ {"create"} => todo'[r] # <<>>)
  BY <1>5 DEF Creating
<1>7. BranchOf(r)'
  <2>1. pc'[r] = l
    BY <1>0, <1>5 DEF TypeOK
  <2> QED
    BY <1>1, <1>6, <2>1, CreatingStep
<1>8. OnlyPost(r)
  BY <1>0, <1>1, <1>4, <1>5 DEF OnlyPost, TypeOK
<1>9. TypeOK'
  <2>1. pc' \in [Request -> Calling \cup {"idle", "done", "lost"}]
    BY <1>0, <1>5 DEF TypeOK, Calling
  <2>2. status' \in [Request -> {0, 200, 400, 500, 502}]
    <3>1. status \in [Request -> {0, 200, 400, 500, 502}]
      BY <1>0 DEF TypeOK
    <3>2. status' = status \/ status' = [status EXCEPT ![r] = 500] \/ status' = [status EXCEPT ![r] = 502]
      BY <1>4
    <3> QED
      BY <3>1, <3>2
  <2> QED
    BY <1>0, <1>1, <1>4, <2>1, <2>2, SMTT(30) DEF TypeOK, linearVars
<1> QED
  BY <1>1, <1>5, <1>7, <1>8, <1>9, QueryStep

\* EnsureLabelByName: the query after a failed create.
LEMMA RequeryStep ==
  ASSUME Coherent, NEW r \in Request, RequeryLabel(r)
  PROVE  Coherent'
<1>0. TypeOK /\ BranchOf(r) /\ todo[r] # <<>>
  BY DEF Coherent, BranchSound, BranchOf, RequeryLabel, Creating
<1>a. err[r] # 200
  <2>1. err \in [Request -> {0, 500, 502}]
    BY <1>0 DEF TypeOK
  <2> QED
    BY <2>1
<1>1. /\ pc[r] = "label_requery" /\ Active(r) /\ pc[r] \in Creating \ {"create"}
      /\ UNCHANGED <<target, aged, err, gone, clock, crashes, overlap, linearVars>>
  BY DEF RequeryLabel, Active, Calling, Creating, Query
<1>2. \/ LabelResolved(r) /\ UNCHANGED status
      \/ Answer(r, err[r]) /\ UNCHANGED todo
  BY DEF RequeryLabel
<1>4. /\ todo' \in [Request -> Seq(LabelSet)] /\ \A s \in Request \ {r} : todo'[s] = todo[s]
      /\ status' = status \/ status' = [status EXCEPT ![r] = err[r]]
      /\ \E l \in {"create", "label", "done"} :
           /\ pc' = [pc EXCEPT ![r] = l]
           /\ l = "label" => todo'[r] # <<>>
           /\ l = "done" => status'[r] # 200
  <2>1. CASE Answer(r, err[r]) /\ UNCHANGED todo
    BY <1>0, <1>a, <2>1 DEF Answer, Goto, TypeOK
  <2>2. CASE LabelResolved(r) /\ UNCHANGED status
    BY <1>1, <2>2, ResolvedLabel
  <2> QED
    BY <1>2, <2>1, <2>2
<1>5. PICK l \in {"create", "label", "done"} :
           /\ pc' = [pc EXCEPT ![r] = l]
           /\ l = "label" => todo'[r] # <<>>
           /\ l = "done" => status'[r] # 200
  BY <1>4
<1>6. l \in Creating \cup {"done"} /\ (l \in Creating \ {"create"} => todo'[r] # <<>>)
  BY <1>5 DEF Creating
<1>7. BranchOf(r)'
  <2>1. pc'[r] = l
    BY <1>0, <1>5 DEF TypeOK
  <2> QED
    BY <1>1, <1>6, <2>1, CreatingStep
<1>8. OnlyPost(r)
  BY <1>0, <1>1, <1>4, <1>5 DEF OnlyPost, TypeOK
<1>9. TypeOK'
  <2>1. pc' \in [Request -> Calling \cup {"idle", "done", "lost"}]
    BY <1>0, <1>5 DEF TypeOK, Calling
  <2>2. status' \in [Request -> {0, 200, 400, 500, 502}]
    <3>1. status \in [Request -> {0, 200, 400, 500, 502}] /\ err[r] \in {0, 500, 502}
      BY <1>0 DEF TypeOK
    <3>2. status' = status \/ status' = [status EXCEPT ![r] = err[r]]
      BY <1>4
    <3> QED
      BY <3>1, <3>2
  <2> QED
    BY <1>0, <1>1, <1>4, <2>1, <2>2, SMTT(30) DEF TypeOK, linearVars
<1> QED
  BY <1>1, <1>5, <1>7, <1>8, <1>9, QueryStep

-----------------------------------------------------------------------------
(* Steps that send a mutation *)

\* A label of the system is never NoLabel.
LEMMA NoLabelIsNone ==
  ASSUME NEW x \in LabelSet
  PROVE  x # NoLabel
<1>1. PICK r \in Request : x \in LabelNames(r)
  BY DEF LabelSet
<1> DEFINE base == <<Label("alert-managed", "all"), DedupLabel(GroupOf[r]),
                     Label("severity", SeverityOf[r])>>
           full == base \o <<Label("capability", CapabilityOf[r])>>
<1>2. CASE CapabilityOf[r] = NoCapability
  <2>1. BuildLabels(r) = base
    BY <1>2 DEF BuildLabels
  <2>2. DOMAIN base = 1..3 /\ base[1] = Label("alert-managed", "all")
        /\ base[2] = DedupLabel(GroupOf[r]) /\ base[3] = Label("severity", SeverityOf[r])
    OBVIOUS
  <2> QED
    BY <1>1, <2>1, <2>2 DEF LabelNames, DedupLabel, Label, NoLabel
<1>3. CASE CapabilityOf[r] # NoCapability
  <2>1. BuildLabels(r) = full
    BY <1>3 DEF BuildLabels
  <2>2. DOMAIN full = 1..4 /\ full[1] = Label("alert-managed", "all")
        /\ full[2] = DedupLabel(GroupOf[r]) /\ full[3] = Label("severity", SeverityOf[r])
        /\ full[4] = Label("capability", CapabilityOf[r])
    OBVIOUS
  <2> QED
    BY <1>1, <2>1, <2>2 DEF LabelNames, DedupLabel, Label, NoLabel
<1> QED
  BY <1>2, <1>3

\* What a POST sends is a mutation, about its own issue and first label.
LEMMA MutationOf ==
  ASSUME TypeOK, NEW r \in Request, NEW op \in {"label", "create", "update", "comment", "archive"}
  PROVE  /\ Mutation(r, op) \in MutationSet
         /\ Mutation(r, op).op = op /\ Mutation(r, op).req = r /\ Mutation(r, op).issue = target[r]
         /\ todo[r] # <<>> => Mutation(r, op).label # NoLabel
<1>1. target[r] \in Nat /\ todo[r] \in Seq(LabelSet)
  <2>1. target[r] \in 0..Len(issues) /\ Len(issues) \in Nat
    BY DEF TypeOK
  <2> QED
    BY <2>1 DEF TypeOK
<1>2. todo[r] # <<>> => Head(todo[r]) \in LabelSet
  BY <1>1
<1>3. todo[r] # <<>> => Head(todo[r]) # NoLabel
  BY <1>2, NoLabelIsNone
<1>4. Mutation(r, op).label \in LabelSet \cup {NoLabel}
  BY <1>2 DEF Mutation
<1>5. todo[r] # <<>> => Mutation(r, op).label # NoLabel
  BY <1>3 DEF Mutation
<1>6. /\ Mutation(r, op).op = op /\ Mutation(r, op).req = r /\ Mutation(r, op).issue = target[r]
  BY DEF Mutation
<1>7. Mutation(r, op) \in MutationSet
  BY <1>1, <1>4 DEF MutationSet, Mutation
<1> QED
  BY <1>5, <1>6, <1>7

\* The outcomes of a mutation, and what they leave true of Linear's data.
LEMMA Sent ==
  ASSUME Coherent, NEW r \in Request, NEW a, NEW m \in MutationSet, WellFormed(m), clock' = clock,
         Mutate(r, m, a)
  PROVE  /\ DataSound' /\ Evolves /\ issues' \in Seq(Issue) /\ clock' \in Nat
         /\ a = 200 => Apply(m)
         /\ late' \subseteq late \cup {m}
         /\ \/ Apply(m) /\ late' = late
            \/ UNCHANGED <<issues, comments, labels>>
<1>1. DataSound
  BY DEF Coherent, TypeOK, DataSound, LinearType
<1>2. /\ a = 200 => Apply(m)
      /\ late' \subseteq late \cup {m}
      /\ \/ Apply(m) /\ late' = late
         \/ UNCHANGED <<issues, comments, labels>>
  BY DEF Mutate, linearVars
<1>3. DataSound' /\ Evolves
  BY <1>1, <1>2, EffectKeeps
<1>4. issues' \in Seq(Issue) /\ clock' \in Nat
  BY <1>3 DEF DataSound, LinearType
<1> QED
  BY <1>2, <1>3, <1>4

\* The types after a step of r that changes no more than it may.
LEMMA TypeStep ==
  ASSUME TypeOK, DataSound', Evolves, NEW r \in Request, NEW l \in Calling \cup {"done"},
         pc' = [pc EXCEPT ![r] = l], UNCHANGED <<target, aged, gone, crashes, overlap>>,
         todo' \in [Request -> Seq(LabelSet)],
         err' = err \/ \E b \in {500, 502} : err' = [err EXCEPT ![r] = b],
         status' \in [Request -> {0, 200, 400, 500, 502}]
  PROVE  TypeOK'
<1>1. pc' \in [Request -> Calling \cup {"idle", "done", "lost"}]
  BY DEF TypeOK
<1>2. target' \in [Request -> 0..Len(issues')]
  <2>1. Len(issues) \in Nat /\ Len(issues') \in Nat /\ Len(issues) <= Len(issues')
    BY DEF TypeOK, DataSound, LinearType, Evolves
  <2>2. target \in [Request -> 0..Len(issues)]
    BY DEF TypeOK
  <2> QED
    BY <2>1, <2>2
<1>3. err' \in [Request -> {0, 500, 502}]
  <2>1. err \in [Request -> {0, 500, 502}]
    BY DEF TypeOK
  <2>2. ASSUME NEW b \in {500, 502}, err' = [err EXCEPT ![r] = b]
        PROVE  err' \in [Request -> {0, 500, 502}]
    BY <2>1, <2>2
  <2> QED
    BY <2>1, <2>2
<1>4. aged' \in [Request -> BOOLEAN] /\ gone' \in [Request -> BOOLEAN]
      /\ crashes' \in 0..MaxCrashes /\ overlap' \subseteq Request \X Request
  BY DEF TypeOK
<1> QED
  BY <1>1, <1>2, <1>3, <1>4, ZenonT(60) DEF TypeOK, DataSound, LinearType

\* A step of POST r that sends a mutation other than a create.
LEMMA WriteStep ==
  ASSUME Coherent, NEW r \in Request, Active(r), OnlyPost(r), TypeOK',
         NEW op \in {"label", "update", "comment", "archive"}, NEW a,
         WellFormed(Mutation(r, op)), Mutate(r, Mutation(r, op), a),
         UNCHANGED <<clock, overlap>>,
         NEW l, pc'[r] = l, l \in Creating => pc[r] \in Creating,
         BranchOf(r)'
  PROVE  Coherent'
<1>0. TypeOK
  BY DEF Coherent
<1>1. PICK m \in MutationSet : m = Mutation(r, op) /\ m.op = op /\ m.req = r
  BY <1>0, MutationOf
<1>2. /\ DataSound' /\ Evolves /\ issues' \in Seq(Issue) /\ clock' \in Nat
      /\ late' \subseteq late \cup {m}
      /\ Apply(m) \/ UNCHANGED <<issues, comments, labels>>
  BY <1>1, Sent
<1>3. \A s \in Request \ {r} : pc'[s] = pc[s]
  BY DEF OnlyPost
<1>4. BranchSound'
  BY <1>2, <1>3, LocalStep
<1>5. LateSound'
  <2>1. \A s \in Request : pc[s] \in {"done", "lost"} => pc'[s] = pc[s]
    BY <1>3 DEF Active, Calling
  <2>2. WellFormed(m)'
    <3>1. LinearType
      BY <1>0 DEF TypeOK, LinearType
    <3> QED
      BY <1>1, <1>2, <3>1, Stable
  <2>3. \A n \in late' \ late : n = m
    BY <1>2
  <2> QED
    BY <1>1, <1>2, <2>1, <2>2, <2>3, LateStep
<1>6. OneWriter' /\ OneOpenIssue'
  <2>1. \A g : ActiveFirings(g)' \subseteq ActiveFirings(g)
    BY ActiveShrinks
  <2>2. \A s \in Request : pc'[s] \in Creating => pc[s] \in Creating
    BY <1>3
  <2>3. \A g : LateCreates(g)' \subseteq LateCreates(g)
    BY <1>1, <1>2 DEF LateCreates
  <2>4. \A g : OpenIssues(g)' \subseteq OpenIssues(g)
    <3>1. CASE Apply(m)
      <4>1. DataSound
        BY <1>0 DEF Coherent, TypeOK, DataSound, LinearType
      <4> QED
        BY <1>1, <3>1, <4>1, OpenAfter
    <3>2. CASE issues' = issues
      BY <3>2 DEF OpenIssues
    <3> QED
      BY <1>2, <3>1, <3>2
  <2> QED
    BY <2>1, <2>2, <2>3, <2>4, Calm DEF Coherent
<1> QED
  BY <1>2, <1>4, <1>5, <1>6 DEF Coherent, DataSound

\* EnsureLabelByName: issueLabelCreate.
LEMMA IssueLabelStep ==
  ASSUME Coherent, NEW r \in Request, IssueLabelCreate(r)
  PROVE  Coherent'
<1>0. TypeOK /\ BranchOf(r) /\ todo[r] # <<>>
  BY DEF Coherent, BranchSound, BranchOf, IssueLabelCreate, Creating
<1>1. /\ pc[r] = "label_create" /\ Active(r) /\ pc[r] \in Creating \ {"create"}
      /\ UNCHANGED <<target, aged, gone, clock, crashes, overlap>>
  BY DEF IssueLabelCreate, Active, Calling, Creating
<1>2. CASE Answer(r, 500) /\ UNCHANGED <<todo, err, linearVars>>
  <2>1. pc' = [pc EXCEPT ![r] = "done"] /\ status' = [status EXCEPT ![r] = 500]
    BY <1>2 DEF Answer, Goto
  <2>2. DataSound' /\ Evolves
    BY <1>1, <1>2, Quiet
  <2>3. todo' \in [Request -> Seq(LabelSet)] /\ status' \in [Request -> {0, 200, 400, 500, 502}]
    BY <1>0, <1>2, <2>1 DEF TypeOK
  <2>4. TypeOK'
    BY <1>0, <1>1, <1>2, <2>1, <2>2, <2>3, TypeStep, ZenonT(60)
  <2>5. BranchOf(r)' /\ "done" \notin Creating
    <3>1. pc'[r] = "done"
      BY <1>0, <2>1 DEF TypeOK
    <3> QED
      BY <1>1, <3>1, CreatingStep DEF Creating
  <2>6. OnlyPost(r) /\ status'[r] # 200
    BY <1>0, <1>1, <1>2, <2>1 DEF OnlyPost, TypeOK
  <2> QED
    BY <1>1, <1>2, <2>1, <2>4, <2>5, <2>6, QueryStep
<1>3. ASSUME NEW a \in {200, 500, 502}, Mutate(r, Mutation(r, "label"), a), UNCHANGED status,
             IF a = 200 THEN LabelResolved(r) /\ UNCHANGED err
             ELSE /\ Goto(r, "label_requery") /\ UNCHANGED todo
                  /\ err' = [err EXCEPT ![r] = a]
      PROVE  Coherent'
  <2>1. WellFormed(Mutation(r, "label")) /\ Mutation(r, "label") \in MutationSet
    BY <1>0, MutationOf DEF WellFormed
  <2>2. DataSound' /\ Evolves
    BY <1>1, <1>3, <2>1, Sent
  <2>3. /\ todo' \in [Request -> Seq(LabelSet)] /\ \A s \in Request \ {r} : todo'[s] = todo[s]
        /\ err' = err \/ \E b \in {500, 502} : err' = [err EXCEPT ![r] = b]
        /\ \E l \in {"label_requery", "create", "label"} :
             /\ pc' = [pc EXCEPT ![r] = l]
             /\ l # "create" => todo'[r] # <<>>
    <3>1. CASE a = 200
      BY <1>1, <1>3, <3>1, ResolvedLabel
    <3>2. CASE a # 200
      BY <1>0, <1>3, <3>2 DEF Goto, TypeOK
    <3> QED
      BY <3>1, <3>2
  <2>4. PICK l \in {"label_requery", "create", "label"} :
             /\ pc' = [pc EXCEPT ![r] = l]
             /\ l # "create" => todo'[r] # <<>>
    BY <2>3
  <2>5. l \in Creating \cup {"done"} /\ l # "done" /\ l \in Calling
    BY <2>4 DEF Creating, Calling
  <2>6. TypeOK'
    <3>1. status' \in [Request -> {0, 200, 400, 500, 502}]
      BY <1>0, <1>3 DEF TypeOK
    <3> QED
      BY <1>0, <1>1, <2>2, <2>3, <2>4, <2>5, <3>1, TypeStep, ZenonT(60)
  <2>7. BranchOf(r)'
    <3>1. pc[r] \in Creating /\ UNCHANGED <<target, aged>>
      BY <1>1
    <3>2. l \in Creating \ {"create"} => todo'[r] # <<>>
      BY <2>4
    <3>3. pc'[r] = l
      BY <1>0, <2>4 DEF TypeOK
    <3> QED
      BY <2>5, <3>1, <3>2, <3>3, CreatingStep
  <2>8. OnlyPost(r)
    BY <1>0, <1>1, <1>3, <2>3, <2>4 DEF OnlyPost, TypeOK
  <2>9. l \in Creating => pc[r] \in Creating
    BY <1>1
  <2>10. UNCHANGED <<clock, overlap>> /\ Active(r) /\ ~(l = "done") /\ pc'[r] = l
    BY <1>0, <1>1, <2>4, <2>5 DEF TypeOK
  <2> QED
    BY <1>3, <2>1, <2>6, <2>7, <2>8, <2>9, <2>10, WriteStep
<1> QED
  BY <1>2, <1>3 DEF IssueLabelCreate

\* UpdateIssue, AddComment and ArchiveIssue: the call is about the issue that
\* was found, and the next one is made only when this one succeeded.
LEMMA CallStep ==
  ASSUME Coherent, NEW r \in Request, NEW at \in {"update", "comment", "archive"},
         NEW next \in {"comment", "archive", "done"}, CallThen(r, at, next),
         next = "comment" => at = "update" /\ aged[r],
         next = "archive" => at = "comment" /\ ~Firing(r),
         next = "done" => Firing(r) \/ at = "archive"
  PROVE  Coherent'
<1>0. TypeOK /\ BranchOf(r)
  BY DEF Coherent, BranchSound
<1>1. /\ pc[r] = at /\ Active(r) /\ at \notin Creating
      /\ UNCHANGED <<target, aged, todo, err, gone, clock, crashes, overlap>>
  BY DEF CallThen, Active, Calling, Creating
<1>2. PICK a \in {200, 500, 502} :
        /\ Mutate(r, Mutation(r, at), a)
        /\ IF a = 200 /\ next # "done" THEN Goto(r, next) /\ UNCHANGED status ELSE Answer(r, a)
  BY DEF CallThen
<1>3. PICK m \in MutationSet : m = Mutation(r, at) /\ m.op = at /\ m.req = r /\ m.issue = target[r]
  BY <1>0, MutationOf
<1>4. target[r] # 0 /\ InGroup(target[r], GroupOf[r]) /\ target[r] \in DOMAIN issues
  BY <1>0, <1>1 DEF BranchOf, InGroup
<1>5. WellFormed(m)
  BY <1>0, <1>1, <1>3, <1>4 DEF WellFormed, BranchOf
<1>6. /\ DataSound' /\ Evolves /\ issues' \in Seq(Issue) /\ clock' \in Nat
      /\ a = 200 => Apply(m)
  BY <1>1, <1>2, <1>3, <1>5, Sent
<1>7. \E l \in {"comment", "archive", "done"} :
        /\ pc' = [pc EXCEPT ![r] = l]
        /\ l # "done" => l = next /\ a = 200 /\ status' = status
        /\ l = "done" => (status' = [status EXCEPT ![r] = a]) /\ (a = 200 => next = "done")
  BY <1>2 DEF Answer, Goto
<1>8. PICK l \in {"comment", "archive", "done"} :
        /\ pc' = [pc EXCEPT ![r] = l]
        /\ l # "done" => l = next /\ a = 200 /\ status' = status
        /\ l = "done" => (status' = [status EXCEPT ![r] = a]) /\ (a = 200 => next = "done")
  BY <1>7
<1>9. TypeOK'
  <2>1. l \in Calling \cup {"done"} /\ status' \in [Request -> {0, 200, 400, 500, 502}]
    <3>1. status \in [Request -> {0, 200, 400, 500, 502}]
      BY <1>0 DEF TypeOK
    <3>2. status' = status \/ status' = [status EXCEPT ![r] = a]
      BY <1>8
    <3> QED
      BY <1>8, <3>1, <3>2 DEF Calling
  <2>2. todo' \in [Request -> Seq(LabelSet)]
    BY <1>0, <1>1 DEF TypeOK
  <2> QED
    BY <1>0, <1>1, <1>6, <1>8, <2>1, <2>2, TypeStep, ZenonT(60)
<1>10. pc'[r] = l /\ target'[r] = target[r] /\ aged'[r] = aged[r] /\ OnlyPost(r)
       /\ (l = "done" => status'[r] = a)
  BY <1>0, <1>1, <1>8 DEF TypeOK, OnlyPost
<1>11. LinearType /\ DataSound
  BY <1>0 DEF TypeOK, LinearType, Coherent, DataSound
<1>12. /\ InGroup(target[r], GroupOf[r])'
       /\ OldEnough(target[r]) => OldEnough(target[r])'
       /\ Explained(target[r]) => Explained(target[r])'
  <2>1. PICK i \in DOMAIN issues : i = target[r]
    BY <1>4
  <2>2. InGroup(i, GroupOf[r])' /\ (OldEnough(i) => OldEnough(i)') /\ (Explained(i) => Explained(i)')
    BY <1>4, <1>6, <1>11, <2>1, Stable
  <2>3. target'[r] = i
    BY <1>10, <2>1
  <2> QED
    BY <2>1, <2>2, <2>3 DEF InGroup, OldEnough, Explained
<1>13. l = "archive" => Explained(target[r])'
  <2> SUFFICES ASSUME l = "archive"
               PROVE  Explained(target[r])'
    OBVIOUS
  <2>1. m.op = "comment" /\ Apply(m) /\ ~Firing(r)
    BY <1>3, <1>6, <1>8
  <2>2. PICK c \in comments' : c.kind = CommentKind(m.req) /\ c.issue = m.issue /\ c.req = m.req
    BY <1>1, <1>5, <1>11, <2>1, CommentEffect
  <2>3. c.kind = "resolution" /\ c.issue = target'[r] /\ c.req = r
    BY <1>3, <1>10, <2>1, <2>2 DEF CommentKind
  <2> QED
    BY <1>12, <2>3 DEF Explained, InGroup
<1>14. BranchOf(r)'
  BY <1>0, <1>4, <1>8, <1>10, <1>12, <1>13 DEF BranchOf, Creating, Firing
<1>15. UNCHANGED <<clock, overlap>> /\ l \notin Creating
  BY <1>1, <1>8 DEF Creating
<1> QED
  BY <1>1, <1>2, <1>3, <1>5, <1>9, <1>10, <1>14, <1>15, WriteStep

\* CreateIssue: the only writer of the group makes the only open issue, or
\* leaves the only create of the group under way.
LEMMA CreateStep ==
  ASSUME Coherent, NEW r \in Request, CreateIssue(r)
  PROVE  Coherent'
<1>0. TypeOK /\ BranchOf(r) /\ DataSound
  BY DEF Coherent, BranchSound, TypeOK, LinearType, DataSound
<1>1. /\ pc[r] = "create" /\ Active(r) /\ pc[r] \in Creating /\ "done" \notin Creating
      /\ UNCHANGED <<target, aged, todo, err, gone, clock, crashes, overlap>>
  BY DEF CreateIssue, Active, Calling, Creating
<1>2. PICK a \in {200, 500, 502} : Mutate(r, Mutation(r, "create"), a) /\ Answer(r, a)
  BY DEF CreateIssue
<1>3. PICK m \in MutationSet : m = Mutation(r, "create") /\ m.op = "create" /\ m.req = r
  BY <1>0, MutationOf
<1>4. Firing(r) /\ target[r] = 0
  BY <1>0, <1>1 DEF BranchOf
<1>5. WellFormed(m)
  BY <1>3, <1>4 DEF WellFormed
<1>6. /\ DataSound' /\ Evolves /\ issues' \in Seq(Issue) /\ clock' \in Nat
      /\ a = 200 => Apply(m)
      /\ late' \subseteq late \cup {m}
      /\ \/ Apply(m) /\ late' = late
         \/ UNCHANGED <<issues, comments, labels>>
  BY <1>1, <1>2, <1>3, <1>5, Sent
<1>7. pc' = [pc EXCEPT ![r] = "done"] /\ status' = [status EXCEPT ![r] = a]
  BY <1>2 DEF Answer, Goto
<1>8. TypeOK'
  <2>1. todo' \in [Request -> Seq(LabelSet)]
    BY <1>0, <1>1 DEF TypeOK
  <2>2. status' \in [Request -> {0, 200, 400, 500, 502}]
    BY <1>0, <1>7 DEF TypeOK
  <2>3. "done" \in Calling \cup {"done"} /\ UNCHANGED <<target, aged, gone, crashes, overlap>> /\ err' = err
    BY <1>1
  <2> QED
    BY <1>0, <1>6, <1>7, <2>1, <2>2, <2>3, TypeStep, ZenonT(60)
<1>9. pc'[r] = "done" /\ status'[r] = a /\ target'[r] = 0 /\ OnlyPost(r)
  BY <1>0, <1>1, <1>4, <1>7 DEF TypeOK, OnlyPost
<1>10. BranchOf(r)'
  BY <1>1, <1>9, CreatingStep
<1>11. \A g : OpenIssues(g)' \subseteq OpenIssues(g) \cup (IF g = GroupOf[r] THEN {Len(issues) + 1} ELSE {})
  <2>1. CASE Apply(m)
    BY <1>0, <1>1, <1>3, <1>5, <2>1, OpenAfter
  <2>2. CASE issues' = issues
    BY <2>2 DEF OpenIssues
  <2> QED
    BY <1>6, <2>1, <2>2
<1>12. BranchSound'
  BY <1>6, <1>9, <1>10, LocalStep
<1>13. LateSound'
  <2>1. \A s \in Request : pc[s] \in {"done", "lost"} => pc'[s] = pc[s]
    BY <1>1, <1>9 DEF OnlyPost
  <2>2. WellFormed(m)'
    BY <1>3, <1>4 DEF WellFormed, Firing
  <2>3. \A n \in late' \ late : n = m
    BY <1>6
  <2> QED
    BY <1>3, <1>6, <1>9, <2>1, <2>2, <2>3, LateStep
<1>14. OneWriter' /\ OneOpenIssue'
  <2> DEFINE h == GroupOf[r]
  <2>1. h \in Group
    BY RequestAssumption
  <2>2. \A g : LateCreates(g)' \subseteq LateCreates(g) \cup (IF g = h THEN {m} ELSE {})
    BY <1>3, <1>6 DEF LateCreates
  <2>3. \A g : ActiveFirings(g)' \subseteq ActiveFirings(g) \ {r}
    <3>1. \A g : r \notin ActiveFirings(g)'
      BY <1>9 DEF ActiveFirings, Active, Calling
    <3> QED
      BY <1>1, <1>9, <3>1, ActiveShrinks
  <2>4. ASSUME ~FiringsOverlapped(h)
        PROVE  /\ OpenIssues(h) = {} /\ ActiveFirings(h)' = {}
               /\ \A k, l \in LateCreates(h)' : k = l
               /\ OpenIssues(h)' \subseteq {Len(issues) + 1}
               /\ LateCreates(h)' # {} => OpenIssues(h)' = {}
    <3>1. r \in ActiveFirings(h)
      BY <1>1, <1>4 DEF ActiveFirings
    <3>2. /\ \A s \in ActiveFirings(h) : s = r
          /\ LateCreates(h) = {} /\ OpenIssues(h) = {}
      BY <1>1, <2>1, <2>4, <3>1 DEF Coherent, OneWriter
    <3>3. ActiveFirings(h)' = {}
      BY <2>3, <3>2
    <3>4. LateCreates(h)' # {} => OpenIssues(h)' = {}
      <4>1. CASE late' = late
        BY <3>2, <4>1 DEF LateCreates
      <4>2. CASE issues' = issues
        BY <3>2, <4>2 DEF OpenIssues
      <4> QED
        BY <1>6, <4>1, <4>2
    <3> QED
      BY <1>11, <2>2, <3>2, <3>3, <3>4
  <2>5. \A g \in Group \ {h} : /\ OpenIssues(g)' \subseteq OpenIssues(g)
                               /\ ActiveFirings(g)' \subseteq ActiveFirings(g)
                               /\ LateCreates(g)' \subseteq LateCreates(g)
    BY <1>11, <2>2, <2>3
  <2>6. \A s \in Request : pc'[s] \in Creating => pc[s] \in Creating
    BY <1>1, <1>9 DEF OnlyPost
  <2>7. overlap' = overlap
    BY <1>1
  <2> HIDE DEF h
  <2> QED
    BY <2>1, <2>4, <2>5, <2>6, <2>7, OneCreate DEF Coherent
<1> QED
  BY <1>6, <1>8, <1>12, <1>13, <1>14 DEF Coherent, DataSound

-----------------------------------------------------------------------------
(* The other steps *)

\* Steps that leave Linear's data alone and in which POSTs may only end: a rejected payload, a client that hangs up, the passing of
\* time, a crash.
LEMMA SilentStep ==
  ASSUME Coherent, TypeOK', UNCHANGED <<linearVars, overlap>>, clock <= clock',
         UNCHANGED <<target, aged, todo>>,
         \A s \in Request :
           pc'[s] = pc[s] \/ (pc[s] \notin {"done", "lost"} /\ pc'[s] \in {"done", "lost"})
  PROVE  Coherent'
<1>0. TypeOK /\ DataSound /\ LinearType
  BY SMTT(30) DEF Coherent, TypeOK, LinearType, DataSound
<1>1. issues' = issues /\ comments' = comments /\ labels' = labels /\ late' = late
  BY DEF linearVars
<1>2. issues' \in Seq(Issue) /\ clock' \in Nat
  BY DEF TypeOK
<1>3. DataSound'
  BY <1>0, <1>1, <1>2 DEF DataSound, LinearType, ClosedIsExplained, CommentsInPlace
<1>4. Evolves
  BY <1>0, <1>1 DEF Evolves, LinearType
<1>5. ASSUME NEW s \in Request
      PROVE  BranchOf(s)'
  <2>1. CASE pc'[s] = pc[s]
    BY <1>2, <1>4, <2>1, StaysPut
  <2>2. CASE pc'[s] \in {"done", "lost"}
    <3>1. BranchOf(s)
      BY DEF Coherent, BranchSound
    <3>2. target[s] # 0 => target[s] \in DOMAIN issues
      BY <3>1 DEF BranchOf, InGroup
    <3>3. /\ \A i, g : InGroup(i, g) => InGroup(i, g)'
          /\ \A i \in DOMAIN issues : OldEnough(i) => OldEnough(i)'
      BY <1>0, <1>2, <1>4, Stable
    <3> QED
      BY <2>2, <3>1, <3>2, <3>3 DEF BranchOf, Creating, Firing
  <2> QED
    BY <2>1, <2>2
<1>6. BranchSound'
  BY <1>5 DEF BranchSound
<1>7. LateSound'
  BY <1>1, <1>2, <1>4, LateStep
<1>8. OneWriter' /\ OneOpenIssue'
  <2>1. \A g : OpenIssues(g)' = OpenIssues(g) /\ LateCreates(g)' = LateCreates(g)
    BY <1>1 DEF OpenIssues, LateCreates
  <2>2. \A g : ActiveFirings(g)' \subseteq ActiveFirings(g)
    BY DEF ActiveFirings, Active, Calling, Firing
  <2>3. \A s \in Request : pc'[s] \in Creating => pc[s] \in Creating
    BY DEF Creating
  <2> QED
    BY <2>1, <2>2, <2>3, Calm DEF Coherent
<1> QED
  BY <1>3, <1>6, <1>7, <1>8 DEF Coherent, DataSound

\* A POST begins.  If it is a firing one and no two firings of its group have
\* overlapped, it is now the only writer of the group.
LEMMA ArriveStep ==
  ASSUME Coherent, NEW r \in Request, Arrive(r)
  PROVE  Coherent'
<1>0. TypeOK /\ DataSound /\ LinearType /\ BranchOf(r)
  BY SMTT(30) DEF Coherent, TypeOK, LinearType, DataSound, BranchSound
<1>1. /\ pc[r] = "idle" /\ pc' = [pc EXCEPT ![r] = "find"]
      /\ overlap' = overlap \cup {<<s, r>> : s \in Unfinished(r)}
      /\ UNCHANGED <<target, aged, todo, err, status, gone, linearVars, clock, crashes>>
  BY DEF Arrive, Goto
<1>2. DataSound' /\ Evolves /\ \A g : OpenIssues(g)' = OpenIssues(g) /\ LateCreates(g)' = LateCreates(g)
  <2>1. UNCHANGED <<linearVars, clock>>
    BY <1>1
  <2> QED
    BY <2>1, Quiet
<1>3. TypeOK'
  <2>1. pc' \in [Request -> Calling \cup {"idle", "done", "lost"}]
    BY <1>0, <1>1 DEF TypeOK, Calling
  <2>2. overlap' \subseteq Request \X Request
    BY <1>0, <1>1 DEF TypeOK, Unfinished
  <2> QED
    BY <1>0, <1>1, <2>1, <2>2 DEF TypeOK, linearVars
<1>4. issues' \in Seq(Issue) /\ clock' \in Nat
  BY <1>3 DEF TypeOK
<1>5. pc'[r] = "find" /\ OnlyPost(r) /\ \A s \in Request \ {r} : pc'[s] = pc[s]
  BY <1>0, <1>1 DEF TypeOK, OnlyPost
<1>6. BranchOf(r)'
  <2>1. target[r] # 0 => target[r] \in DOMAIN issues
    BY <1>0 DEF BranchOf, InGroup
  <2> QED
    BY <1>0, <1>1, <1>5, <2>1 DEF BranchOf, Creating, Firing, InGroup, OldEnough, linearVars
<1>7. BranchSound'
  BY <1>2, <1>4, <1>5, <1>6, LocalStep
<1>8. LateSound'
  <2>1. late' \ late = {} /\ \A s \in Request : pc[s] \in {"done", "lost"} => pc'[s] = pc[s]
    BY <1>1, <1>5 DEF linearVars
  <2> QED
    BY <1>2, <1>4, <2>1, LateStep
<1>9. OneWriter' /\ OneOpenIssue'
  <2> SUFFICES ASSUME NEW g \in Group, ~FiringsOverlapped(g)'
               PROVE  /\ \A s, t \in ActiveFirings(g)' : s = t
                      /\ \A m, n \in LateCreates(g)' : m = n
                      /\ LateCreates(g)' = {} \/ ActiveFirings(g)' = {}
                      /\ LateCreates(g)' # {} => OpenIssues(g)' = {}
                      /\ \A s \in ActiveFirings(g)' : pc'[s] \in Creating => OpenIssues(g)' = {}
                      /\ \A i, j \in OpenIssues(g)' : i = j
    BY DEF OneWriter, OneOpenIssue
  <2>1. ~FiringsOverlapped(g)
    BY <1>1, OverlapGrows
  <2>2. /\ \A s, t \in ActiveFirings(g) : s = t
        /\ \A m, n \in LateCreates(g) : m = n
        /\ LateCreates(g) = {} \/ ActiveFirings(g) = {}
        /\ LateCreates(g) # {} => OpenIssues(g) = {}
        /\ \A s \in ActiveFirings(g) : pc[s] \in Creating => OpenIssues(g) = {}
        /\ \A i, j \in OpenIssues(g) : i = j
    BY <2>1 DEF Coherent, OneWriter, OneOpenIssue
  <2>3. \A s \in ActiveFirings(g)' \ {r} : s \in ActiveFirings(g) /\ pc'[s] = pc[s]
    BY <1>5 DEF ActiveFirings, Active, Firing
  <2>4. r \notin ActiveFirings(g) /\ "find" \notin Creating
    BY <1>1 DEF ActiveFirings, Active, Calling, Creating
  <2>5. CASE r \notin ActiveFirings(g)'
    BY <1>2, <2>2, <2>3, <2>5
  <2>6. CASE r \in ActiveFirings(g)'
    <3>1. Firing(r) /\ GroupOf[r] = g
      BY <2>6 DEF ActiveFirings, Firing
    <3>2. \A s \in Unfinished(r) : ~Firing(s)
      <4> SUFFICES ASSUME NEW s \in Unfinished(r), Firing(s)
                   PROVE  FALSE
        OBVIOUS
      <4>1. <<s, r>> \in overlap' /\ GroupOf[s] = g
        BY <1>1, <3>1 DEF Unfinished
      <4> QED
        BY <3>1, <4>1 DEF FiringsOverlapped, Firing
    <3>3. ActiveFirings(g) = {}
      <4> SUFFICES ASSUME NEW s \in ActiveFirings(g)
                   PROVE  FALSE
        OBVIOUS
      <4>1. s \in Unfinished(r) /\ Firing(s)
        BY <2>4, <3>1 DEF ActiveFirings, Unfinished
      <4> QED
        BY <3>2, <4>1
    <3>4. LateCreates(g) = {}
      <4> SUFFICES ASSUME NEW m \in LateCreates(g)
                   PROVE  FALSE
        OBVIOUS
      <4>1. m \in late /\ m.op = "create" /\ GroupOf[m.req] = g /\ m.req \in Request
        BY <1>0 DEF LateCreates, LinearType, MutationSet
      <4>2. Firing(m.req) /\ pc[m.req] \in {"done", "lost"}
        BY <4>1 DEF Coherent, LateSound, WellFormed
      <4>3. m.req \in Unfinished(r)
        BY <1>1, <3>1, <4>1, <4>2 DEF Unfinished
      <4> QED
        BY <3>2, <4>2, <4>3
    <3> QED
      BY <1>2, <1>5, <2>2, <2>3, <2>4, <3>3, <3>4
  <2> QED
    BY <2>5, <2>6
<1> QED
  BY <1>2, <1>3, <1>7, <1>8, <1>9 DEF Coherent, DataSound

\* A mutation that was left under way takes effect.
LEMMA TakeEffectStep ==
  ASSUME Coherent, NEW m \in late, TakeEffect(m)
  PROVE  Coherent'
<1>0. TypeOK /\ DataSound /\ LinearType /\ m \in MutationSet /\ m.req \in Request
  BY ZenonT(60) DEF Coherent, TypeOK, LinearType, DataSound, MutationSet
<1>1. /\ pc' = pc /\ target' = target /\ aged' = aged /\ todo' = todo /\ err' = err
      /\ status' = status /\ gone' = gone /\ clock' = clock /\ crashes' = crashes
      /\ overlap' = overlap /\ late' = late \ {m} /\ Apply(m)
  BY DEF TakeEffect, adapterVars
<1>2. WellFormed(m)
  BY DEF Coherent, LateSound
<1>3. DataSound' /\ Evolves
  <2>1. late' \subseteq late \cup {m}
    BY <1>1
  <2> QED
    BY <1>0, <1>1, <1>2, <2>1, EffectKeeps
<1>4. issues' \in Seq(Issue) /\ clock' \in Nat
  BY <1>3 DEF DataSound, LinearType
<1>5. TypeOK'
  <2>1. target' \in [Request -> 0..Len(issues')]
    <3>1. Len(issues) \in Nat /\ Len(issues') \in Nat /\ Len(issues) <= Len(issues')
      BY <1>0, <1>3, <1>4 DEF LinearType, Evolves
    <3>2. target \in [Request -> 0..Len(issues)]
      BY <1>0 DEF TypeOK
    <3> QED
      BY <1>1, <3>1, <3>2
  <2> QED
    BY <1>0, <1>1, <1>3, <2>1 DEF TypeOK, DataSound, LinearType
<1>6. BranchSound'
  <2>1. \A s \in Request : BranchOf(s)'
    BY <1>1, <1>3, <1>4, StaysPut
  <2> QED
    BY <2>1 DEF BranchSound
<1>7. LateSound'
  <2>1. late' \ late = {} /\ \A s \in Request : pc[s] \in {"done", "lost"} => pc'[s] = pc[s]
    BY <1>1
  <2> QED
    BY <1>3, <1>4, <2>1, LateStep
<1>8. \A g : ActiveFirings(g)' = ActiveFirings(g) /\ LateCreates(g)' = LateCreates(g) \ {m}
  BY <1>1 DEF ActiveFirings, Active, Firing, LateCreates
<1>9. \A g : OpenIssues(g)' \subseteq
         OpenIssues(g) \cup (IF m.op = "create" /\ g = GroupOf[m.req] THEN {Len(issues) + 1} ELSE {})
  BY <1>0, <1>1, <1>2, OpenAfter
<1>10. OneWriter' /\ OneOpenIssue'
  <2>1. CASE m.op = "create"
    <3> DEFINE h == GroupOf[m.req]
    <3>1. h \in Group /\ m \in LateCreates(h)
      BY <1>0, <2>1, RequestAssumption DEF LateCreates
    <3>2. ASSUME ~FiringsOverlapped(h)
          PROVE  /\ OpenIssues(h) = {} /\ ActiveFirings(h)' = {}
                 /\ \A k, l \in LateCreates(h)' : k = l
                 /\ OpenIssues(h)' \subseteq {Len(issues) + 1}
                 /\ LateCreates(h)' # {} => OpenIssues(h)' = {}
      <4>1. /\ \A k \in LateCreates(h) : k = m
            /\ ActiveFirings(h) = {} /\ OpenIssues(h) = {}
        BY <3>1, <3>2 DEF Coherent, OneWriter
      <4> QED
        BY <1>8, <1>9, <4>1
    <3>3. \A g \in Group \ {h} : /\ OpenIssues(g)' \subseteq OpenIssues(g)
                                 /\ ActiveFirings(g)' \subseteq ActiveFirings(g)
                                 /\ LateCreates(g)' \subseteq LateCreates(g)
      BY <1>8, <1>9
    <3>4. overlap' = overlap /\ \A s \in Request : pc'[s] \in Creating => pc[s] \in Creating
      BY <1>1
    <3> HIDE DEF h
    <3> QED
      BY <3>1, <3>2, <3>3, <3>4, OneCreate DEF Coherent
  <2>2. CASE m.op # "create"
    <3>1. \A g \in Group : /\ OpenIssues(g)' \subseteq OpenIssues(g)
                           /\ ActiveFirings(g)' \subseteq ActiveFirings(g)
                           /\ LateCreates(g)' \subseteq LateCreates(g)
      BY <1>8, <1>9, <2>2
    <3> QED
      BY <1>1, <3>1, Calm DEF Coherent
  <2> QED
    BY <2>1, <2>2
<1> QED
  BY <1>3, <1>5, <1>6, <1>7, <1>10 DEF Coherent, DataSound

-----------------------------------------------------------------------------
(* Coherent is an inductive invariant *)

\* Before the first POST, with a Linear team that has no issue of the adapter's.
LEMMA InitCoherent == Init => Coherent
<1> SUFFICES ASSUME Init
             PROVE  Coherent
  OBVIOUS
<1>1. /\ issues = <<>> /\ DOMAIN issues = {} /\ Len(issues) = 0 /\ issues \in Seq(Issue)
      /\ comments = {} /\ labels = {} /\ late = {} /\ overlap = {}
  BY DEF Init
<1>2. \A r \in Request : /\ pc[r] = "idle" /\ target[r] = 0 /\ aged[r] = FALSE /\ todo[r] = <<>>
                         /\ err[r] = 0 /\ status[r] = 0 /\ gone[r] = FALSE
  BY DEF Init
<1>3. TypeOK
  <2>1. /\ pc \in [Request -> Calling \cup {"idle", "done", "lost"}]
        /\ target \in [Request -> 0..Len(issues)]
        /\ aged \in [Request -> BOOLEAN] /\ gone \in [Request -> BOOLEAN]
    BY <1>1 DEF Init
  <2>2. todo \in [Request -> Seq(LabelSet)]
    BY DEF Init
  <2>3. err \in [Request -> {0, 500, 502}] /\ status \in [Request -> {0, 200, 400, 500, 502}]
    BY DEF Init
  <2>4. clock \in Nat /\ crashes \in 0..MaxCrashes
    BY ClockAssumption DEF Init
  <2> QED
    BY <1>1, <2>1, <2>2, <2>3, <2>4 DEF TypeOK
<1>4. BranchSound
  BY <1>2 DEF BranchSound, BranchOf, Creating
<1>5. LateSound
  BY <1>1 DEF LateSound
<1>6. OneOpenIssue /\ ClosedIsExplained /\ CommentsInPlace
  BY <1>1 DEF OneOpenIssue, OpenIssues, ClosedIsExplained, CommentsInPlace
<1>7. OneWriter
  <2>1. \A g : LateCreates(g) = {} /\ ActiveFirings(g) = {}
    BY <1>1, <1>2 DEF LateCreates, ActiveFirings, Active, Calling
  <2> QED
    BY <2>1 DEF OneWriter
<1> QED
  BY <1>3, <1>4, <1>5, <1>6, <1>7 DEF Coherent

\* One case per step of the adapter, of Linear, of time, and the crash.
LEMMA NextCoherent == Coherent /\ [Next]_vars => Coherent'
<1> SUFFICES ASSUME Coherent, [Next]_vars
             PROVE  Coherent'
  OBVIOUS
<1>0. TypeOK
  BY DEF Coherent
<1>1. ASSUME NEW r \in Request, RejectPayload(r)
      PROVE  Coherent'
  <2>1. /\ pc[r] = "idle" /\ pc' = [pc EXCEPT ![r] = "done"] /\ status' = [status EXCEPT ![r] = 400]
        /\ UNCHANGED <<target, aged, todo, err, gone, linearVars, clock, crashes, overlap>>
    BY <1>1 DEF RejectPayload, Answer, Goto
  <2>2. TypeOK'
    BY <1>0, <2>1, SMTT(30) DEF TypeOK, linearVars
  <2>3. \A s \in Request :
          \/ pc'[s] = pc[s] /\ status'[s] = status[s]
          \/ pc[s] \notin {"done", "lost"} /\ pc'[s] = "done" /\ status'[s] # 200
    BY <1>0, <2>1 DEF TypeOK
  <2>4. clock <= clock'
    BY <1>0, <2>1 DEF TypeOK
  <2> QED
    BY <2>1, <2>2, <2>3, <2>4, SilentStep
<1>2. ASSUME NEW r \in Request, HangUp(r)
      PROVE  Coherent'
  <2>1. /\ UNCHANGED <<pc, target, aged, todo, err, status, linearVars, clock, crashes, overlap>>
        /\ gone' = [gone EXCEPT ![r] = TRUE]
    BY <1>2 DEF HangUp
  <2>2. TypeOK' /\ clock <= clock'
    BY <1>0, <2>1 DEF TypeOK, linearVars
  <2> QED
    BY <2>1, <2>2, SilentStep
<1>3. CASE Tick
  <2>1. /\ UNCHANGED <<adapterVars, linearVars, crashes, overlap>> /\ clock' = clock + 1
        /\ UNCHANGED <<pc, target, aged, todo, err, status, gone>>
    BY <1>3 DEF Tick, adapterVars
  <2>2. TypeOK' /\ clock <= clock'
    BY <1>0, <2>1 DEF TypeOK, linearVars
  <2> QED
    BY <2>1, <2>2, SilentStep
<1>4. CASE Crash
  <2>1. /\ pc' = [r \in Request |-> IF Active(r) THEN "lost" ELSE pc[r]]
        /\ crashes < MaxCrashes /\ crashes' = crashes + 1
        /\ UNCHANGED <<target, aged, todo, err, status, gone, linearVars, clock, overlap>>
    BY <1>4 DEF Crash
  <2>2. TypeOK' /\ clock <= clock'
    <3>1. pc' \in [Request -> Calling \cup {"idle", "done", "lost"}]
      BY <1>0, <2>1 DEF TypeOK
    <3>2. crashes' \in 0..MaxCrashes
      BY <1>0, <2>1, ClockAssumption DEF TypeOK
    <3> QED
      BY <1>0, <2>1, <3>1, <3>2 DEF TypeOK, linearVars
  <2>3. \A s \in Request :
          \/ pc'[s] = pc[s] /\ status'[s] = status[s]
          \/ pc[s] \notin {"done", "lost"} /\ pc'[s] = "lost"
    BY <2>1 DEF Active, Calling
  <2> QED
    BY <2>1, <2>2, <2>3, SilentStep
<1>5. ASSUME NEW r \in Request, UpdateIssue(r)
      PROVE  Coherent'
  <2>1. Firing(r)
    BY <1>5 DEF Coherent, BranchSound, BranchOf, UpdateIssue, CallThen
  <2>2. CASE aged[r]
    BY <1>5, <2>2, CallStep DEF UpdateIssue
  <2>3. CASE ~aged[r]
    BY <1>5, <2>1, <2>3, CallStep DEF UpdateIssue
  <2> QED
    BY <2>2, <2>3
<1>6. ASSUME NEW r \in Request, AddComment(r)
      PROVE  Coherent'
  <2>1. CASE Firing(r)
    BY <1>6, <2>1, CallStep DEF AddComment
  <2>2. CASE ~Firing(r)
    BY <1>6, <2>2, CallStep DEF AddComment
  <2> QED
    BY <2>1, <2>2
<1>7. ASSUME NEW r \in Request, ArchiveIssue(r)
      PROVE  Coherent'
  BY <1>7, CallStep DEF ArchiveIssue
<1>8. ASSUME NEW r \in Request, Step(r)
      PROVE  Coherent'
  BY <1>5, <1>6, <1>7, <1>8, FindStep, FindLabelStep, IssueLabelStep, RequeryStep, CreateStep DEF Step
<1>9. CASE UNCHANGED vars
  <2>1. /\ UNCHANGED <<pc, target, aged, todo, err, status, gone, crashes>>
        /\ UNCHANGED <<linearVars, overlap>> /\ clock' = clock
    BY <1>9 DEF vars, adapterVars
  <2>2. TypeOK' /\ clock <= clock'
    BY <1>0, <2>1 DEF TypeOK, linearVars
  <2> QED
    BY <2>1, <2>2, SilentStep
<1> QED
  BY <1>1, <1>2, <1>3, <1>4, <1>8, <1>9, ArriveStep, TakeEffectStep DEF Next

\* In every state the webhook adapter and Linear can reach, every part of the
\* inductive invariant holds: where a POST is says which issue it holds, what
\* is still under way is sound, and a group has one writer at a time unless
\* its firing POSTs overlapped.
THEOREM AlwaysCoherent == Spec => []Coherent
<1>1. Init => Coherent
  BY InitCoherent
<1>2. Coherent /\ [Next]_vars => Coherent'
  BY NextCoherent
<1> QED
  BY <1>1, <1>2, PTL DEF Spec

\* Every variable keeps its type; no branch of the handlers goes on with a nil
\* issue.
THEOREM LinearTyped == Spec => []TypeOK
<1>1. Coherent => TypeOK
  BY DEF Coherent
<1> QED
  BY <1>1, AlwaysCoherent, PTL

\* The dedup query followed by the write keeps a group at one open issue, for
\* any number of POSTs, retries, crashes, lost and late calls, as long as no
\* two firing POSTs of the group overlap.
THEOREM OneOpenIssueHolds == Spec => []OneOpenIssue
<1>1. Coherent => OneOpenIssue
  BY DEF Coherent
<1> QED
  BY <1>1, AlwaysCoherent, PTL

\* handleResolved archives an issue only after its resolution comment is on
\* it, whatever is lost, late or repeated.
THEOREM ClosedIsExplainedHolds == Spec => []ClosedIsExplained
<1>1. Coherent => ClosedIsExplained
  BY DEF Coherent
<1> QED
  BY <1>1, AlwaysCoherent, PTL

\* Updates and comments land on issues of the POST's own group, and a re-firing
\* comment never on an issue younger than RecommentMinInterval.
THEOREM CommentsInPlaceHolds == Spec => []CommentsInPlace
<1>1. Coherent => CommentsInPlace
  BY DEF Coherent
<1> QED
  BY <1>1, AlwaysCoherent, PTL

-----------------------------------------------------------------------------
(* The labels of an issue are labels of the team *)

\* A name that a creating POST has not seen among the team's labels is still to
\* be translated; before the create none is left.
NamesLeft(r) ==
  /\ pc[r] \in Creating =>
       \A l \in LabelNames(r) : l \in labels \/ \E i \in DOMAIN todo[r] : todo[r][i] = l
  /\ pc[r] = "create" => todo[r] = <<>>

\* A create that is under way only uses ids that Linear gave.
LateLabelled == \A m \in late : m.op = "create" => LabelNames(m.req) \subseteq labels

\* LabelsExist, with what makes it inductive.
Labelled == LabelsExist /\ LateLabelled /\ \A r \in Request : NamesLeft(r)

\* A mutation removes no label, and an issue it creates has labels of the team.
LEMMA LabelEffect ==
  ASSUME Coherent, LabelsExist, LateLabelled, NEW m \in MutationSet, WellFormed(m), clock' = clock,
         m.op = "create" => LabelNames(m.req) \subseteq labels,
         late' \subseteq late \cup {m},
         Apply(m) \/ UNCHANGED <<issues, comments, labels>>
  PROVE  labels \subseteq labels' /\ LabelsExist' /\ LateLabelled'
<1>1. labels \subseteq labels'
  BY DEF Apply
<1>2. LateLabelled'
  BY <1>1 DEF LateLabelled
<1>3. LabelsExist'
  <2>1. CASE Apply(m)
    <3>1. LinearType
      BY DEF Coherent, TypeOK, LinearType
    <3>2. issues' \in Seq(Issue) /\ Evolves
      BY <2>1, <3>1, ApplyEffect
    <3>3. DOMAIN issues = 1..Len(issues) /\ DOMAIN issues' = 1..Len(issues') /\ Len(issues) \in Nat
      BY <3>1, <3>2 DEF LinearType
    <3> SUFFICES ASSUME NEW i \in DOMAIN issues'
                 PROVE  issues'[i].labels \subseteq labels'
      BY DEF LabelsExist
    <3>4. CASE i \in DOMAIN issues
      BY <1>1, <3>2, <3>4 DEF LabelsExist, Evolves
    <3>5. CASE i \notin DOMAIN issues
      <4>1. m.op # "create" => Len(issues') = Len(issues)
        BY <2>1, <3>1, ApplyEffect
      <4>2. m.op = "create"
        BY <3>3, <3>5, <4>1
      <4>3. /\ Len(issues') = Len(issues) + 1
            /\ issues'[Len(issues) + 1] = [open |-> TRUE, labels |-> LabelNames(m.req),
                                           created |-> clock, written |-> {m.req}]
        BY <2>1, <3>1, <4>2, ApplyEffect
      <4>4. i = Len(issues) + 1
        BY <3>3, <3>5, <4>3
      <4>5. issues'[i].labels = LabelNames(m.req)
        BY <4>3, <4>4
      <4> QED
        BY <1>1, <4>2, <4>5
    <3> QED
      BY <3>4, <3>5
  <2>2. CASE UNCHANGED <<issues, comments, labels>>
    BY <2>2 DEF LabelsExist
  <2> QED
    BY <2>1, <2>2
<1> QED
  BY <1>1, <1>2, <1>3

\* A POST that stays where it is, or is not creating, has what it needs.
LEMMA NamesStay ==
  ASSUME NEW s \in Request, NamesLeft(s), labels \subseteq labels',
         pc'[s] \in Creating => pc'[s] = pc[s] /\ todo'[s] = todo[s]
  PROVE  NamesLeft(s)'
<1>1. "create" \in Creating
  BY DEF Creating
<1>2. CASE pc'[s] \notin Creating
  BY <1>1, <1>2 DEF NamesLeft
<1>3. CASE pc'[s] = pc[s] /\ todo'[s] = todo[s]
  BY <1>3 DEF NamesLeft
<1> QED
  BY <1>2, <1>3

\* What is left of a sequence after its head.
LEMMA HeadOrTail ==
  ASSUME NEW S, NEW q \in Seq(S), q # <<>>, NEW i \in DOMAIN q
  PROVE  q[i] = Head(q) \/ \E j \in DOMAIN Tail(q) : Tail(q)[j] = q[i]
<1>1. Len(q) \in Nat /\ DOMAIN q = 1..Len(q) /\ i \in 1..Len(q) /\ Len(q) # 0
  BY EmptySeq
<1>2. CASE i = 1
  BY <1>2
<1>3. CASE i # 1
  <2>1. /\ DOMAIN Tail(q) = 1..(Len(q) - 1)
        /\ \A j \in 1..(Len(q) - 1) : Tail(q)[j] = q[j + 1]
    BY <1>1
  <2>2. i - 1 \in 1..(Len(q) - 1) /\ (i - 1) + 1 = i
    BY <1>1, <1>3
  <2>3. Tail(q)[i - 1] = q[i]
    BY <2>1, <2>2
  <2> QED
    BY <2>1, <2>2, <2>3
<1> QED
  BY <1>2, <1>3

\* LabelResolved: the head is a label of the team, the rest is still to do.
LEMMA NamesResolved ==
  ASSUME Coherent, NEW r \in Request, pc[r] \in Creating \ {"create"}, LabelResolved(r),
         NamesLeft(r), labels \subseteq labels', Head(todo[r]) \in labels'
  PROVE  NamesLeft(r)'
<1>1. /\ todo \in [Request -> Seq(LabelSet)] /\ todo[r] # <<>>
      /\ pc \in [Request -> Calling \cup {"idle", "done", "lost"}]
  BY DEF Coherent, TypeOK, BranchSound, BranchOf
<1>2. PICK q \in Seq(LabelSet) : q = todo[r] /\ q # <<>>
  BY <1>1
<1>3. todo'[r] = Tail(q)
  BY <1>1, <1>2 DEF LabelResolved
<1>4. ASSUME NEW l \in LabelNames(r)
      PROVE  l \in labels' \/ \E i \in DOMAIN todo'[r] : todo'[r][i] = l
  <2>1. CASE l \in labels
    BY <2>1
  <2>2. CASE l \notin labels
    <3>1. PICK i \in DOMAIN q : q[i] = l
      BY <1>2, <1>4, <2>2 DEF NamesLeft
    <3>2. q[i] = Head(q) \/ \E j \in DOMAIN Tail(q) : Tail(q)[j] = q[i]
      BY <1>2, HeadOrTail
    <3> QED
      BY <1>2, <1>3, <3>1, <3>2
  <2> QED
    BY <2>1, <2>2
<1>5. pc'[r] = "create" => todo'[r] = <<>>
  <2>1. CASE Len(q) = 1
    <3>1. Tail(q) \in Seq(LabelSet) /\ Len(Tail(q)) = 0
      BY <1>2, <2>1
    <3> QED
      BY <1>3, <3>1, EmptySeq
  <2>2. CASE Len(q) # 1
    BY <1>1, <1>2, <2>2 DEF LabelResolved, Goto
  <2> QED
    BY <2>1, <2>2
<1> QED
  BY <1>4, <1>5 DEF NamesLeft

\* A step that leaves Linear alone and lets no POST go on creating.
LEMMA UnlabelledStep ==
  ASSUME Labelled, UNCHANGED linearVars,
         \A s \in Request : pc'[s] \in Creating => pc'[s] = pc[s] /\ todo'[s] = todo[s]
  PROVE  Labelled'
<1>1. issues' = issues /\ labels' = labels /\ late' = late
  BY DEF linearVars
<1>2. \A s \in Request : NamesLeft(s)'
  BY <1>1, NamesStay DEF Labelled
<1> QED
  BY <1>1, <1>2 DEF Labelled, LabelsExist, LateLabelled

\* A step of r that queries Linear, after which r has what it needs.
LEMMA QueryLabelled ==
  ASSUME Labelled, UNCHANGED linearVars, NEW r \in Request, NamesLeft(r)',
         \A s \in Request \ {r} : pc'[s] = pc[s] /\ todo'[s] = todo[s]
  PROVE  Labelled'
<1>1. issues' = issues /\ labels' = labels /\ late' = late
  BY DEF linearVars
<1>2. \A s \in Request \ {r} : NamesLeft(s)'
  BY <1>1, NamesStay DEF Labelled
<1> QED
  BY <1>1, <1>2 DEF Labelled, LabelsExist, LateLabelled

\* FindIssuesByLabel: a firing POST that finds nothing has every name to translate.
LEMMA FindLabelled ==
  ASSUME Coherent, Labelled, NEW r \in Request, FindIssuesByLabel(r)
  PROVE  Labelled'
<1>1. /\ pc \in [Request -> Calling \cup {"idle", "done", "lost"}]
      /\ todo \in [Request -> Seq(LabelSet)] /\ UNCHANGED linearVars
  BY DEF Coherent, TypeOK, FindIssuesByLabel, Query
<1>2. PICK a \in Answers(r) :
        IF a # 200 THEN Answer(r, a) /\ UNCHANGED <<target, aged, todo>>
        ELSE \E i \in pickMostRecentOpen(GroupOf[r]) : Proceed(r, i)
  BY DEF FindIssuesByLabel
<1>3. CASE a # 200
  <2>1. pc' = [pc EXCEPT ![r] = "done"] /\ todo' = todo
    BY <1>2, <1>3 DEF Answer, Goto
  <2>2. \A s \in Request : pc'[s] \in Creating => pc'[s] = pc[s] /\ todo'[s] = todo[s]
    BY <1>1, <2>1 DEF Creating
  <2> QED
    BY <1>1, <2>2, UnlabelledStep
<1>4. CASE a = 200
  <2>1. PICK i : Proceed(r, i)
    BY <1>2, <1>4
  <2>2. PICK l : l = Branch(r, i)
    OBVIOUS
  <2>3. /\ pc' = [pc EXCEPT ![r] = l]
        /\ todo' = [todo EXCEPT ![r] = IF Firing(r) /\ i = 0 THEN BuildLabels(r) ELSE <<>>]
    BY <2>1, <2>2 DEF Proceed, Answer, Goto
  <2>4. l \in Creating => Firing(r) /\ i = 0 /\ l # "create"
    BY <2>2 DEF Branch, Creating
  <2>5. pc'[r] = l /\ (l \in Creating => todo'[r] = BuildLabels(r))
    BY <1>1, <2>3, <2>4
  <2>6. NamesLeft(r)'
    BY <2>4, <2>5 DEF NamesLeft, LabelNames, Creating
  <2>7. \A s \in Request \ {r} : pc'[s] = pc[s] /\ todo'[s] = todo[s]
    BY <1>1, <2>3
  <2> QED
    BY <1>1, <2>6, <2>7, QueryLabelled
<1> QED
  BY <1>3, <1>4

\* EnsureLabelByName, the two queries: a name is passed over only when Linear
\* has shown it.
LEMMA EnsureLabelled ==
  ASSUME Coherent, Labelled, NEW r \in Request, FindLabel(r) \/ RequeryLabel(r)
  PROVE  Labelled'
<1>1. /\ pc \in [Request -> Calling \cup {"idle", "done", "lost"}]
      /\ todo \in [Request -> Seq(LabelSet)] /\ UNCHANGED linearVars
      /\ pc[r] \in Creating \ {"create"} /\ NamesLeft(r)
  BY DEF Coherent, TypeOK, FindLabel, RequeryLabel, Query, Creating, Labelled
<1>2. \/ Head(todo[r]) \in labels /\ LabelResolved(r)
      \/ pc' = [pc EXCEPT ![r] = "done"] /\ todo' = todo
      \/ pc' = [pc EXCEPT ![r] = "label_create"] /\ todo' = todo
  BY DEF FindLabel, RequeryLabel, Answer, Goto
<1>3. CASE Head(todo[r]) \in labels /\ LabelResolved(r)
  <2>1. labels' = labels
    BY <1>1 DEF linearVars
  <2>2. NamesLeft(r)'
    BY <1>1, <1>3, <2>1, NamesResolved
  <2>3. \A s \in Request \ {r} : pc'[s] = pc[s] /\ todo'[s] = todo[s]
    BY <1>1, <1>3 DEF LabelResolved, Goto
  <2> QED
    BY <1>1, <2>2, <2>3, QueryLabelled
<1>4. CASE pc' = [pc EXCEPT ![r] = "done"] /\ todo' = todo
  <2>1. \A s \in Request : pc'[s] \in Creating => pc'[s] = pc[s] /\ todo'[s] = todo[s]
    BY <1>1, <1>4 DEF Creating
  <2> QED
    BY <1>1, <2>1, UnlabelledStep
<1>5. CASE pc' = [pc EXCEPT ![r] = "label_create"] /\ todo' = todo
  <2>1. labels' = labels
    BY <1>1 DEF linearVars
  <2>2. pc'[r] = "label_create" /\ todo'[r] = todo[r]
    BY <1>1, <1>5
  <2>3. NamesLeft(r)'
    BY <1>1, <2>1, <2>2 DEF NamesLeft
  <2>4. \A s \in Request \ {r} : pc'[s] = pc[s] /\ todo'[s] = todo[s]
    BY <1>1, <1>5
  <2> QED
    BY <1>1, <2>3, <2>4, QueryLabelled
<1> QED
  BY <1>2, <1>3, <1>4, <1>5

\* A step of r that sends mutation m.
LEMMA SentLabelled ==
  ASSUME Coherent, Labelled, NEW r \in Request, NEW m \in MutationSet, WellFormed(m),
         m.op = "create" => LabelNames(m.req) \subseteq labels,
         NEW a, Mutate(r, m, a), clock' = clock,
         labels \subseteq labels' => NamesLeft(r)',
         \A s \in Request \ {r} : pc'[s] = pc[s] /\ todo'[s] = todo[s]
  PROVE  Labelled'
<1>1. /\ late' \subseteq late \cup {m}
      /\ Apply(m) \/ UNCHANGED <<issues, comments, labels>>
  BY Sent
<1>2. labels \subseteq labels' /\ LabelsExist' /\ LateLabelled'
  BY <1>1, LabelEffect DEF Labelled
<1>3. \A s \in Request \ {r} : NamesLeft(s)'
  BY <1>2, NamesStay DEF Labelled
<1> QED
  BY <1>2, <1>3 DEF Labelled

\* issueLabelCreate: a success makes the name a label of the team.
LEMMA LabelCreateLabelled ==
  ASSUME Coherent, Labelled, NEW r \in Request, IssueLabelCreate(r)
  PROVE  Labelled'
<1>1. /\ pc \in [Request -> Calling \cup {"idle", "done", "lost"}]
      /\ todo \in [Request -> Seq(LabelSet)] /\ todo[r] # <<>> /\ TypeOK
      /\ pc[r] \in Creating \ {"create"} /\ NamesLeft(r) /\ clock' = clock
  BY DEF Coherent, TypeOK, IssueLabelCreate, Creating, Labelled, BranchSound, BranchOf
<1>2. CASE Answer(r, 500) /\ UNCHANGED <<todo, err, linearVars>>
  <2>1. \A s \in Request : pc'[s] \in Creating => pc'[s] = pc[s] /\ todo'[s] = todo[s]
    BY <1>1, <1>2 DEF Creating, Answer, Goto
  <2> QED
    BY <1>2, <2>1, UnlabelledStep
<1>3. ASSUME NEW a \in {200, 500, 502}, Mutate(r, Mutation(r, "label"), a),
             IF a = 200 THEN LabelResolved(r)
             ELSE pc' = [pc EXCEPT ![r] = "label_requery"] /\ UNCHANGED todo
      PROVE  Labelled'
  <2>1. PICK m \in MutationSet : /\ m = Mutation(r, "label") /\ m.op = "label"
                                 /\ m.label = Head(todo[r]) /\ m.label # NoLabel
    <3>1. Mutation(r, "label").label = Head(todo[r])
      BY <1>1 DEF Mutation
    <3>2. /\ Mutation(r, "label") \in MutationSet /\ Mutation(r, "label").op = "label"
          /\ Mutation(r, "label").label # NoLabel
      BY <1>1, MutationOf
    <3> QED
      BY <3>1, <3>2
  <2>2. WellFormed(m)
    BY <2>1 DEF WellFormed
  <2>3. ASSUME labels \subseteq labels'
        PROVE  NamesLeft(r)'
    <3>1. CASE a = 200
      <4>1. Apply(m)
        BY <1>1, <1>3, <2>1, <2>2, <3>1, Sent
      <4>2. Head(todo[r]) \in labels'
        BY <2>1, <4>1 DEF Apply
      <4> QED
        BY <1>1, <1>3, <2>3, <3>1, <4>2, NamesResolved
    <3>2. CASE a # 200
      <4>1. pc'[r] = "label_requery" /\ todo'[r] = todo[r]
        BY <1>1, <1>3, <3>2
      <4> QED
        BY <1>1, <2>3, <4>1 DEF NamesLeft
    <3> QED
      BY <3>1, <3>2
  <2>4. \A s \in Request \ {r} : pc'[s] = pc[s] /\ todo'[s] = todo[s]
    <3>1. CASE a = 200
      BY <1>1, <1>3, <3>1 DEF LabelResolved, Goto
    <3>2. CASE a # 200
      BY <1>1, <1>3, <3>2
    <3> QED
      BY <3>1, <3>2
  <2> QED
    BY <1>1, <1>3, <2>1, <2>2, <2>3, <2>4, SentLabelled
<1> QED
  BY <1>2, <1>3 DEF IssueLabelCreate, Goto

\* CreateIssue: no name was left when the POST came here.
LEMMA CreateLabelled ==
  ASSUME Coherent, Labelled, NEW r \in Request, CreateIssue(r)
  PROVE  Labelled'
<1>1. /\ pc \in [Request -> Calling \cup {"idle", "done", "lost"}] /\ TypeOK
      /\ pc[r] = "create" /\ pc[r] \in Creating /\ NamesLeft(r) /\ Firing(r)
      /\ clock' = clock /\ todo' = todo
  BY DEF Coherent, TypeOK, CreateIssue, Creating, Labelled, BranchSound, BranchOf
<1>2. PICK a \in {200, 500, 502} : Mutate(r, Mutation(r, "create"), a) /\ Answer(r, a)
  BY DEF CreateIssue
<1>3. PICK m \in MutationSet : m = Mutation(r, "create") /\ m.op = "create" /\ m.req = r
  BY <1>1, MutationOf
<1>4. WellFormed(m)
  BY <1>1, <1>3 DEF WellFormed
<1>5. LabelNames(r) \subseteq labels
  <2>1. todo[r] = <<>> /\ DOMAIN todo[r] = {}
    BY <1>1 DEF NamesLeft
  <2> QED
    BY <1>1, <2>1 DEF NamesLeft
<1>6. pc' = [pc EXCEPT ![r] = "done"]
  BY <1>2 DEF Answer, Goto
<1>7. pc'[r] \notin Creating /\ \A s \in Request \ {r} : pc'[s] = pc[s] /\ todo'[s] = todo[s]
  BY <1>1, <1>6 DEF Creating
<1>8. NamesLeft(r)'
  BY <1>7 DEF NamesLeft, Creating
<1> QED
  BY <1>1, <1>2, <1>3, <1>4, <1>5, <1>7, <1>8, SentLabelled

\* UpdateIssue, AddComment and ArchiveIssue create nothing.
LEMMA CallLabelled ==
  ASSUME Coherent, Labelled, NEW r \in Request, NEW at \in {"update", "comment", "archive"},
         NEW next \in {"comment", "archive", "done"}, CallThen(r, at, next)
  PROVE  Labelled'
<1>1. /\ pc \in [Request -> Calling \cup {"idle", "done", "lost"}] /\ TypeOK /\ BranchOf(r)
      /\ pc[r] = at /\ clock' = clock /\ todo' = todo
  BY DEF Coherent, TypeOK, CallThen, BranchSound
<1>2. PICK a \in {200, 500, 502} :
        /\ Mutate(r, Mutation(r, at), a)
        /\ IF a = 200 /\ next # "done" THEN Goto(r, next) /\ UNCHANGED status ELSE Answer(r, a)
  BY DEF CallThen
<1>3. PICK m \in MutationSet : m = Mutation(r, at) /\ m.op = at /\ m.req = r /\ m.issue = target[r]
  BY <1>1, MutationOf
<1>4. WellFormed(m)
  BY <1>1, <1>3 DEF WellFormed, BranchOf
<1>5. pc' = [pc EXCEPT ![r] = next] \/ pc' = [pc EXCEPT ![r] = "done"]
  BY <1>2 DEF Goto, Answer
<1>6. pc'[r] \notin Creating /\ \A s \in Request \ {r} : pc'[s] = pc[s] /\ todo'[s] = todo[s]
  BY <1>1, <1>5 DEF Creating
<1>7. NamesLeft(r)'
  BY <1>6 DEF NamesLeft, Creating
<1> QED
  BY <1>1, <1>2, <1>3, <1>4, <1>6, <1>7, SentLabelled

\* A mutation that was left under way takes effect.
LEMMA LateLabelledStep ==
  ASSUME Coherent, Labelled, NEW m \in late, TakeEffect(m)
  PROVE  Labelled'
<1>1. /\ m \in MutationSet /\ WellFormed(m) /\ Apply(m) /\ late' \subseteq late \cup {m}
      /\ pc' = pc /\ todo' = todo /\ clock' = clock
      /\ m.op = "create" => LabelNames(m.req) \subseteq labels
  BY DEF Coherent, TypeOK, LateSound, TakeEffect, adapterVars, Labelled, LateLabelled
<1>2. labels \subseteq labels' /\ LabelsExist' /\ LateLabelled'
  BY <1>1, LabelEffect DEF Labelled
<1>3. \A s \in Request : NamesLeft(s)'
  BY <1>1, <1>2, NamesStay DEF Labelled
<1> QED
  BY <1>2, <1>3 DEF Labelled

\* Every step keeps the labels that a later create will name.
LEMMA NextLabelled == Coherent /\ Labelled /\ [Next]_vars => Labelled'
<1> SUFFICES ASSUME Coherent, Labelled, [Next]_vars
             PROVE  Labelled'
  OBVIOUS
<1>1. pc \in [Request -> Calling \cup {"idle", "done", "lost"}]
  BY DEF Coherent, TypeOK
<1>2. ASSUME \/ \E r \in Request : RejectPayload(r) \/ Arrive(r) \/ HangUp(r)
             \/ Tick \/ Crash \/ UNCHANGED vars
      PROVE  Labelled'
  <2>1. UNCHANGED linearVars /\ todo' = todo
    BY <1>2 DEF RejectPayload, Arrive, HangUp, Tick, Crash, vars, adapterVars
  <2>2. \A s \in Request : pc'[s] = pc[s] \/ pc'[s] \in {"done", "find", "lost"}
    BY <1>1, <1>2 DEF RejectPayload, Answer, Goto, Arrive, HangUp, Tick, Crash, vars, adapterVars
  <2>3. \A s \in Request : pc'[s] \in Creating => pc'[s] = pc[s] /\ todo'[s] = todo[s]
    BY <2>1, <2>2 DEF Creating
  <2> QED
    BY <2>1, <2>3, UnlabelledStep
<1>3. ASSUME NEW r \in Request, UpdateIssue(r) \/ AddComment(r) \/ ArchiveIssue(r)
      PROVE  Labelled'
  <2>1. \E at \in {"update", "comment", "archive"}, next \in {"comment", "archive", "done"} :
          CallThen(r, at, next)
    BY <1>3 DEF UpdateIssue, AddComment, ArchiveIssue
  <2> QED
    BY <2>1, CallLabelled
<1>4. ASSUME NEW r \in Request, Step(r)
      PROVE  Labelled'
  BY <1>3, <1>4, FindLabelled, EnsureLabelled, LabelCreateLabelled, CreateLabelled DEF Step
<1> QED
  BY <1>2, <1>4, LateLabelledStep DEF Next

\* Every label of an issue is one that EnsureLabelByName got from Linear, for any
\* number of POSTs that create the same labels at once, with refused, lost and
\* late calls.
THEOREM LabelsAlwaysExist == Spec => []LabelsExist
<1>1. Init => Labelled
  <2> SUFFICES ASSUME Init
               PROVE  Labelled
    OBVIOUS
  <2>1. LabelsExist /\ LateLabelled
    BY DEF Init, LabelsExist, LateLabelled
  <2>2. \A r \in Request : NamesLeft(r)
    BY DEF Init, NamesLeft, Creating
  <2> QED
    BY <2>1, <2>2 DEF Labelled
<1>2. Coherent /\ Labelled /\ [Next]_vars => Labelled'
  BY NextLabelled
<1>3. Labelled => LabelsExist
  BY DEF Labelled
<1> QED
  BY <1>1, <1>2, <1>3, AlwaysCoherent, PTL DEF Spec

-----------------------------------------------------------------------------
(* A resolved POST that overlaps no other closes its group *)

\* In a group no two of whose POSTs overlapped there is one POST at a time, no
\* create is under way beside it, and a resolved one holds what is open.
Alone(g) ==
  /\ \A r, s \in Request : Active(r) /\ Active(s) /\ GroupOf[r] = g /\ GroupOf[s] = g => r = s
  /\ \A r \in Request : Active(r) /\ GroupOf[r] = g => LateCreates(g) = {}
  /\ \A r \in Request : pc[r] \in {"comment", "archive"} /\ ~Firing(r) /\ GroupOf[r] = g =>
       OpenIssues(g) \subseteq {target[r]}
Solitary == \A g \in Group : ~Overlapped(g) => Alone(g)

\* A step keeps a group to itself if it begins no POST, and opens an issue or
\* leaves a create under way only when no POST of the group is left.
LEMMA AloneKeeps ==
  ASSUME NEW g \in Group, Alone(g),
         \A s \in Request : Active(s)' => Active(s),
         \/ OpenIssues(g)' \subseteq OpenIssues(g) /\ LateCreates(g)' \subseteq LateCreates(g)
         \/ \A s \in Request : GroupOf[s] = g => ~Active(s)',
         \A s \in Request : pc'[s] \in {"comment", "archive"} /\ ~Firing(s) /\ GroupOf[s] = g =>
           \/ pc[s] \in {"comment", "archive"} /\ target'[s] = target[s]
           \/ OpenIssues(g)' \subseteq {target'[s]}
  PROVE  Alone(g)'
<1>1. \A s \in Request : pc'[s] \in {"comment", "archive"} => Active(s)'
  BY DEF Active, Calling
<1>2. CASE OpenIssues(g)' \subseteq OpenIssues(g) /\ LateCreates(g)' \subseteq LateCreates(g)
  BY <1>2 DEF Alone, Firing
<1>3. CASE \A s \in Request : GroupOf[s] = g => ~Active(s)'
  BY <1>1, <1>3 DEF Alone
<1> QED
  BY <1>2, <1>3

\* Solitary, group by group.
LEMMA SolitaryKeeps ==
  ASSUME Solitary, overlap' = overlap, \A g \in Group : ~Overlapped(g) /\ Alone(g) => Alone(g)'
  PROVE  Solitary'
<1>1. \A g : Overlapped(g)' <=> Overlapped(g)
  BY DEF Overlapped
<1> QED
  BY <1>1 DEF Solitary

\* Overlapping firing POSTs are overlapping POSTs.
LEMMA FiringsAreCalls ==
  ASSUME NEW g, ~Overlapped(g)
  PROVE  ~FiringsOverlapped(g)
BY DEF Overlapped, FiringsOverlapped

\* FindIssuesByLabel: the issue that was picked is the only open one.
LEMMA FindAlone ==
  ASSUME Coherent, Solitary, NEW r \in Request, FindIssuesByLabel(r)
  PROVE  /\ Solitary'
         /\ pc'[r] = "done" /\ status'[r] = 200 => OpenIssues(GroupOf[r])' = {}
<1>1. /\ pc \in [Request -> Calling \cup {"idle", "done", "lost"}] /\ pc[r] = "find"
      /\ status \in [Request -> {0, 200, 400, 500, 502}] /\ target \in [Request -> 0..Len(issues)]
      /\ UNCHANGED <<linearVars, clock, overlap>>
  BY DEF Coherent, TypeOK, FindIssuesByLabel, Query
<1>2. \A g : OpenIssues(g)' = OpenIssues(g) /\ LateCreates(g)' = LateCreates(g)
  BY <1>1, Quiet
<1>3. PICK a \in Answers(r) :
        IF a # 200 THEN Answer(r, a) /\ UNCHANGED <<target, aged, todo>>
        ELSE \E i \in pickMostRecentOpen(GroupOf[r]) : Proceed(r, i)
  BY DEF FindIssuesByLabel
<1>4. CASE a # 200
  <2>1. pc' = [pc EXCEPT ![r] = "done"] /\ status' = [status EXCEPT ![r] = a] /\ target' = target
    BY <1>3, <1>4 DEF Answer, Goto
  <2>2. status'[r] # 200
    BY <1>1, <1>4, <2>1
  <2>3. \A s \in Request : pc'[s] = pc[s] \/ pc'[s] = "done"
    BY <1>1, <2>1
  <2>4. \A s \in Request : Active(s)' => Active(s)
    BY <2>3 DEF Active, Calling
  <2>5. \A g \in Group : Alone(g) => Alone(g)'
    BY <1>2, <2>1, <2>3, <2>4, AloneKeeps
  <2> QED
    BY <1>1, <2>2, <2>5, SolitaryKeeps
<1>5. CASE a = 200
  <2>1. PICK i \in pickMostRecentOpen(GroupOf[r]) : Proceed(r, i)
    BY <1>3, <1>5
  <2>2. PICK l : l = Branch(r, i)
    OBVIOUS
  <2>3. pc' = [pc EXCEPT ![r] = l] /\ target' = [target EXCEPT ![r] = i]
    BY <2>1, <2>2 DEF Proceed, Answer, Goto
  <2>4. IF OpenIssues(GroupOf[r]) = {} THEN i = 0 ELSE i \in OpenIssues(GroupOf[r])
    BY <2>1 DEF pickMostRecentOpen
  <2>5. l = "done" => OpenIssues(GroupOf[r]) = {}
    <3>1. 0 \notin DOMAIN issues
      BY DEF Coherent, TypeOK
    <3>2. 0 \notin OpenIssues(GroupOf[r])
      BY <3>1 DEF OpenIssues
    <3>3. l = "done" => i = 0
      BY <2>2 DEF Branch
    <3> QED
      BY <2>4, <3>2, <3>3
  <2>6. pc'[r] = l /\ target'[r] = i /\ \A s \in Request \ {r} : pc'[s] = pc[s] /\ target'[s] = target[s]
    BY <1>1, <2>3
  <2>7. \A s \in Request : Active(s)' => Active(s)
    BY <1>1, <2>6 DEF Active, Calling
  <2>8. ASSUME NEW g \in Group, ~Overlapped(g), Alone(g)
        PROVE  Alone(g)'
    <3>1. \A j, k \in OpenIssues(g) : j = k
      BY <2>8, FiringsAreCalls DEF Coherent, OneOpenIssue
    <3>2. g = GroupOf[r] => OpenIssues(g)' \subseteq {i}
      BY <1>2, <2>4, <3>1
    <3>3. \A s \in Request : pc'[s] \in {"comment", "archive"} /\ ~Firing(s) /\ GroupOf[s] = g =>
            \/ pc[s] \in {"comment", "archive"} /\ target'[s] = target[s]
            \/ OpenIssues(g)' \subseteq {target'[s]}
      BY <2>6, <3>2
    <3> QED
      BY <1>2, <2>7, <2>8, <3>3, AloneKeeps
  <2>9. Solitary'
    BY <1>1, <2>8, SolitaryKeeps
  <2> QED
    BY <1>2, <2>5, <2>6, <2>9
<1> QED
  BY <1>4, <1>5

\* Steps that open no issue, send no create and begin no POST.
LEMMA QuietAlone ==
  ASSUME Solitary, UNCHANGED <<overlap, target>>,
         \A g : OpenIssues(g)' \subseteq OpenIssues(g) /\ LateCreates(g)' \subseteq LateCreates(g),
         \A s \in Request : /\ Active(s)' => Active(s)
                            /\ pc'[s] \in {"comment", "archive"} /\ ~Firing(s) =>
                                 pc[s] \in {"comment", "archive"}
  PROVE  Solitary'
<1>1. \A g \in Group : Alone(g) => Alone(g)'
  BY AloneKeeps
<1> QED
  BY <1>1, SolitaryKeeps

\* What a mutation other than a create leaves open and under way.
LEMMA SentAlone ==
  ASSUME Coherent, NEW r \in Request, NEW a, NEW m \in MutationSet, WellFormed(m), clock' = clock,
         Mutate(r, m, a), m.op # "create"
  PROVE  \A g : OpenIssues(g)' \subseteq OpenIssues(g) /\ LateCreates(g)' \subseteq LateCreates(g)
<1>1. /\ late' \subseteq late \cup {m}
      /\ Apply(m) \/ UNCHANGED <<issues, comments, labels>>
  BY Sent
<1>2. \A g : LateCreates(g)' \subseteq LateCreates(g)
  BY <1>1 DEF LateCreates
<1>3. \A g : OpenIssues(g)' \subseteq OpenIssues(g)
  <2>1. CASE Apply(m)
    <3>1. DataSound
      BY DEF Coherent, TypeOK, DataSound, LinearType
    <3> QED
      BY <2>1, <3>1, OpenAfter
  <2>2. CASE issues' = issues
    BY <2>2 DEF OpenIssues
  <2> QED
    BY <1>1, <2>1, <2>2
<1> QED
  BY <1>2, <1>3

\* EnsureLabelByName.
LEMMA EnsureAlone ==
  ASSUME Coherent, Solitary, NEW r \in Request, FindLabel(r) \/ IssueLabelCreate(r) \/ RequeryLabel(r)
  PROVE  Solitary' /\ Firing(r)
<1>1. /\ pc \in [Request -> Calling \cup {"idle", "done", "lost"}] /\ TypeOK /\ Active(r)
      /\ todo[r] # <<>> /\ Firing(r) /\ UNCHANGED <<overlap, target, clock>>
  BY DEF Coherent, TypeOK, BranchSound, BranchOf, FindLabel, IssueLabelCreate, RequeryLabel, Creating,
         Active, Calling
<1>2. \E l : pc' = [pc EXCEPT ![r] = l]
  BY DEF FindLabel, IssueLabelCreate, RequeryLabel, LabelResolved, Answer, Goto
<1>3. \A s \in Request \ {r} : pc'[s] = pc[s]
  BY <1>1, <1>2
<1>4. \/ UNCHANGED linearVars
      \/ \E a : Mutate(r, Mutation(r, "label"), a)
  BY DEF FindLabel, IssueLabelCreate, RequeryLabel, Query
<1>5. \A g : OpenIssues(g)' \subseteq OpenIssues(g) /\ LateCreates(g)' \subseteq LateCreates(g)
  <2>1. CASE UNCHANGED linearVars
    BY <1>1, <2>1, Quiet
  <2>2. ASSUME NEW a, Mutate(r, Mutation(r, "label"), a)
        PROVE  \A g : OpenIssues(g)' \subseteq OpenIssues(g) /\ LateCreates(g)' \subseteq LateCreates(g)
    <3>1. PICK m \in MutationSet : m = Mutation(r, "label") /\ m.op = "label" /\ m.label # NoLabel
      BY <1>1, MutationOf
    <3>2. WellFormed(m)
      BY <3>1 DEF WellFormed
    <3> QED
      BY <1>1, <2>2, <3>1, <3>2, SentAlone
  <2> QED
    BY <1>4, <2>1, <2>2
<1>6. \A s \in Request : /\ Active(s)' => Active(s)
                         /\ pc'[s] \in {"comment", "archive"} /\ ~Firing(s) =>
                              pc[s] \in {"comment", "archive"}
  BY <1>1, <1>3 DEF Active
<1> QED
  BY <1>1, <1>5, <1>6, QuietAlone

\* UpdateIssue, AddComment and ArchiveIssue; the last one closes what is open.
LEMMA CallAlone ==
  ASSUME Coherent, Solitary, NEW r \in Request, NEW at \in {"update", "comment", "archive"},
         NEW next \in {"comment", "archive", "done"}, CallThen(r, at, next),
         next = "done" => Firing(r) \/ at = "archive"
  PROVE  /\ Solitary'
         /\ pc'[r] = "done" /\ status'[r] = 200 /\ ~Firing(r) /\ ~Overlapped(GroupOf[r]) =>
              OpenIssues(GroupOf[r])' = {}
<1>1. /\ pc \in [Request -> Calling \cup {"idle", "done", "lost"}] /\ TypeOK /\ BranchOf(r)
      /\ status \in [Request -> {0, 200, 400, 500, 502}]
      /\ pc[r] = at /\ Active(r) /\ UNCHANGED <<overlap, target, clock>>
  BY SMTT(30) DEF Coherent, TypeOK, CallThen, BranchSound, Active, Calling
<1>2. PICK a \in {200, 500, 502} :
        /\ Mutate(r, Mutation(r, at), a)
        /\ IF a = 200 /\ next # "done" THEN Goto(r, next) /\ UNCHANGED status ELSE Answer(r, a)
  BY DEF CallThen
<1>3. PICK m \in MutationSet : m = Mutation(r, at) /\ m.op = at /\ m.req = r /\ m.issue = target[r]
  BY <1>1, MutationOf
<1>4. WellFormed(m)
  BY <1>1, <1>3 DEF WellFormed, BranchOf
<1>5. \A g : OpenIssues(g)' \subseteq OpenIssues(g) /\ LateCreates(g)' \subseteq LateCreates(g)
  BY <1>1, <1>2, <1>3, <1>4, SentAlone
<1>6. \E l : pc' = [pc EXCEPT ![r] = l]
  BY <1>2 DEF Goto, Answer
<1>7. \A s \in Request \ {r} : pc'[s] = pc[s]
  BY <1>1, <1>6
<1>8. pc[r] = "update" => Firing(r)
  BY <1>1 DEF BranchOf
<1>9. \A s \in Request : /\ Active(s)' => Active(s)
                         /\ pc'[s] \in {"comment", "archive"} /\ ~Firing(s) =>
                              pc[s] \in {"comment", "archive"}
  BY <1>1, <1>7, <1>8 DEF Active
<1>10. Solitary'
  BY <1>1, <1>5, <1>9, QuietAlone
<1>11. ASSUME pc'[r] = "done", status'[r] = 200, ~Firing(r), ~Overlapped(GroupOf[r])
       PROVE  OpenIssues(GroupOf[r])' = {}
  <2>1. a = 200 /\ next = "done"
    <3>1. CASE a = 200 /\ next # "done"
      BY <1>1, <1>2, <1>11, <3>1 DEF Goto
    <3>2. CASE ~(a = 200 /\ next # "done")
      <4>1. status'[r] = a
        BY <1>1, <1>2, <3>2 DEF Answer
      <4> QED
        BY <1>11, <3>2, <4>1
    <3> QED
      BY <3>1, <3>2
  <2>2. at = "archive" /\ Apply(m)
    BY <1>1, <1>2, <1>3, <1>4, <1>11, <2>1, Sent
  <2>3. ~issues'[target[r]].open
    <3>1. LinearType
      BY DEF Coherent, TypeOK, LinearType
    <3>2. m.op = "archive" /\ clock' = clock /\ m.issue = target[r]
      BY <1>1, <1>3, <2>2
    <3>3. m.op = "archive" => ~issues'[m.issue].open
      BY <1>4, <2>2, <3>1, <3>2, ApplyEffect
    <3> QED
      BY <3>2, <3>3
  <2>4. target[r] \notin OpenIssues(GroupOf[r])'
    BY <2>3 DEF OpenIssues
  <2>5. GroupOf[r] \in Group
    BY RequestAssumption
  <2>6. OpenIssues(GroupOf[r]) \subseteq {target[r]}
    BY <1>1, <1>11, <2>2, <2>5 DEF Solitary, Alone
  <2> QED
    BY <1>5, <2>4, <2>6
<1> QED
  BY <1>10, <1>11

\* CreateIssue: the POST that creates is the last of its group, and is over.
LEMMA CreateAlone ==
  ASSUME Coherent, Solitary, NEW r \in Request, CreateIssue(r)
  PROVE  Solitary' /\ Firing(r)
<1>1. /\ pc \in [Request -> Calling \cup {"idle", "done", "lost"}] /\ TypeOK
      /\ pc[r] = "create" /\ Active(r) /\ Firing(r) /\ UNCHANGED <<overlap, target, clock>>
  BY DEF Coherent, TypeOK, CreateIssue, Creating, BranchSound, BranchOf, Active, Calling
<1>2. PICK a \in {200, 500, 502} : Mutate(r, Mutation(r, "create"), a) /\ Answer(r, a)
  BY DEF CreateIssue
<1>3. PICK m \in MutationSet : m = Mutation(r, "create") /\ m.op = "create" /\ m.req = r
  BY <1>1, MutationOf
<1>4. WellFormed(m)
  BY <1>1, <1>3 DEF WellFormed
<1>5. /\ late' \subseteq late \cup {m}
      /\ Apply(m) \/ UNCHANGED <<issues, comments, labels>>
  BY <1>1, <1>2, <1>3, <1>4, Sent
<1>6. \A g : g # GroupOf[r] => LateCreates(g)' \subseteq LateCreates(g)
  BY <1>3, <1>5 DEF LateCreates
<1>7. \A g : g # GroupOf[r] => OpenIssues(g)' \subseteq OpenIssues(g)
  <2>1. CASE Apply(m)
    <3>1. DataSound
      BY DEF Coherent, TypeOK, DataSound, LinearType
    <3> QED
      BY <1>1, <1>3, <1>4, <2>1, <3>1, OpenAfter
  <2>2. CASE issues' = issues
    BY <2>2 DEF OpenIssues
  <2> QED
    BY <1>5, <2>1, <2>2
<1>8. pc' = [pc EXCEPT ![r] = "done"]
  BY <1>2 DEF Answer, Goto
<1>9. pc'[r] = "done" /\ \A s \in Request \ {r} : pc'[s] = pc[s]
  BY <1>1, <1>8
<1>10. ~Active(r)' /\ \A s \in Request : Active(s)' => Active(s)
  BY <1>9 DEF Active, Calling
<1>11. ASSUME NEW g \in Group, Alone(g)
       PROVE  Alone(g)'
  <2>1. \/ OpenIssues(g)' \subseteq OpenIssues(g) /\ LateCreates(g)' \subseteq LateCreates(g)
        \/ \A s \in Request : GroupOf[s] = g => ~Active(s)'
    BY <1>1, <1>6, <1>7, <1>10, <1>11 DEF Alone
  <2> QED
    BY <1>1, <1>9, <1>10, <1>11, <2>1, AloneKeeps
<1> QED
  BY <1>1, <1>11, SolitaryKeeps

\* A late mutation takes effect: if it creates, the group has no POST.
LEMMA LateAlone ==
  ASSUME Coherent, Solitary, NEW m \in late, TakeEffect(m)
  PROVE  Solitary'
<1>1. /\ m \in MutationSet /\ WellFormed(m) /\ Apply(m) /\ late' = late \ {m} /\ DataSound
      /\ pc' = pc /\ target' = target /\ clock' = clock /\ overlap' = overlap
  BY DEF Coherent, TypeOK, LateSound, TakeEffect, adapterVars, DataSound, LinearType
<1>2. \A g : LateCreates(g)' \subseteq LateCreates(g)
  BY <1>1 DEF LateCreates
<1>3. \A g : OpenIssues(g)' \subseteq
         OpenIssues(g) \cup (IF m.op = "create" /\ g = GroupOf[m.req] THEN {Len(issues) + 1} ELSE {})
  BY <1>1, OpenAfter
<1>4. \A s \in Request : Active(s)' <=> Active(s)
  BY <1>1 DEF Active
<1>5. ASSUME NEW g \in Group, Alone(g)
      PROVE  Alone(g)'
  <2>1. m.op = "create" /\ g = GroupOf[m.req] => m \in LateCreates(g)
    BY DEF LateCreates
  <2>2. \/ OpenIssues(g)' \subseteq OpenIssues(g) /\ LateCreates(g)' \subseteq LateCreates(g)
        \/ \A s \in Request : GroupOf[s] = g => ~Active(s)'
    BY <1>2, <1>3, <1>4, <1>5, <2>1 DEF Alone
  <2> QED
    BY <1>1, <1>4, <1>5, <2>2, AloneKeeps
<1> QED
  BY <1>1, <1>5, SolitaryKeeps

\* A POST begins: unless it overlaps another, it is alone.
LEMMA ArriveAlone ==
  ASSUME Coherent, Solitary, NEW r \in Request, Arrive(r)
  PROVE  Solitary'
<1>1. /\ pc \in [Request -> Calling \cup {"idle", "done", "lost"}] /\ pc[r] = "idle"
      /\ pc' = [pc EXCEPT ![r] = "find"] /\ target' = target
      /\ overlap' = overlap \cup {<<s, r>> : s \in Unfinished(r)}
      /\ UNCHANGED <<linearVars, clock>> /\ late \subseteq MutationSet
  BY DEF Coherent, TypeOK, Arrive, Goto
<1>2. \A g : OpenIssues(g)' = OpenIssues(g) /\ LateCreates(g)' = LateCreates(g)
  BY <1>1, Quiet
<1>3. pc'[r] = "find" /\ \A s \in Request \ {r} : pc'[s] = pc[s]
  BY <1>1
<1> SUFFICES ASSUME NEW g \in Group, ~Overlapped(g)'
             PROVE  Alone(g)'
  BY DEF Solitary
<1>4. ~Overlapped(g)
  BY <1>1 DEF Overlapped
<1>5. Alone(g)
  BY <1>4 DEF Solitary
<1>6. CASE GroupOf[r] # g
  <2>1. \A s \in Request : GroupOf[s] = g => (Active(s)' <=> Active(s)) /\ pc'[s] = pc[s]
    BY <1>3, <1>6 DEF Active
  <2> QED
    BY <1>1, <1>2, <1>5, <2>1 DEF Alone, Firing
<1>7. CASE GroupOf[r] = g
  <2>1. Unfinished(r) = {}
    <3> SUFFICES ASSUME NEW s \in Unfinished(r)
                 PROVE  FALSE
      OBVIOUS
    <3>1. <<s, r>> \in overlap' /\ GroupOf[s] = g
      BY <1>1, <1>7 DEF Unfinished
    <3> QED
      BY <3>1 DEF Overlapped
  <2>2. \A s \in Request \ {r} : GroupOf[s] = g => ~Active(s)'
    BY <1>3, <1>7, <2>1 DEF Unfinished, Active
  <2>3. LateCreates(g) = {}
    <3> SUFFICES ASSUME NEW m \in LateCreates(g)
                 PROVE  FALSE
      OBVIOUS
    <3>1. m \in late /\ m.op = "create" /\ m.req \in Request /\ GroupOf[m.req] = g
      BY <1>1 DEF LateCreates, MutationSet
    <3>2. m.req # r
      BY <1>1, <3>1 DEF Coherent, LateSound
    <3> QED
      BY <1>7, <2>1, <3>1, <3>2 DEF Unfinished
  <2>4. \A s \in Request : pc'[s] \in {"comment", "archive"} => Active(s)' /\ s # r
    BY <1>3 DEF Active, Calling
  <2> QED
    BY <1>2, <2>2, <2>3, <2>4 DEF Alone
<1> QED
  BY <1>6, <1>7

\* What ResolvedClears asks of POST r in one step.
Clears(r) ==
  /\ pc[r] # "done" /\ pc'[r] = "done" /\ status'[r] = 200
  /\ ~Firing(r) /\ ~Overlapped(GroupOf[r])
  => OpenIssues(GroupOf[r])' = {}

\* Every step keeps POSTs of a group one at a time, where they were, and the answer
\* of a resolved one finds nothing open.
LEMMA NextSolitary ==
  Coherent /\ Solitary /\ [Next]_vars => Solitary' /\ \A r \in Request : Clears(r)
<1> SUFFICES ASSUME Coherent, Solitary, [Next]_vars
             PROVE  Solitary' /\ \A r \in Request : Clears(r)
  OBVIOUS
<1>1. /\ pc \in [Request -> Calling \cup {"idle", "done", "lost"}]
      /\ status \in [Request -> {0, 200, 400, 500, 502}]
  BY DEF Coherent, TypeOK
<1>2. ASSUME \/ \E r \in Request : RejectPayload(r) \/ HangUp(r)
             \/ Tick \/ Crash \/ UNCHANGED vars
      PROVE  Solitary' /\ \A r \in Request : Clears(r)
  <2>1. UNCHANGED <<issues, late, overlap, target>>
    BY <1>2 DEF RejectPayload, HangUp, Tick, Crash, vars, adapterVars, linearVars
  <2>2. \A s \in Request : \/ pc'[s] = pc[s] \/ pc'[s] = "lost"
                           \/ pc'[s] = "done" /\ status'[s] = 400
    BY <1>1, <1>2 DEF RejectPayload, Answer, Goto, HangUp, Tick, Crash, vars, adapterVars
  <2>3. \A g : OpenIssues(g)' = OpenIssues(g) /\ LateCreates(g)' = LateCreates(g)
    BY <2>1 DEF OpenIssues, LateCreates
  <2>4. \A s \in Request : /\ Active(s)' => Active(s)
                           /\ pc'[s] \in {"comment", "archive"} /\ ~Firing(s) =>
                                pc[s] \in {"comment", "archive"}
    BY <2>2 DEF Active, Calling
  <2>5. Solitary'
    BY <2>1, <2>3, <2>4, QuietAlone
  <2>6. \A r \in Request : Clears(r)
    BY <2>2 DEF Clears
  <2> QED
    BY <2>5, <2>6
<1>3. ASSUME NEW r \in Request, Arrive(r)
      PROVE  Solitary' /\ \A s \in Request : Clears(s)
  <2>1. \A s \in Request : pc'[s] = pc[s] \/ pc'[s] = "find"
    BY <1>1, <1>3 DEF Arrive, Goto
  <2> QED
    BY <1>3, <2>1, ArriveAlone DEF Clears
<1>4. ASSUME NEW m \in late, TakeEffect(m)
      PROVE  Solitary' /\ \A s \in Request : Clears(s)
  <2>1. pc' = pc
    BY <1>4 DEF TakeEffect, adapterVars
  <2> QED
    BY <1>4, <2>1, LateAlone DEF Clears
<1>5. ASSUME NEW r \in Request, Step(r)
      PROVE  Solitary' /\ \A s \in Request : Clears(s)
  <2>1. \A s \in Request \ {r} : pc'[s] = pc[s]
    <3>1. \E l : pc' = [pc EXCEPT ![r] = l]
      BY <1>5 DEF Step, FindIssuesByLabel, FindLabel, IssueLabelCreate, RequeryLabel, CreateIssue,
                  UpdateIssue, AddComment, ArchiveIssue, CallThen, Proceed, LabelResolved, Answer, Goto
    <3> QED
      BY <1>1, <3>1
  <2>2. Solitary' /\ Clears(r)
    <3>1. CASE FindIssuesByLabel(r)
      BY <3>1, FindAlone DEF Clears
    <3>2. CASE FindLabel(r) \/ IssueLabelCreate(r) \/ RequeryLabel(r)
      BY <3>2, EnsureAlone DEF Clears
    <3>3. CASE CreateIssue(r)
      BY <3>3, CreateAlone DEF Clears
    <3>4. CASE UpdateIssue(r) \/ AddComment(r) \/ ArchiveIssue(r)
      <4>1. UpdateIssue(r) => Firing(r)
        BY DEF Coherent, BranchSound, BranchOf, UpdateIssue, CallThen
      <4>2. PICK at \in {"update", "comment", "archive"}, next \in {"comment", "archive", "done"} :
              CallThen(r, at, next) /\ (next = "done" => Firing(r) \/ at = "archive")
        BY <3>4, <4>1 DEF UpdateIssue, AddComment, ArchiveIssue
      <4> QED
        BY <4>2, CallAlone DEF Clears
    <3> QED
      BY <1>5, <3>1, <3>2, <3>3, <3>4 DEF Step
  <2>3. \A s \in Request \ {r} : Clears(s)
    BY <2>1 DEF Clears
  <2> QED
    BY <2>2, <2>3
<1> QED
  BY <1>2, <1>3, <1>4, <1>5 DEF Next

\* handleResolved: a resolved POST that is answered with 200 leaves its group
\* without an open issue, whatever calls of earlier POSTs take effect late, if no
\* two POSTs of the group overlapped.
THEOREM ResolvedAlwaysClears == Spec => ResolvedClears
<1>1. Init => Solitary
  <2> SUFFICES ASSUME Init
               PROVE  Solitary
    OBVIOUS
  <2>1. \A r \in Request : pc[r] = "idle"
    BY DEF Init
  <2> QED
    BY <2>1 DEF Solitary, Alone, Active, Calling
<1>2. Coherent /\ Solitary /\ [Next]_vars => Solitary'
  BY NextSolitary
<1>3. Coherent /\ Solitary /\ [Next]_vars =>
        [\A r \in Request :
           /\ pc[r] # "done" /\ pc'[r] = "done" /\ status'[r] = 200
           /\ ~Firing(r) /\ ~Overlapped(GroupOf[r])
           => OpenIssues(GroupOf[r])' = {}]_vars
  BY NextSolitary DEF Clears
<1> QED
  BY <1>1, <1>2, <1>3, AlwaysCoherent, PTL DEF Spec, ResolvedClears
-----------------------------------------------------------------------------
(* 200 is given for work that is done *)

\* POSTs s and t overlapped.
Met(s, t) == {<<s, t>>, <<t, s>>} \cap overlap # {}

\* What a firing POST found is open, or its closing is excused; what it goes on
\* to comment on has its text.
Stands(r) == issues[target[r]].open \/ ClosedBeside(r)

\* Who can close an issue under a firing POST: a POST it met, or one whose
\* archive was left under way when it was answered.
Standing ==
  /\ \A r \in Request : /\ pc[r] \in {"idle", "find"} => target[r] = 0
                        /\ status[r] # 0 => pc[r] = "done"
  /\ \A r, s \in Request : r # s /\ GroupOf[r] = GroupOf[s] /\ Active(r) /\ Active(s) => Met(r, s)
  /\ \A i \in DOMAIN issues : \E p \in Request : issues[i].labels = LabelNames(p)
  /\ \A m \in late : m.op = "archive" =>
       ~Firing(m.req) /\ m.issue = target[m.req] /\ status[m.req] = 502
  /\ \A r \in Request : Firing(r) /\ pc[r] \in {"update", "comment"} => Stands(r)
  /\ \A r \in Request : Firing(r) /\ pc[r] = "comment" => r \in issues[target[r]].written

\* What every step does: issues keep their labels and what was written on them,
\* are closed by a resolved POST that found them, and a POST that was answered
\* is over.
Orderly ==
  /\ DOMAIN issues \subseteq DOMAIN issues' /\ overlap \subseteq overlap'
  /\ \A i \in DOMAIN issues :
       /\ issues'[i].labels = issues[i].labels /\ issues[i].written \subseteq issues'[i].written
       /\ issues[i].open /\ ~issues'[i].open =>
            \E s \in Request : /\ ~Firing(s) /\ target[s] = i /\ target'[s] = i
                               /\ Active(s) \/ status[s] = 502
  /\ \A i \in DOMAIN issues' \ DOMAIN issues :
       \E p \in Request : issues'[i].labels = LabelNames(p)
  /\ \A s \in Request : /\ target'[s] = target[s] \/ pc[s] = "find"
                        /\ status'[s] = status[s] \/ (pc[s] # "done" /\ pc'[s] = "done")
                        /\ pc[s] = "done" => pc'[s] = "done"

\* An issue is of one group.
LEMMA OneGroup ==
  ASSUME Standing, NEW i \in DOMAIN issues, NEW g, NEW h, InGroup(i, g), InGroup(i, h)
  PROVE  g = h
<1>1. PICK p \in Request : issues[i].labels = LabelNames(p)
  BY DEF Standing
<1> QED
  BY <1>1, DedupOfRequest DEF InGroup

\* A step keeps what a firing POST found open or its closing excused.
LEMMA StillStands ==
  ASSUME Coherent, Standing, Orderly, NEW r \in Request, Firing(r), pc[r] \in {"update", "comment"}
  PROVE  Stands(r)' /\ target'[r] = target[r] /\ target[r] \in DOMAIN issues
<1>1. /\ InGroup(target[r], GroupOf[r]) /\ target[r] \in DOMAIN issues /\ target[r] # 0
      /\ Active(r) /\ target'[r] = target[r] /\ Stands(r)
  BY DEF Coherent, BranchSound, BranchOf, InGroup, Active, Calling, Orderly, Standing
<1>2. CASE issues[target[r]].open /\ ~issues'[target[r]].open
  <2>1. PICK s \in Request : /\ ~Firing(s) /\ target[s] = target[r] /\ target'[s] = target[r]
                             /\ Active(s) \/ status[s] = 502
    BY <1>1, <1>2 DEF Orderly
  <2>2. s # r /\ ~Firing(s)' /\ target'[s] = target'[r]
    BY <1>1, <2>1 DEF Firing
  <2>3. CASE Active(s)
    <3>1. InGroup(target[r], GroupOf[s])
      BY <1>1, <2>1 DEF Coherent, BranchSound, BranchOf
    <3>2. GroupOf[s] = GroupOf[r]
      BY <1>1, <3>1, OneGroup
    <3>3. Met(r, s)
      BY <1>1, <2>2, <2>3, <3>2 DEF Standing
    <3>4. {<<r, s>>, <<s, r>>} \cap overlap' # {}
      BY <3>3 DEF Met, Orderly
    <3> QED
      BY <1>1, <2>1, <2>2, <3>4 DEF Stands, ClosedBeside, Firing
  <2>4. CASE status[s] = 502
    <3>1. pc[s] = "done"
      BY <2>4 DEF Standing
    <3>2. status'[s] = 502
      BY <2>4, <3>1 DEF Orderly
    <3> QED
      BY <1>1, <2>1, <2>2, <3>2 DEF Stands, ClosedBeside, Firing
  <2> QED
    BY <2>1, <2>3, <2>4
<1>3. CASE issues'[target[r]].open
  BY <1>1, <1>3 DEF Stands
<1>4. CASE ClosedBeside(r)
  <2>1. PICK s \in Request : /\ ~Firing(s) /\ target[s] = target[r]
                             /\ {<<r, s>>, <<s, r>>} \cap overlap # {} \/ status[s] = 502
    BY <1>4 DEF ClosedBeside
  <2>2. pc[s] # "find" /\ (status[s] = 502 => pc[s] = "done")
    BY <1>1, <2>1 DEF Standing
  <2>3. target'[s] = target'[r] /\ ~Firing(s)' /\ (status[s] = 502 => status'[s] = 502)
    BY <1>1, <2>1, <2>2 DEF Orderly, Firing
  <2>4. {<<r, s>>, <<s, r>>} \cap overlap' # {} \/ status'[s] = 502
    BY <2>1, <2>3 DEF Orderly
  <2> QED
    BY <1>1, <2>1, <2>3, <2>4 DEF Stands, ClosedBeside, Firing
<1> QED
  BY <1>1, <1>2, <1>3, <1>4 DEF Stands

\* A step keeps Standing if no POST begins unseen, an archive is left under way
\* only by a POST that is answered 502, and an update begins on an open issue.
LEMMA StandingKeeps ==
  ASSUME Coherent, Standing, Orderly,
         \A s \in Request : pc'[s] \in {"idle", "find"} =>
           pc[s] \in {"idle", "find"} /\ target'[s] = target[s],
         \A s, t \in Request : s # t /\ GroupOf[s] = GroupOf[t] /\ Active(s)' /\ Active(t)' =>
           (Active(s) /\ Active(t)) \/ Met(s, t)',
         \A m \in late' \ late : m.op = "archive" =>
           ~Firing(m.req) /\ m.issue = target'[m.req] /\ status'[m.req] = 502,
         \A s \in Request : /\ status'[s] # 0 => pc'[s] = "done"
                            /\ Firing(s) /\ pc'[s] \in {"update", "comment"} =>
                                 pc[s] \in {"update", "comment"} \/ issues'[target'[s]].open
                            /\ Firing(s) /\ pc'[s] = "comment" =>
                                 pc[s] = "comment" \/ s \in issues'[target'[s]].written
  PROVE  Standing'
<1>1. \A s \in Request : pc'[s] \in {"idle", "find"} => target'[s] = 0
  BY DEF Standing
<1>2. ASSUME NEW s \in Request, NEW t \in Request, s # t, GroupOf[s] = GroupOf[t],
             Active(s)', Active(t)'
      PROVE  Met(s, t)'
  <2>1. CASE Active(s) /\ Active(t)
    <3>1. Met(s, t)
      BY <1>2, <2>1 DEF Standing
    <3> QED
      BY <3>1 DEF Met, Orderly
  <2> QED
    BY <1>2, <2>1
<1>3. \A i \in DOMAIN issues' : \E p \in Request : issues'[i].labels = LabelNames(p)
  BY DEF Standing, Orderly
<1>4. ASSUME NEW m \in late', m.op = "archive"
      PROVE  ~Firing(m.req) /\ m.issue = target'[m.req] /\ status'[m.req] = 502
  <2>1. CASE m \in late
    <3>1. m.req \in Request
      BY <2>1 DEF Coherent, TypeOK, MutationSet
    <3>2. ~Firing(m.req) /\ m.issue = target[m.req] /\ status[m.req] = 502 /\ pc[m.req] = "done"
      BY <1>4, <2>1, <3>1 DEF Standing
    <3> QED
      BY <3>1, <3>2 DEF Orderly
  <2> QED
    BY <1>4, <2>1
<1>5. ASSUME NEW s \in Request, Firing(s), pc'[s] \in {"update", "comment"}
      PROVE  Stands(s)'
  <2>1. CASE pc[s] \in {"update", "comment"}
    BY <1>5, <2>1, StillStands
  <2>2. CASE issues'[target'[s]].open
    BY <2>2 DEF Stands
  <2> QED
    BY <1>5, <2>1, <2>2
<1>6. ASSUME NEW s \in Request, Firing(s), pc'[s] = "comment"
      PROVE  s \in issues'[target'[s]].written
  <2>1. CASE pc[s] = "comment"
    <3>1. s \in issues[target[s]].written /\ target'[s] = target[s] /\ target[s] \in DOMAIN issues
      BY <1>6, <2>1, StillStands DEF Standing
    <3> QED
      BY <3>1 DEF Orderly
  <2> QED
    BY <1>6, <2>1
<1> QED
  BY <1>1, <1>2, <1>3, <1>4, <1>5, <1>6 DEF Standing, Firing

\* The answer of POST s is true, if this step gives it.
Honest(s) == pc[s] # "done" /\ pc'[s] = "done" /\ status'[s] = 200 => Done(s)'

\* A step that leaves Linear alone is orderly.
LEMMA QuietOrderly ==
  ASSUME UNCHANGED issues, overlap \subseteq overlap',
         \A s \in Request : /\ target'[s] = target[s] \/ pc[s] = "find"
                            /\ status'[s] = status[s] \/ (pc[s] # "done" /\ pc'[s] = "done")
                            /\ pc[s] = "done" => pc'[s] = "done"
  PROVE  Orderly
BY DEF Orderly

\* Steps in which POSTs only end: a rejected payload, a client that hangs up,
\* the passing of time, a crash.
LEMMA SilentStands ==
  ASSUME Coherent, Standing, UNCHANGED <<issues, late, overlap, target>>,
         \A s \in Request : \/ pc'[s] = pc[s] /\ status'[s] = status[s]
                            \/ Active(s) /\ pc'[s] = "lost" /\ status'[s] = status[s]
                            \/ pc[s] = "idle" /\ pc'[s] = "done" /\ status'[s] = 400
  PROVE  Standing' /\ \A s \in Request : Honest(s)
<1>1. \A s \in Request : Active(s) => pc[s] # "done"
  BY DEF Active, Calling
<1>2. Orderly
  BY <1>1, QuietOrderly
<1>3. \A s \in Request : Active(s)' => Active(s)
  BY DEF Active, Calling
<1>4. \A s \in Request : status'[s] # 0 => pc'[s] = "done"
  BY <1>1 DEF Standing
<1>5. Standing'
  BY <1>2, <1>3, <1>4, StandingKeeps
<1> QED
  BY <1>5 DEF Honest

\* A POST begins: every POST of its group that is being handled is one it met.
LEMMA ArriveStands ==
  ASSUME Coherent, Standing, NEW r \in Request, Arrive(r)
  PROVE  Standing' /\ \A s \in Request : Honest(s)
<1>1. /\ pc \in [Request -> Calling \cup {"idle", "done", "lost"}] /\ pc[r] = "idle"
      /\ pc' = [pc EXCEPT ![r] = "find"] /\ UNCHANGED <<issues, late, target, status>>
      /\ overlap' = overlap \cup {<<s, r>> : s \in Unfinished(r)}
  BY DEF Coherent, TypeOK, Arrive, Goto, linearVars
<1>2. pc'[r] = "find" /\ \A s \in Request \ {r} : pc'[s] = pc[s]
  BY <1>1
<1>3. Orderly
  BY <1>1, <1>2, QuietOrderly
<1>4. \A s \in Request \ {r} : GroupOf[s] = GroupOf[r] /\ Active(s)' => <<s, r>> \in overlap'
  BY <1>1, <1>2 DEF Unfinished, Active
<1>5. ASSUME NEW s \in Request, NEW t \in Request, s # t, GroupOf[s] = GroupOf[t],
             Active(s)', Active(t)'
      PROVE  (Active(s) /\ Active(t)) \/ Met(s, t)'
  <2>1. CASE s = r
    BY <1>4, <1>5, <2>1 DEF Met
  <2>2. CASE t = r
    BY <1>4, <1>5, <2>2 DEF Met
  <2>3. CASE s # r /\ t # r
    BY <1>2, <1>5, <2>3 DEF Active
  <2> QED
    BY <2>1, <2>2, <2>3
<1>6. \A s \in Request : status'[s] # 0 => pc'[s] = "done"
  BY <1>1, <1>2 DEF Standing
<1>7. Standing'
  <2>1. late' \ late = {}
    BY <1>1
  <2> QED
    BY <1>1, <1>2, <1>3, <1>5, <1>6, <2>1, StandingKeeps
<1> QED
  BY <1>1, <1>2, <1>7 DEF Honest

\* What a mutation that takes effect does to the issues.
LEMMA EffectOrderly ==
  ASSUME Coherent, NEW m \in MutationSet, WellFormed(m), clock' = clock, overlap' = overlap,
         Apply(m) \/ UNCHANGED issues,
         m.op = "archive" => \/ ~Firing(m.req) /\ m.issue = target[m.req] /\ Active(m.req)
                             \/ ~Firing(m.req) /\ m.issue = target[m.req] /\ status[m.req] = 502,
         target' = target,
         \A s \in Request : /\ status'[s] = status[s] \/ (pc[s] # "done" /\ pc'[s] = "done")
                            /\ pc[s] = "done" => pc'[s] = "done"
  PROVE  Orderly
<1>0. LinearType /\ m.req \in Request
  BY DEF Coherent, TypeOK, LinearType, MutationSet
<1>1. CASE Apply(m)
  <2>1. /\ issues' \in Seq(Issue) /\ Evolves
        /\ m.op # "create" => Len(issues') = Len(issues)
        /\ m.op = "create" => /\ Len(issues') = Len(issues) + 1
                              /\ issues'[Len(issues) + 1].labels = LabelNames(m.req)
    <3>1. /\ issues' \in Seq(Issue) /\ Evolves
          /\ m.op # "create" => Len(issues') = Len(issues)
      BY <1>0, <1>1, ApplyEffect
    <3>2. m.op = "create" => /\ Len(issues') = Len(issues) + 1
                             /\ issues'[Len(issues) + 1] = [open |-> TRUE, labels |-> LabelNames(m.req),
                                                            created |-> clock, written |-> {m.req}]
      BY <1>0, <1>1, ApplyEffect
    <3> QED
      BY <3>1, <3>2
  <2>2. \A i \in DOMAIN issues :
          /\ ~issues'[i].open => ~issues[i].open \/ (m.op = "archive" /\ m.issue = i)
          /\ issues[i].written \subseteq issues'[i].written
    BY <1>0, <1>1, ApplyKeeps
  <2>3. /\ DOMAIN issues = 1..Len(issues) /\ DOMAIN issues' = 1..Len(issues') /\ Len(issues) \in Nat
        /\ Len(issues') \in Nat
    BY <1>0, <2>1 DEF LinearType
  <2>4. DOMAIN issues \subseteq DOMAIN issues'
    <3>1. Len(issues) <= Len(issues')
      BY <2>1 DEF Evolves
    <3> QED
      BY <2>3, <3>1
  <2>5. ASSUME NEW i \in DOMAIN issues' \ DOMAIN issues
        PROVE  issues'[i].labels = LabelNames(m.req)
    <3>0. i \in 1..Len(issues') /\ i \notin 1..Len(issues)
      BY <2>3
    <3>1. m.op = "create"
      BY <2>1, <3>0
    <3>2. i = Len(issues) + 1
      BY <2>1, <2>3, <3>0, <3>1
    <3> QED
      BY <2>1, <3>1, <3>2
  <2>6. \A i \in DOMAIN issues : issues'[i].labels = issues[i].labels
    BY <2>1 DEF Evolves
  <2>7. ASSUME NEW i \in DOMAIN issues, issues[i].open, ~issues'[i].open
        PROVE  \E s \in Request : /\ ~Firing(s) /\ target[s] = i /\ target'[s] = i
                                  /\ Active(s) \/ status[s] = 502
    <3>1. m.op = "archive" /\ m.issue = i
      BY <2>2, <2>7
    <3> QED
      BY <1>0, <3>1
  <2> QED
    BY <1>0, <2>2, <2>4, <2>5, <2>6, <2>7 DEF Orderly
<1>2. CASE UNCHANGED issues
  BY <1>2 DEF Orderly
<1> QED
  BY <1>1, <1>2

\* A mutation whose client was answered takes effect.
LEMMA LateStands ==
  ASSUME Coherent, Standing, NEW m \in late, TakeEffect(m)
  PROVE  Standing' /\ \A s \in Request : Honest(s)
<1>1. /\ UNCHANGED <<pc, target, status, overlap, clock>> /\ Apply(m) /\ late' = late \ {m}
  BY DEF TakeEffect, adapterVars
<1>2. m \in MutationSet /\ WellFormed(m)
  BY DEF Coherent, TypeOK, LateSound
<1>3. m.op = "archive" => ~Firing(m.req) /\ m.issue = target[m.req] /\ status[m.req] = 502
  BY DEF Standing
<1>4. Orderly
  BY <1>1, <1>2, <1>3, EffectOrderly
<1>5. \A s \in Request : (Active(s)' <=> Active(s)) /\ (status'[s] # 0 => pc'[s] = "done")
  BY <1>1 DEF Active, Standing
<1>6. Standing'
  BY <1>1, <1>4, <1>5, StandingKeeps
<1> QED
  BY <1>1, <1>6 DEF Honest

\* A step of POST r that leaves its target alone.
LEMMA OwnStands ==
  ASSUME Coherent, Standing, Orderly, NEW r \in Request, Active(r), pc[r] # "find",
         \A s \in Request \ {r} : pc'[s] = pc[s] /\ status'[s] = status[s],
         pc'[r] \in (Calling \ {"find", "update"}) \cup {"done"},
         status'[r] = status[r] \/ pc'[r] = "done", target' = target,
         \A m \in late' \ late : m.op = "archive" =>
           ~Firing(m.req) /\ m.issue = target'[m.req] /\ status'[m.req] = 502,
         Firing(r) /\ pc'[r] = "comment" => pc[r] = "update" /\ r \in issues'[target'[r]].written
  PROVE  Standing'
<1>1. pc[r] # "done"
  BY DEF Active, Calling
<1>2. \A s \in Request : Active(s)' => Active(s)
  BY DEF Active
<1>3. \A s \in Request : status'[s] # 0 => pc'[s] = "done"
  BY <1>1 DEF Standing
<1>4. \A s \in Request : pc'[s] \in {"idle", "find"} => pc[s] \in {"idle", "find"} /\ target'[s] = target[s]
  BY DEF Calling
<1>5. \A s \in Request : Firing(s) /\ pc'[s] \in {"update", "comment"} => pc[s] \in {"update", "comment"}
  BY DEF Calling
<1>6. \A s \in Request : Firing(s) /\ pc'[s] = "comment" => pc[s] = "comment" \/ s \in issues'[target'[s]].written
  OBVIOUS
<1> QED
  BY <1>2, <1>3, <1>4, <1>5, <1>6, StandingKeeps

\* The queries and the creation of labels.
LEMMA EnsureStands ==
  ASSUME Coherent, Standing, NEW r \in Request, FindLabel(r) \/ IssueLabelCreate(r) \/ RequeryLabel(r)
  PROVE  Standing' /\ \A s \in Request : Honest(s)
<1>1. /\ pc \in [Request -> Calling \cup {"idle", "done", "lost"}] /\ TypeOK
      /\ status \in [Request -> {0, 200, 400, 500, 502}] /\ err \in [Request -> {0, 500, 502}]
      /\ pc[r] \in {"label", "label_create", "label_requery"} /\ UNCHANGED <<target, overlap, clock>>
  BY DEF Coherent, TypeOK, FindLabel, IssueLabelCreate, RequeryLabel
<1>2. Firing(r) /\ Active(r) /\ todo[r] # <<>>
  BY <1>1 DEF Coherent, BranchSound, BranchOf, Creating, Active, Calling
<1>3. PICK l \in {"label", "label_create", "label_requery", "create", "done"} :
        /\ pc' = [pc EXCEPT ![r] = l]
        /\ \/ status' = status /\ l # "done"
           \/ \E b \in {0, 500, 502} : status' = [status EXCEPT ![r] = b] /\ l = "done"
  <2>1. CASE FindLabel(r)
    BY <2>1 DEF FindLabel, Answers, LabelResolved, Answer, Goto
  <2>2. CASE IssueLabelCreate(r)
    BY <2>2 DEF IssueLabelCreate, LabelResolved, Answer, Goto
  <2>3. CASE RequeryLabel(r)
    <3>1. err[r] \in {0, 500, 502}
      BY <1>1
    <3> QED
      BY <2>3, <3>1 DEF RequeryLabel, LabelResolved, Answer, Goto
  <2> QED
    BY <2>1, <2>2, <2>3
<1>4. /\ pc'[r] = l /\ (l = "done" => status'[r] # 200) /\ (status'[r] = status[r] \/ l = "done")
      /\ \A s \in Request \ {r} : pc'[s] = pc[s] /\ status'[s] = status[s]
  BY <1>1, <1>3
<1>5. PICK m \in MutationSet : m = Mutation(r, "label") /\ m.op = "label" /\ WellFormed(m)
  BY <1>1, <1>2, MutationOf DEF WellFormed
<1>6. late' \subseteq late \cup {m} /\ (Apply(m) \/ UNCHANGED issues)
  BY <1>5 DEF FindLabel, IssueLabelCreate, RequeryLabel, Query, Mutate, linearVars
<1>7. Orderly
  <2>1. \A s \in Request : /\ status'[s] = status[s] \/ (pc[s] # "done" /\ pc'[s] = "done")
                           /\ pc[s] = "done" => pc'[s] = "done"
    BY <1>1, <1>4
  <2> QED
    BY <1>1, <1>5, <1>6, <2>1, EffectOrderly
<1>8. Standing'
  <2>1. l \in (Calling \ {"find", "update"}) \cup {"done"} /\ l # "comment" /\ pc[r] # "find"
    BY <1>1 DEF Calling
  <2>2. \A n \in late' \ late : n.op # "archive"
    BY <1>5, <1>6
  <2> QED
    BY <1>1, <1>2, <1>4, <1>7, <2>1, <2>2, OwnStands
<1> QED
  BY <1>4, <1>8 DEF Honest

\* FindIssuesByLabel: an update begins on an issue that is open, and a resolved
\* POST is answered when there is none.
LEMMA FindStands ==
  ASSUME Coherent, Standing, NEW r \in Request, FindIssuesByLabel(r)
  PROVE  Standing' /\ \A s \in Request : Honest(s)
<1>1. /\ pc \in [Request -> Calling \cup {"idle", "done", "lost"}] /\ pc[r] = "find"
      /\ status \in [Request -> {0, 200, 400, 500, 502}] /\ target \in [Request -> 0..Len(issues)]
      /\ UNCHANGED <<issues, late, overlap>>
  BY DEF Coherent, TypeOK, FindIssuesByLabel, Query, linearVars
<1>2. PICK a \in Answers(r) :
        IF a # 200 THEN Answer(r, a) /\ UNCHANGED <<target, aged, todo>>
        ELSE \E i \in pickMostRecentOpen(GroupOf[r]) : Proceed(r, i)
  BY DEF FindIssuesByLabel
<1> DEFINE Went(l, i) ==
        /\ pc' = [pc EXCEPT ![r] = l] /\ target' = [target EXCEPT ![r] = i]
        /\ l # "done" => status' = status
        /\ l = "done" => \/ status' = [status EXCEPT ![r] = 200] \/ status' = [status EXCEPT ![r] = 500]
                         \/ status' = [status EXCEPT ![r] = 502]
        /\ l \in {"update", "comment"} => issues[i].open /\ (Firing(r) => l = "update")
        /\ l = "done" /\ status' = [status EXCEPT ![r] = 200] =>
             i = 0 /\ ~Firing(r) /\ OpenIssues(GroupOf[r]) = {}
<1> HIDE DEF Went
<1>3. \E l \in {"label", "update", "comment", "done"}, i \in Nat : Went(l, i)
  <2>1. CASE a # 200
    <3>1. /\ pc' = [pc EXCEPT ![r] = "done"] /\ status' = [status EXCEPT ![r] = a] /\ target' = target
          /\ a \in {500, 502}
      BY <1>2, <2>1 DEF Answer, Goto, Answers
    <3>2. target' = [target EXCEPT ![r] = target[r]] /\ target[r] \in Nat /\ status'[r] = a
      <4>1. target[r] \in 0..Len(issues) /\ Len(issues) \in Nat
        BY <1>1 DEF Coherent, TypeOK
      <4> QED
        BY <1>1, <3>1, <4>1
    <3>3. status' # [status EXCEPT ![r] = 200]
      BY <1>1, <2>1, <3>2
    <3>4. PICK j \in Nat : j = target[r]
      BY <3>2
    <3>5. /\ pc' = [pc EXCEPT ![r] = "done"] /\ target' = [target EXCEPT ![r] = j]
          /\ status' = [status EXCEPT ![r] = 500] \/ status' = [status EXCEPT ![r] = 502]
      BY <3>1, <3>2, <3>4
    <3>6. Went("done", j)
      BY <3>3, <3>5 DEF Went
    <3> QED
      BY <3>4, <3>6
  <2>2. CASE a = 200
    <3>1. PICK i \in pickMostRecentOpen(GroupOf[r]) : Proceed(r, i)
      BY <1>2, <2>2
    <3>2. IF OpenIssues(GroupOf[r]) = {} THEN i = 0 ELSE i \in OpenIssues(GroupOf[r])
      BY <3>1 DEF pickMostRecentOpen
    <3>3. DOMAIN issues = 1..Len(issues) /\ Len(issues) \in Nat
      BY DEF Coherent, TypeOK
    <3>4. i \in Nat /\ (i = 0 => OpenIssues(GroupOf[r]) = {}) /\ (i # 0 => issues[i].open)
      BY <3>2, <3>3 DEF OpenIssues
    <3>5. PICK l : l = Branch(r, i)
      OBVIOUS
    <3>6. /\ l \in {"label", "update", "comment", "done"} /\ (l \in {"update", "comment"} => i # 0)
          /\ Firing(r) => l \in {"label", "update"}
          /\ l = "done" => i = 0 /\ ~Firing(r)
      BY <3>5 DEF Branch
    <3>7. /\ pc' = [pc EXCEPT ![r] = l] /\ target' = [target EXCEPT ![r] = i]
          /\ IF l = "done" THEN status' = [status EXCEPT ![r] = 200] ELSE status' = status
      BY <3>1, <3>5 DEF Proceed, Answer, Goto
    <3>8. Went(l, i)
      BY <3>4, <3>6, <3>7 DEF Went
    <3> QED
      BY <3>4, <3>6, <3>8
  <2> QED
    BY <2>1, <2>2
<1>4. PICK l \in {"label", "update", "comment", "done"}, i \in Nat :
        /\ pc' = [pc EXCEPT ![r] = l] /\ target' = [target EXCEPT ![r] = i]
        /\ l # "done" => status' = status
        /\ l = "done" => \/ status' = [status EXCEPT ![r] = 200] \/ status' = [status EXCEPT ![r] = 500]
                         \/ status' = [status EXCEPT ![r] = 502]
        /\ l \in {"update", "comment"} => issues[i].open /\ (Firing(r) => l = "update")
        /\ l = "done" /\ status' = [status EXCEPT ![r] = 200] =>
             i = 0 /\ ~Firing(r) /\ OpenIssues(GroupOf[r]) = {}
  BY <1>3 DEF Went
<1>5. /\ pc'[r] = l /\ target'[r] = i
      /\ (status'[r] = status[r] /\ l # "done") \/ (status'[r] \in {200, 500, 502} /\ l = "done")
      /\ l = "done" /\ status'[r] = 200 => status' = [status EXCEPT ![r] = 200]
      /\ \A s \in Request \ {r} : pc'[s] = pc[s] /\ status'[s] = status[s] /\ target'[s] = target[s]
  BY <1>1, <1>4
<1>6. Orderly
  BY <1>1, <1>5, QuietOrderly
<1>7. Standing'
  <2>1. \A s \in Request : Active(s)' => Active(s)
    BY <1>1, <1>5 DEF Active, Calling
  <2>2. \A s \in Request : status'[s] # 0 => pc'[s] = "done"
    BY <1>1, <1>5 DEF Standing
  <2>3. \A s \in Request : pc'[s] \in {"idle", "find"} => pc[s] \in {"idle", "find"} /\ target'[s] = target[s]
    BY <1>4, <1>5
  <2>4. \A s \in Request :
          /\ Firing(s) /\ pc'[s] \in {"update", "comment"} =>
               pc[s] \in {"update", "comment"} \/ issues'[target'[s]].open
          /\ Firing(s) /\ pc'[s] = "comment" => pc[s] = "comment"
    BY <1>1, <1>4, <1>5
  <2> QED
    BY <1>1, <1>6, <2>1, <2>2, <2>3, <2>4, StandingKeeps
<1>8. Honest(r)
  <2> SUFFICES ASSUME pc'[r] = "done", status'[r] = 200
               PROVE  Done(r)'
    BY DEF Honest
  <2>1. target'[r] = 0 /\ ~Firing(r) /\ OpenIssues(GroupOf[r]) = {}
    BY <1>4, <1>5
  <2>2. OpenIssues(GroupOf[r])' = {}
    BY <1>1, <2>1 DEF OpenIssues
  <2> QED
    BY <2>1, <2>2 DEF Done, Firing
<1> QED
  BY <1>5, <1>7, <1>8 DEF Honest

\* CreateIssue: 200 is given once the issue is there, and it is open.
LEMMA CreateStands ==
  ASSUME Coherent, Standing, NEW r \in Request, CreateIssue(r)
  PROVE  Standing' /\ \A s \in Request : Honest(s)
<1>1. /\ pc \in [Request -> Calling \cup {"idle", "done", "lost"}] /\ TypeOK
      /\ status \in [Request -> {0, 200, 400, 500, 502}]
      /\ pc[r] = "create" /\ UNCHANGED <<target, overlap, clock>>
  BY DEF Coherent, TypeOK, CreateIssue
<1>2. Firing(r) /\ Active(r) /\ target[r] = 0
  BY <1>1 DEF Coherent, BranchSound, BranchOf, Creating, Active, Calling
<1>3. PICK a \in {200, 500, 502} : Mutate(r, Mutation(r, "create"), a) /\ Answer(r, a)
  BY DEF CreateIssue
<1>4. /\ pc'[r] = "done" /\ status'[r] = a
      /\ \A s \in Request \ {r} : pc'[s] = pc[s] /\ status'[s] = status[s]
  BY <1>1, <1>3 DEF Answer, Goto
<1>5. PICK m \in MutationSet : m = Mutation(r, "create") /\ m.op = "create" /\ m.req = r
  BY <1>1, MutationOf
<1>6. WellFormed(m)
  BY <1>2, <1>5 DEF WellFormed
<1>7. late' \subseteq late \cup {m} /\ (Apply(m) \/ UNCHANGED issues) /\ (a = 200 => Apply(m))
  BY <1>3, <1>5 DEF Mutate, linearVars
<1>8. Orderly
  <2>1. \A s \in Request : /\ status'[s] = status[s] \/ (pc[s] # "done" /\ pc'[s] = "done")
                           /\ pc[s] = "done" => pc'[s] = "done"
    BY <1>1, <1>4
  <2> QED
    BY <1>1, <1>5, <1>6, <1>7, <2>1, EffectOrderly
<1>9. Standing'
  <2>1. \A n \in late' \ late : n.op # "archive"
    BY <1>5, <1>7
  <2>2. "done" \in (Calling \ {"find", "update"}) \cup {"done"}
    OBVIOUS
  <2> QED
    BY <1>1, <1>2, <1>4, <1>8, <2>1, <2>2, OwnStands
<1>10. ASSUME a = 200
       PROVE  Done(r)'
  <2>0. LinearType /\ Len(issues) \in Nat
    BY <1>1 DEF TypeOK, LinearType
  <2>1. /\ issues' \in Seq(Issue) /\ Len(issues') = Len(issues) + 1
        /\ issues'[Len(issues) + 1] = [open |-> TRUE, labels |-> LabelNames(m.req),
                                       created |-> clock, written |-> {m.req}]
    BY <1>1, <1>5, <1>6, <1>7, <1>10, <2>0, ApplyEffect
  <2>2. /\ Len(issues) + 1 \in DOMAIN issues' /\ issues'[Len(issues) + 1].open
        /\ r \in issues'[Len(issues) + 1].written
    BY <1>5, <2>0, <2>1
  <2> QED
    BY <1>1, <1>2, <2>2 DEF Done, Firing
<1> QED
  BY <1>4, <1>9, <1>10 DEF Honest

\* UpdateIssue, AddComment and ArchiveIssue: 200 is given once the last of
\* them is carried out.
LEMMA CallStands ==
  ASSUME Coherent, Standing, NEW r \in Request, NEW at \in {"update", "comment", "archive"},
         NEW next \in {"comment", "archive", "done"}, CallThen(r, at, next),
         next = "comment" => at = "update" /\ aged[r],
         next = "archive" => at = "comment" /\ ~Firing(r),
         next = "done" => Firing(r) \/ at = "archive"
  PROVE  Standing' /\ \A s \in Request : Honest(s)
<1>1. /\ pc \in [Request -> Calling \cup {"idle", "done", "lost"}] /\ TypeOK /\ LinearType
      /\ status \in [Request -> {0, 200, 400, 500, 502}]
      /\ pc[r] = at /\ UNCHANGED <<target, overlap, clock>>
  BY SMTT(30) DEF Coherent, TypeOK, CallThen, LinearType
<1>2. /\ target[r] # 0 /\ target[r] \in DOMAIN issues /\ Active(r) /\ BranchOf(r)
      /\ at = "archive" => ~Firing(r)
      /\ at = "update" => Firing(r)
  BY <1>1 DEF Coherent, BranchSound, BranchOf, InGroup, Active, Calling
<1>3. PICK a \in {200, 500, 502} :
        /\ Mutate(r, Mutation(r, at), a)
        /\ IF a = 200 /\ next # "done" THEN Goto(r, next) /\ UNCHANGED status ELSE Answer(r, a)
  BY DEF CallThen
<1>4. PICK l \in {"comment", "archive", "done"} :
        /\ pc' = [pc EXCEPT ![r] = l]
        /\ l # "done" => l = next /\ a = 200 /\ status' = status
        /\ l = "done" => (status' = [status EXCEPT ![r] = a]) /\ (a = 200 => next = "done")
  BY <1>3 DEF Answer, Goto
<1>5. /\ pc'[r] = l /\ (l # "done" => status'[r] = status[r]) /\ (l = "done" => status'[r] = a)
      /\ \A s \in Request \ {r} : pc'[s] = pc[s] /\ status'[s] = status[s]
  BY <1>1, <1>4
<1>6. PICK m \in MutationSet : m = Mutation(r, at) /\ m.op = at /\ m.req = r /\ m.issue = target[r]
  BY <1>1, MutationOf
<1>7. WellFormed(m)
  BY <1>1, <1>2, <1>6 DEF WellFormed, BranchOf
<1>8. /\ late' \subseteq late \cup {m} /\ (Apply(m) \/ UNCHANGED issues) /\ (a = 200 => Apply(m))
      /\ late' # late => a = 502
  BY <1>3, <1>6 DEF Mutate, linearVars
<1>9. Orderly
  <2>1. \A s \in Request : /\ status'[s] = status[s] \/ (pc[s] # "done" /\ pc'[s] = "done")
                           /\ pc[s] = "done" => pc'[s] = "done"
    BY <1>1, <1>5
  <2> QED
    BY <1>1, <1>2, <1>6, <1>7, <1>8, <2>1, EffectOrderly
<1>10. /\ a = 200 /\ at = "update" => r \in issues'[target[r]].written
       /\ a = 200 /\ at = "archive" => ~issues'[target[r]].open
  <2>1. Apply(m) => /\ m.op = "archive" => ~issues'[m.issue].open
                    /\ m.op = "update" => m.req \in issues'[m.issue].written
    BY <1>1, <1>7, ApplyEffect
  <2> QED
    BY <1>6, <1>8, <2>1
<1>11. Standing'
  <2>1. l \in (Calling \ {"find", "update"}) \cup {"done"} /\ pc[r] # "find"
    BY <1>1 DEF Calling
  <2>2. ASSUME NEW n \in late' \ late, n.op = "archive"
        PROVE  ~Firing(n.req) /\ n.issue = target'[n.req] /\ status'[n.req] = 502
    <3>1. n = m /\ a = 502
      BY <1>8, <2>2
    <3>2. l = "done"
      BY <1>4, <3>1
    <3> QED
      BY <1>1, <1>2, <1>5, <1>6, <2>2, <3>1, <3>2
  <2>3. Firing(r) /\ l = "comment" => pc[r] = "update" /\ r \in issues'[target'[r]].written
    BY <1>1, <1>4, <1>10
  <2> QED
    BY <1>1, <1>2, <1>5, <1>9, <2>1, <2>2, <2>3, OwnStands
<1>12. ASSUME l = "done", a = 200
       PROVE  Done(r)'
  <2>1. next = "done" /\ target'[r] = target[r]
    BY <1>1, <1>4, <1>12
  <2>2. CASE Firing(r)
    <3>1. at \in {"update", "comment"}
      BY <1>2, <2>2
    <3>2. issues'[target'[r]].open \/ ClosedBeside(r)'
      BY <1>1, <1>9, <2>2, <3>1, StillStands DEF Stands
    <3>3. r \in issues'[target[r]].written
      <4>1. CASE at = "update"
        BY <1>10, <1>12, <4>1
      <4>2. CASE at = "comment"
        <5>1. r \in issues[target[r]].written
          BY <1>1, <2>2, <4>2 DEF Standing
        <5> QED
          BY <1>2, <1>9, <5>1 DEF Orderly
      <4> QED
        BY <3>1, <4>1, <4>2
    <3> QED
      BY <1>2, <2>1, <2>2, <3>2, <3>3 DEF Done, Firing
  <2>3. CASE ~Firing(r)
    BY <1>2, <1>10, <1>12, <2>1, <2>3 DEF Done, Firing
  <2> QED
    BY <2>2, <2>3
<1> QED
  BY <1>5, <1>11, <1>12 DEF Honest

\* One case per kind of step.
LEMMA NextStands ==
  Coherent /\ Standing /\ [Next]_vars => Standing' /\ \A r \in Request : Honest(r)
<1> SUFFICES ASSUME Coherent, Standing, [Next]_vars
             PROVE  Standing' /\ \A r \in Request : Honest(r)
  OBVIOUS
<1>1. /\ pc \in [Request -> Calling \cup {"idle", "done", "lost"}]
      /\ status \in [Request -> {0, 200, 400, 500, 502}]
  BY DEF Coherent, TypeOK
<1>2. ASSUME \/ \E r \in Request : RejectPayload(r) \/ HangUp(r)
             \/ Tick \/ Crash \/ UNCHANGED vars
      PROVE  Standing' /\ \A r \in Request : Honest(r)
  <2>1. UNCHANGED <<issues, late, overlap, target>>
    BY <1>2 DEF RejectPayload, HangUp, Tick, Crash, vars, adapterVars, linearVars
  <2>2. \A s \in Request : \/ pc'[s] = pc[s] /\ status'[s] = status[s]
                           \/ Active(s) /\ pc'[s] = "lost" /\ status'[s] = status[s]
                           \/ pc[s] = "idle" /\ pc'[s] = "done" /\ status'[s] = 400
    BY <1>1, <1>2 DEF RejectPayload, Answer, Goto, HangUp, Tick, Crash, vars, adapterVars
  <2> QED
    BY <2>1, <2>2, SilentStands
<1>3. ASSUME NEW r \in Request, UpdateIssue(r) \/ AddComment(r) \/ ArchiveIssue(r)
      PROVE  Standing' /\ \A s \in Request : Honest(s)
  <2>1. UpdateIssue(r) => Firing(r)
    BY DEF Coherent, BranchSound, BranchOf, UpdateIssue, CallThen
  <2>2. PICK at \in {"update", "comment", "archive"}, next \in {"comment", "archive", "done"} :
          /\ CallThen(r, at, next)
          /\ next = "comment" => at = "update" /\ aged[r]
          /\ next = "archive" => at = "comment" /\ ~Firing(r)
          /\ next = "done" => Firing(r) \/ at = "archive"
    BY <1>3, <2>1 DEF UpdateIssue, AddComment, ArchiveIssue
  <2> QED
    BY <2>2, CallStands
<1>4. ASSUME NEW r \in Request, Step(r)
      PROVE  Standing' /\ \A s \in Request : Honest(s)
  BY <1>3, <1>4, FindStands, EnsureStands, CreateStands DEF Step
<1> QED
  BY <1>2, <1>4, ArriveStands, LateStands DEF Next

\* The handler answers 200 only for work that Linear has done: the text of a
\* firing POST is on an open issue, created or updated by that POST, unless a
\* resolved POST about the issue overlapped it or gave up on its archive; the
\* issue of a resolved POST is closed, or it found none.
THEOREM OKMeansDoneHolds == Spec => OKMeansDone
<1>1. Init => Standing
  <2> SUFFICES ASSUME Init
               PROVE  Standing
    OBVIOUS
  <2>1. /\ \A r \in Request : pc[r] = "idle" /\ target[r] = 0 /\ status[r] = 0
        /\ DOMAIN issues = {} /\ late = {}
    BY DEF Init
  <2> QED
    BY <2>1 DEF Standing, Active, Calling
<1>2. Coherent /\ Standing /\ [Next]_vars => Standing'
  BY NextStands
<1>3. Coherent /\ Standing /\ [Next]_vars =>
        [\A r \in Request : pc[r] # "done" /\ pc'[r] = "done" /\ status'[r] = 200 => Done(r)']_vars
  BY NextStands DEF Honest
<1> QED
  BY <1>1, <1>2, <1>3, AlwaysCoherent, PTL DEF Spec, OKMeansDone
=============================================================================
