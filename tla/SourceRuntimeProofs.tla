------------------------ MODULE SourceRuntimeProofs ------------------------
(***************************************************************************)
(* Proofs about SourceRuntime: whatever OBS and the user call, and however *)
(* starts fail, the receive threads find the sink running, the client      *)
(* counts the proxies that are started, and the source says the truth of   *)
(* itself.  SourceInv is the outline of the calls' steps.                  *)
(***************************************************************************)
EXTENDS SourceRuntime, SequenceTheorems, FiniteSetTheorems, TLAPS

-----------------------------------------------------------------------------
\* Steps and the lists of steps that are left.

\* Steps are told apart by their name and the kind of stream they are for.
LEMMA StepsDiffer ==
    /\ \A a, b \in STRING : T(a) = T(b) => a = b
    /\ \A a, b \in STRING : \A kind \in Kinds : T(a) # K(b, kind)
    /\ \A a, b \in STRING : \A k, l \in Kinds : K(a, k) = K(b, l) => a = b /\ k = l
<1>1. ASSUME NEW a \in STRING, NEW b \in STRING, T(a) = T(b) PROVE a = b
  <2>1. T(a).do = a /\ T(b).do = b
    BY DEF T
  <2> QED
    BY <1>1, <2>1
<1>2. ASSUME NEW a \in STRING, NEW b \in STRING, NEW kind \in Kinds PROVE T(a) # K(b, kind)
  <2>1. T(a).kind = None /\ K(b, kind).kind = kind /\ kind # None
    BY DEF T, K, None, Kinds
  <2> QED
    BY <2>1
<1>3. ASSUME NEW a \in STRING, NEW b \in STRING, NEW k \in Kinds, NEW l \in Kinds, K(a, k) = K(b, l)
      PROVE a = b /\ k = l
  <2>1. K(a, k).do = a /\ K(b, l).do = b /\ K(a, k).kind = k /\ K(b, l).kind = l
    BY DEF K
  <2> QED
    BY <1>3, <2>1
<1> QED
  BY <1>1, <1>2, <1>3

\* What a step is.
LEMMA StepTypes ==
    /\ \A do \in {"configure", "start", "started", "startFailed", "stopSink", "stopActive",
                  "resetClient", "resetSink", "resetRest", "clearError"} : T(do) \in StepSet
    /\ \A do \in {"start", "answer", "stop", "reset"} : \A kind \in Kinds : K(do, kind) \in StepSet
BY DEF T, K, StepSet

\* A step and the steps after it.
LEMMA StepThen ==
    ASSUME NEW s \in StepSet, NEW t \in Seq(StepSet)
    PROVE  /\ <<s>> \o t \in Seq(StepSet) /\ <<s>> \o t # <<>>
           /\ Head(<<s>> \o t) = s /\ Tail(<<s>> \o t) = t
<1>1. <<s>> \in Seq(StepSet) /\ Len(<<s>>) = 1 /\ <<s>>[1] = s
  OBVIOUS
<1>2. <<s>> \o t \in Seq(StepSet) /\ Len(<<s>> \o t) = 1 + Len(t)
  BY <1>1
<1>3. <<s>> \o t # <<>>
  BY <1>2
<1>4. Head(<<s>> \o t) = s
  BY <1>1, <1>2
<1>5. Tail(<<s>> \o t) = t
  BY <1>1, <1>2
<1> QED
  BY <1>2, <1>3, <1>4, <1>5

\* A list of steps is its first step followed by the others.
LEMMA FirstThenRest ==
    ASSUME NEW a \in StepSet, NEW s \in Seq(StepSet), NEW r \in Seq(StepSet), NEW t \in Seq(StepSet),
           Len(s) = Len(r) + 1, s[1] = a, \A i \in 1 .. Len(r) : s[i + 1] = r[i]
    PROVE  s \o t = <<a>> \o (r \o t)
<1>1. <<a>> \in Seq(StepSet) /\ Len(<<a>>) = 1 /\ <<a>>[1] = a
  OBVIOUS
<1>2. <<a>> \o r \in Seq(StepSet) /\ Len(<<a>> \o r) = 1 + Len(r) /\ (<<a>> \o r)[1] = a
  BY <1>1, ConcatProperties
<1>3. ASSUME NEW i \in 1 .. Len(s), i # 1 PROVE (<<a>> \o r)[i] = s[i]
  <2>1. i - 1 \in 1 .. Len(r) /\ (<<a>> \o r)[i] = r[i - 1]
    BY <1>1, <1>3, ConcatProperties
  <2>2. s[(i - 1) + 1] = r[i - 1] /\ (i - 1) + 1 = i
    BY <2>1
  <2> QED
    BY <2>1, <2>2
<1>4. s = <<a>> \o r
  BY <1>2, <1>3, SeqEqual
<1> QED
  BY <1>1, <1>4, ConcatAssociative

LEMMA TwoSteps ==
    ASSUME NEW a \in StepSet, NEW b \in StepSet
    PROVE  <<a, b>> = <<a>> \o <<b>> /\ <<b>> \in Seq(StepSet)
<1>1. /\ <<a, b>> \in Seq(StepSet) /\ Len(<<a, b>>) = 2 /\ <<a, b>>[1] = a /\ <<a, b>>[2] = b
      /\ <<a>> \in Seq(StepSet) /\ Len(<<a>>) = 1 /\ <<a>>[1] = a
      /\ <<b>> \in Seq(StepSet) /\ Len(<<b>>) = 1 /\ <<b>>[1] = b
  OBVIOUS
<1>2. /\ <<a>> \o <<b>> \in Seq(StepSet) /\ Len(<<a>> \o <<b>>) = 2
      /\ (<<a>> \o <<b>>)[1] = a /\ (<<a>> \o <<b>>)[2] = b
  BY <1>1, ConcatProperties
<1>3. \A i \in 1 .. Len(<<a, b>>) : <<a, b>>[i] = (<<a>> \o <<b>>)[i]
  BY <1>1, <1>2
<1> QED
  BY <1>1, <1>2, <1>3, SeqEqual

\* StopBoth, DestroyGraph and what follows them, step by step.
LEMMA StopUnrolls ==
    ASSUME NEW t \in Seq(StepSet)
    PROVE  StopBoth \o t = <<K("stop", "video")>> \o (<<K("stop", "audio")>> \o (<<T("stopSink")>> \o t))
<1> DEFINE a == K("stop", "video")
           b == K("stop", "audio")
           c == T("stopSink")
<1>1. a \in StepSet /\ b \in StepSet /\ c \in StepSet
  BY StepTypes DEF Kinds
<1>2. StopBoth = <<a, b, c>>
  BY DEF StopBoth
<1> HIDE DEF a, b, c
<1>3. /\ <<a, b, c>> \in Seq(StepSet) /\ <<b, c>> \in Seq(StepSet) /\ <<c>> \in Seq(StepSet)
      /\ Len(<<a, b, c>>) = 3 /\ Len(<<b, c>>) = 2 /\ Len(<<c>>) = 1
  BY <1>1
<1>4. <<a, b, c>> \o t = <<a>> \o (<<b, c>> \o t)
  <2>1. <<a, b, c>>[1] = a /\ \A i \in 1 .. 2 : <<a, b, c>>[i + 1] = <<b, c>>[i]
    OBVIOUS
  <2> QED
    BY <1>1, <1>3, <2>1, FirstThenRest
<1>5. <<b, c>> \o t = <<b>> \o (<<c>> \o t)
  <2>1. <<b, c>>[1] = b /\ \A i \in 1 .. Len(<<c>>) : <<b, c>>[i + 1] = <<c>>[i]
    OBVIOUS
  <2> QED
    BY <1>1, <1>3, <2>1, Len(<<b, c>>) = Len(<<c>>) + 1, FirstThenRest
<1> QED
  BY <1>2, <1>4, <1>5 DEF a, b, c

LEMMA DestroyUnrolls ==
    ASSUME NEW t \in Seq(StepSet)
    PROVE  DestroyGraph \o t = <<T("stopActive")>> \o ThenVideo(t)
<1> DEFINE a == T("stopActive")
           b == K("reset", "video")
           c == K("reset", "audio")
           d == T("resetClient")
           e == T("resetSink")
           f == T("resetRest")
<1>1. a \in StepSet /\ b \in StepSet /\ c \in StepSet /\ d \in StepSet /\ e \in StepSet /\ f \in StepSet
  BY StepTypes DEF Kinds
<1>2. DestroyGraph = <<a, b, c, d, e, f>>
  BY DEF DestroyGraph
<1>3. ThenVideo(t) = <<b>> \o (<<c>> \o (<<d>> \o (<<e>> \o (<<f>> \o t))))
  BY DEF ThenVideo, ThenAudio, ThenClient, ThenSink, ThenRest
<1> HIDE DEF a, b, c, d, e, f
<1>4. /\ <<a, b, c, d, e, f>> \in Seq(StepSet) /\ Len(<<a, b, c, d, e, f>>) = 6
      /\ <<b, c, d, e, f>> \in Seq(StepSet) /\ Len(<<b, c, d, e, f>>) = 5
      /\ <<c, d, e, f>> \in Seq(StepSet) /\ Len(<<c, d, e, f>>) = 4
      /\ <<d, e, f>> \in Seq(StepSet) /\ Len(<<d, e, f>>) = 3
      /\ <<e, f>> \in Seq(StepSet) /\ Len(<<e, f>>) = 2
      /\ <<f>> \in Seq(StepSet) /\ Len(<<f>>) = 1
  BY <1>1
<1>5. <<a, b, c, d, e, f>> \o t = <<a>> \o (<<b, c, d, e, f>> \o t)
  <2>1. /\ <<a, b, c, d, e, f>>[1] = a
        /\ \A i \in 1 .. 5 : <<a, b, c, d, e, f>>[i + 1] = <<b, c, d, e, f>>[i]
    OBVIOUS
  <2> QED
    BY <1>1, <1>4, <2>1, FirstThenRest
<1>6. <<b, c, d, e, f>> \o t = <<b>> \o (<<c, d, e, f>> \o t)
  <2>1. <<b, c, d, e, f>>[1] = b /\ \A i \in 1 .. 4 : <<b, c, d, e, f>>[i + 1] = <<c, d, e, f>>[i]
    OBVIOUS
  <2> QED
    BY <1>1, <1>4, <2>1, FirstThenRest
<1>7. <<c, d, e, f>> \o t = <<c>> \o (<<d, e, f>> \o t)
  <2>1. <<c, d, e, f>>[1] = c /\ \A i \in 1 .. 3 : <<c, d, e, f>>[i + 1] = <<d, e, f>>[i]
    OBVIOUS
  <2> QED
    BY <1>1, <1>4, <2>1, FirstThenRest
<1>8. <<d, e, f>> \o t = <<d>> \o (<<e, f>> \o t)
  <2>1. <<d, e, f>>[1] = d /\ \A i \in 1 .. 2 : <<d, e, f>>[i + 1] = <<e, f>>[i]
    OBVIOUS
  <2> QED
    BY <1>1, <1>4, <2>1, FirstThenRest
<1>9. <<e, f>> \o t = <<e>> \o (<<f>> \o t)
  <2>1. <<e, f>>[1] = e /\ \A i \in 1 .. Len(<<f>>) : <<e, f>>[i + 1] = <<f>>[i]
    OBVIOUS
  <2>2. Len(<<e, f>>) = Len(<<f>>) + 1
    OBVIOUS
  <2> QED
    BY ONLY <1>1, <2>1, <2>2, <<e, f>> \in Seq(StepSet), <<f>> \in Seq(StepSet), t \in Seq(StepSet), FirstThenRest
<1> QED
  BY <1>2, <1>3, <1>5, <1>6, <1>7, <1>8, <1>9 DEF a

\* The lists of steps that may be left are lists of steps.
LEMMA RestTypes ==
    /\ <<>> \in Seq(StepSet) /\ StartGraph \in Seq(StepSet) /\ <<T("clearError")>> \in Seq(StepSet)
    /\ \A t \in Seq(StepSet) :
         /\ ThenRest(t) \in Seq(StepSet) /\ ThenSink(t) \in Seq(StepSet) /\ ThenClient(t) \in Seq(StepSet)
         /\ ThenAudio(t) \in Seq(StepSet) /\ ThenVideo(t) \in Seq(StepSet)
         /\ DestroyGraph \o t \in Seq(StepSet)
<1>1. <<>> \in Seq(StepSet) /\ StartGraph \in Seq(StepSet) /\ <<T("clearError")>> \in Seq(StepSet)
  BY StepTypes DEF StartGraph
<1>2. ASSUME NEW t \in Seq(StepSet)
      PROVE  /\ ThenRest(t) \in Seq(StepSet) /\ ThenSink(t) \in Seq(StepSet) /\ ThenClient(t) \in Seq(StepSet)
             /\ ThenAudio(t) \in Seq(StepSet) /\ ThenVideo(t) \in Seq(StepSet)
             /\ DestroyGraph \o t \in Seq(StepSet)
  <2>1. ThenRest(t) \in Seq(StepSet)
    BY StepThen, StepTypes DEF ThenRest
  <2>2. ThenSink(t) \in Seq(StepSet)
    BY <2>1, StepThen, StepTypes DEF ThenSink
  <2>3. ThenClient(t) \in Seq(StepSet)
    BY <2>2, StepThen, StepTypes DEF ThenClient
  <2>4. ThenAudio(t) \in Seq(StepSet)
    BY <2>3, StepThen, StepTypes DEF ThenAudio, Kinds
  <2>5. ThenVideo(t) \in Seq(StepSet)
    BY <2>4, StepThen, StepTypes DEF ThenVideo, Kinds
  <2>6. DestroyGraph \o t \in Seq(StepSet)
    BY <2>5, StepThen, StepTypes, DestroyUnrolls
  <2> QED
    BY <2>1, <2>2, <2>3, <2>4, <2>5, <2>6
<1> QED
  BY <1>1, <1>2

LEMMA AftersAreLists == \A after \in Afters : after \in Seq(StepSet)
BY RestTypes DEF Afters

-----------------------------------------------------------------------------
\* The outline at the next step.

LEMMA NextStep ==
    ASSUME NEW s \in StepSet, NEW t \in Seq(StepSet), todo' = <<s>> \o t
    PROVE  /\ todo' \in Seq(StepSet) /\ ~AtRest' /\ Head(todo') = s /\ Tail(todo') = t
           /\ Before(s)' => Outline'
           /\ \A kind \in Kinds : Answering(kind)' <=> s = K("answer", kind)
<1>1. todo' \in Seq(StepSet) /\ todo' # <<>> /\ Head(todo') = s /\ Tail(todo') = t
  BY StepThen
<1>2. ~AtRest'
  BY <1>1 DEF AtRest
<1>3. ASSUME NEW step \in StepSet, Step(step)' PROVE step = s
  BY <1>1, <1>3 DEF Step
<1>4. Before(s)' => \A step \in StepSet : Step(step)' => Before(step)'
  BY <1>3
<1>5. Before(s)' => Outline'
  BY <1>2, <1>4 DEF Outline
<1>6. \A kind \in Kinds : Answering(kind)' <=> s = K("answer", kind)
  BY <1>1, <1>2 DEF Answering, Step, AtRest
<1> QED
  BY <1>1, <1>2, <1>5, <1>6

LEMMA NoStepLeft ==
    ASSUME todo' = <<>>
    PROVE  AtRest' /\ (Between' => Outline') /\ todo' \in Seq(StepSet) /\ \A kind \in Kinds : ~Answering(kind)'
BY RestTypes DEF AtRest, Outline, Answering, Step

\* What the outline says of the step being taken.
LEMMA ThisStep ==
    ASSUME Outline, NEW s \in StepSet, Step(s)
    PROVE  Before(s) /\ Head(todo) = s /\ ~AtRest
BY DEF Outline, Step

\* A step that touches neither backends nor client, and leaves the sink to
\* those who may enter it.
LEMMA NothingTouched ==
    ASSUME Entered, BackendsWhole, ClientWhole, \A kind \in Kinds : ~Answering(kind),
           UNCHANGED <<backend, client, inside>>,
           sink' = sink \/ sink' = "running" \/ (\A t \in Kinds \cup {"worker"} : ~MayEnter(t))
    PROVE  Entered' /\ BackendsWhole' /\ ClientWhole'
<1>1. Entered'
  BY DEF Entered, MayEnter
<1>2. BackendsWhole'
  BY DEF BackendsWhole
<1>3. Starts' = Starts
  BY DEF Starts, StartedProxy
<1>4. ClientWhole'
  BY <1>3 DEF ClientWhole
<1> QED
  BY <1>1, <1>2, <1>4

\* Only the step named so waits for the worker's answer.
LEMMA NotAnswering ==
    ASSUME NEW s, Step(s), s.do # "answer"
    PROVE  \A kind \in Kinds : ~Answering(kind)
<1>1. \A kind \in Kinds : K("answer", kind).do = "answer"
  BY DEF K
<1> QED
  BY <1>1 DEF Answering, Step

\* The assertion before a step is the one named after it.
LEMMA OutlineAt ==
    /\ AtConfigure' => Before(T("configure"))'
    /\ AtStart' => Before(T("start"))'
    /\ AtStarted' => Before(T("started"))'
    /\ AtStopActive' => Before(T("stopActive"))'
    /\ AtStopSink' => Before(T("stopSink"))'
    /\ AtStartFailed' => Before(T("startFailed"))'
    /\ AtResetClient' => Before(T("resetClient"))'
    /\ AtResetSink' => Before(T("resetSink"))'
    /\ AtResetRest' => Before(T("resetRest"))'
    /\ AtClearError' => Before(T("clearError"))'
    /\ AtStopVideo' => Before(K("stop", "video"))'
    /\ AtStopAudio' => Before(K("stop", "audio"))'
    /\ AtResetVideo' => Before(K("reset", "video"))'
    /\ AtResetAudio' => Before(K("reset", "audio"))'
    /\ \A kind \in Kinds : AtStartOf(kind)' => Before(K("start", kind))'
    /\ \A kind \in Kinds : AtAnswer(kind)' => Before(K("answer", kind))'
<1>1. AtConfigure' => Before(T("configure"))'
  BY DEF Before, T, K, None, Kinds
<1>2. AtStart' => Before(T("start"))'
  BY DEF Before, T, K, None, Kinds
<1>3. AtStarted' => Before(T("started"))'
  BY DEF Before, T, K, None, Kinds
<1>4. AtStopActive' => Before(T("stopActive"))'
  BY DEF Before, T, K, None, Kinds
<1>5. AtStopSink' => Before(T("stopSink"))'
  BY DEF Before, T, K, None, Kinds
<1>6. AtStartFailed' => Before(T("startFailed"))'
  BY DEF Before, T, K, None, Kinds
<1>7. AtResetClient' => Before(T("resetClient"))'
  BY DEF Before, T, K, None, Kinds
<1>8. AtResetSink' => Before(T("resetSink"))'
  BY DEF Before, T, K, None, Kinds
<1>9. AtResetRest' => Before(T("resetRest"))'
  BY DEF Before, T, K, None, Kinds
<1>10. AtClearError' => Before(T("clearError"))'
  BY DEF Before, T, K, None, Kinds
<1>11. AtStopVideo' => Before(K("stop", "video"))'
  BY DEF Before, T, K, None, Kinds
<1>12. AtStopAudio' => Before(K("stop", "audio"))'
  BY DEF Before, T, K, None, Kinds
<1>13. AtResetVideo' => Before(K("reset", "video"))'
  BY DEF Before, T, K, None, Kinds
<1>14. AtResetAudio' => Before(K("reset", "audio"))'
  BY DEF Before, T, K, None, Kinds
<1>15. ASSUME NEW kind \in Kinds, AtStartOf(kind)' PROVE Before(K("start", kind))'
  BY <1>15 DEF Before, T, K, None, Kinds
<1>16. ASSUME NEW kind \in Kinds, AtAnswer(kind)' PROVE Before(K("answer", kind))'
  BY <1>16 DEF Before, T, K, None, Kinds
<1> QED
  BY <1>1, <1>2, <1>3, <1>4, <1>5, <1>6, <1>7, <1>8, <1>9, <1>10, <1>11, <1>12, <1>13, <1>14, <1>15, <1>16

-----------------------------------------------------------------------------
\* The steps that leave the backends and the client alone.

LEMMA EnsureStep ==
    ASSUME SourceInv, EnsureConfigured, UNCHANGED <<config, requested, inside, gone, calls>>
    PROVE  SourceInv'
<1>1. Step(T("configure")) /\ Before(T("configure")) /\ Configured
  BY ThisStep, StepTypes DEF EnsureConfigured, SourceInv
<1>2. Tail(todo) = <<T("start")>> /\ requested /\ ~gone /\ Settled
  BY <1>1 DEF Before, AtConfigure
<1>3. InPlace
  BY <1>1, <1>2 DEF Settled, Clean, Configured
<1>4. todo' = <<T("start")>> \o <<>>
  BY <1>2, RestTypes, StepTypes DEF EnsureConfigured, Proceed
<1>5. Tail(todo') = <<>> /\ (Before(T("start"))' => Outline') /\ todo' \in Seq(StepSet)
  BY <1>4, NextStep, RestTypes, StepTypes
<1>6. Settled' /\ InPlace'
  BY <1>2, <1>3 DEF EnsureConfigured, graph, Settled, InPlace, Clean, NoBackends, Configured, WorkerKept, AllStarted, Starts, StartedProxy, Stopped,
     NothingStarted
<1>7. Before(T("start"))'
  BY <1>2, <1>5, <1>6, OutlineAt DEF AtStart, EnsureConfigured
<1>8. Entered' /\ BackendsWhole' /\ ClientWhole'
  <2>1. \A kind \in Kinds : ~Answering(kind)
    BY <1>1, NotAnswering DEF T
  <2> QED
    BY <2>1, NothingTouched DEF SourceInv, EnsureConfigured, graph
<1>9. Types'
  BY <1>5 DEF SourceInv, Types, EnsureConfigured, graph
<1> QED
  BY <1>5, <1>7, <1>8, <1>9 DEF SourceInv

LEMMA BuildFailsStep ==
    ASSUME SourceInv, BuildFails, UNCHANGED <<config, requested, inside, gone, calls>>
    PROVE  SourceInv'
<1>1. Step(T("configure")) /\ Before(T("configure")) /\ ~Configured
  BY ThisStep, StepTypes DEF BuildFails, SourceInv
<1>2. requested /\ ~gone /\ Settled /\ Clean
  BY <1>1 DEF Before, AtConfigure, Settled, InPlace
<1>3. todo' = <<>> /\ error' = "failed"
  BY DEF BuildFails
<1>4. (Between' => Outline') /\ todo' \in Seq(StepSet)
  BY <1>3, NoStepLeft
<1>5. Settled' /\ Clean'
  BY <1>2 DEF BuildFails, graph, Settled, InPlace, Clean, NoBackends, Configured, WorkerKept, AllStarted, Starts, StartedProxy, Stopped,
     NothingStarted
<1>6. Between'
  BY <1>2, <1>3, <1>5 DEF Between, Clean
<1>7. Entered' /\ BackendsWhole' /\ ClientWhole'
  <2>1. \A kind \in Kinds : ~Answering(kind)
    BY <1>1, NotAnswering DEF T
  <2> QED
    BY <2>1, NothingTouched DEF SourceInv, BuildFails, graph
<1>8. Types'
  BY <1>3, <1>4 DEF SourceInv, Types, BuildFails, graph
<1> QED
  BY <1>4, <1>6, <1>7, <1>8 DEF SourceInv

LEMMA StartedStep ==
    ASSUME SourceInv, Started, UNCHANGED <<config, requested, inside, gone, calls>>
    PROVE  SourceInv'
<1>1. Step(T("started")) /\ Before(T("started"))
  BY ThisStep, StepTypes DEF Started, SourceInv
<1>2. AtStarted
  BY <1>1 DEF Before
<1>3. todo' = <<>> /\ active' = TRUE
  BY <1>2 DEF Started, Proceed, AtStarted
<1>4. (Between' => Outline') /\ todo' \in Seq(StepSet)
  BY <1>3, NoStepLeft
<1>5. Settled'
  BY <1>2, <1>3 DEF AtStarted, Started, Settled, InPlace, Configured, WorkerKept, AllStarted, Starts, StartedProxy
<1>6. Between'
  BY <1>2, <1>3, <1>5 DEF Between, AtStarted
<1>7. Entered' /\ BackendsWhole' /\ ClientWhole'
  <2>1. \A kind \in Kinds : ~Answering(kind)
    BY <1>1, NotAnswering DEF T
  <2> QED
    BY <2>1, NothingTouched DEF SourceInv, Started
<1>8. Types'
  BY <1>3, <1>4 DEF SourceInv, Types, Started
<1> QED
  BY <1>4, <1>6, <1>7, <1>8 DEF SourceInv

LEMMA ClearErrorStep ==
    ASSUME SourceInv, ClearError, UNCHANGED <<config, requested, inside, gone, calls>>
    PROVE  SourceInv'
<1>1. Step(T("clearError")) /\ Before(T("clearError"))
  BY ThisStep, StepTypes DEF ClearError, SourceInv
<1>2. AtClearError
  BY <1>1 DEF Before
<1>3. todo' = <<>>
  BY <1>2 DEF ClearError, Proceed, AtClearError
<1>4. (Between' => Outline') /\ todo' \in Seq(StepSet)
  BY <1>3, NoStepLeft
<1>5. Clean' /\ ~requested' /\ ~active' /\ ~gone'
  BY <1>2 DEF AtClearError, ClearError, graph, Clean, NoBackends
<1>6. Settled'
  BY <1>5 DEF Clean, NoBackends, NoBackend, Settled, WorkerKept, AllStarted, Starts, StartedProxy, Stopped, NothingStarted, Kinds
<1>7. Between'
  BY <1>5, <1>6 DEF Between
<1>8. Entered' /\ BackendsWhole' /\ ClientWhole'
  <2>1. \A kind \in Kinds : ~Answering(kind)
    BY <1>1, NotAnswering DEF T
  <2> QED
    BY <2>1, NothingTouched DEF SourceInv, ClearError, graph
<1>9. Types'
  BY <1>3, <1>4 DEF SourceInv, Types, ClearError, graph
<1> QED
  BY <1>4, <1>7, <1>8, <1>9 DEF SourceInv

LEMMA StartFailedStep ==
    ASSUME SourceInv, StartFailed, UNCHANGED <<config, requested, inside, gone, calls>>
    PROVE  SourceInv'
<1>1. Step(T("startFailed")) /\ Before(T("startFailed"))
  BY ThisStep, StepTypes DEF StartFailed, SourceInv
<1>2. AtStartFailed
  BY <1>1 DEF Before
<1>3. todo' = <<T("stopActive")>> \o ThenVideo(<<>>)
  <2>1. DestroyGraph \o <<>> = DestroyGraph
    BY StepTypes DEF DestroyGraph, Kinds
  <2> QED
    BY <1>2, <2>1, RestTypes, DestroyUnrolls DEF StartFailed, Proceed, AtStartFailed
<1>4. Tail(todo') = ThenVideo(<<>>) /\ (Before(T("stopActive"))' => Outline') /\ todo' \in Seq(StepSet)
  BY <1>3, NextStep, RestTypes, StepTypes
<1>5. After(<<>>)' /\ Stopped'
  BY <1>2 DEF AtStartFailed, StartFailed, graph, After, Stopped, NothingStarted
<1>6. AtStopActive'
  BY <1>4, <1>5 DEF AtStopActive, Afters
<1>7. Entered' /\ BackendsWhole' /\ ClientWhole'
  <2>1. \A kind \in Kinds : ~Answering(kind)
    BY <1>1, NotAnswering DEF T
  <2> QED
    BY <2>1, NothingTouched DEF SourceInv, StartFailed, graph
<1>8. Types'
  BY <1>4 DEF SourceInv, Types, StartFailed, graph
<1> QED
  BY <1>4, <1>6, <1>7, <1>8, OutlineAt DEF SourceInv

\* Nobody may enter the sink when nothing is started and the worker's answer
\* is not waited for.
LEMMA NobodyEnters ==
    ASSUME SourceInv, NothingStarted, \A kind \in Kinds : ~Answering(kind)
    PROVE  /\ ~client.running /\ ~client.live /\ Starts = 0 /\ client.count = 0 /\ ~client.sink
           /\ \A t \in Kinds \cup {"worker"} : ~MayEnter(t)
<1>1. Starts = 0
  BY DEF NothingStarted, Starts, StartedProxy, Kinds
<1>2. ~client.running /\ ~client.live /\ client.count = 0 /\ ~client.sink
  BY <1>1 DEF SourceInv, ClientWhole
<1>3. \A t \in Kinds \cup {"worker"} : ~MayEnter(t)
  BY <1>2 DEF MayEnter, NothingStarted
<1> QED
  BY <1>1, <1>2, <1>3

BackendSet == [object : {None, "Socket", "Mtl"}, started : BOOLEAN, sink : BOOLEAN]
ClientSet == [exists : BOOLEAN, held : BOOLEAN, running : BOOLEAN, count : 0 .. 2, sink : BOOLEAN, live : BOOLEAN]

LEMMA NothingThere ==
    /\ NoBackend \in BackendSet /\ NoBackend.object = None /\ NoBackend.object # "Mtl" /\ NoBackend.object # "Socket"
    /\ NoBackend.started = FALSE /\ NoBackend.sink = FALSE
    /\ NoClient \in ClientSet /\ NoClient.exists = FALSE /\ NoClient.held = FALSE /\ NoClient.running = FALSE
    /\ NoClient.count = 0 /\ NoClient.sink = FALSE /\ NoClient.live = FALSE
BY DEF NoBackend, NoClient, BackendSet, ClientSet, None

\* Nobody enters a source that lost a backend or the client.
LEMMA StillNobodyEnters ==
    ASSUME SourceInv, inside' = inside, \A t \in Kinds \cup {"worker"} : ~MayEnter(t),
           \A k \in Kinds : backend'[k] = backend[k] \/ backend'[k] = NoBackend,
           client' = client \/ client' = NoClient
    PROVE  Entered'
<1>1. \A t \in Kinds \cup {"worker"} : ~MayEnter(t)'
  BY NothingThere DEF MayEnter, Kinds
<1>2. inside' = {}
  BY DEF SourceInv, Entered, Types
<1> QED
  BY <1>1, <1>2 DEF Entered

\* Without backends the source is settled.
LEMMA CleanIsSettled == Clean' => Settled'
BY DEF Clean, NoBackends, NoBackend, Settled, WorkerKept, AllStarted, Starts, StartedProxy, Stopped, NothingStarted, Kinds

LEMMA StopSinkStep ==
    ASSUME SourceInv, StopSink, UNCHANGED <<config, requested, inside, gone, calls>>
    PROVE  SourceInv'
<1>1. Step(T("stopSink")) /\ Before(T("stopSink"))
  BY ThisStep, StepTypes DEF StopSink, SourceInv
<1>2. AtStopSink
  BY <1>1 DEF Before
<1>3. \A kind \in Kinds : ~Answering(kind)
  BY <1>1, NotAnswering DEF T
<1>4. /\ ~client.running /\ ~client.live /\ Starts = 0
      /\ \A t \in Kinds \cup {"worker"} : ~MayEnter(t)
  BY <1>2, <1>3, NobodyEnters DEF AtStopSink
<1>5. Entered' /\ BackendsWhole' /\ ClientWhole'
  BY <1>3, <1>4, NothingTouched DEF SourceInv, StopSink
<1>6. Stopped' /\ WorkerKept'
  BY <1>2, <1>4 DEF AtStopSink, Stopped, NothingStarted, StopSink, WorkerKept, AllStarted, Starts, StartedProxy, SourceInv, Types
<1>7. todo' = Tail(todo) /\ AfterStop(todo')
  BY <1>2 DEF AtStopSink, StopSink, Proceed
<1>8. CASE todo' = <<>> /\ ~requested /\ ~gone /\ InPlace
  <2>1. (Between' => Outline') /\ todo' \in Seq(StepSet)
    BY <1>8, NoStepLeft
  <2>2. InPlace'
    BY <1>8 DEF InPlace, Configured, StopSink
  <2>3. Between'
    BY <1>6, <1>8, <2>2 DEF Between, Settled, Stopped
  <2>4. Types'
    BY <2>1 DEF SourceInv, Types, StopSink
  <2> QED
    BY <1>5, <2>1, <2>3, <2>4 DEF SourceInv
<1>9. CASE todo' = <<T("startFailed")>> \o DestroyGraph /\ requested /\ ~gone
  <2>1. DestroyGraph \in Seq(StepSet)
    BY StepTypes DEF DestroyGraph, Kinds
  <2>2. Tail(todo') = DestroyGraph /\ (Before(T("startFailed"))' => Outline') /\ todo' \in Seq(StepSet)
    BY <1>9, <2>1, NextStep, StepTypes
  <2>3. AtStartFailed'
    BY <1>6, <1>9, <2>2 DEF AtStartFailed
  <2>4. Types'
    BY <2>2 DEF SourceInv, Types, StopSink
  <2> QED
    BY <1>5, <2>2, <2>3, <2>4, OutlineAt DEF SourceInv
<1>10. CASE \E rest \in Afters : todo' = ThenVideo(rest) /\ After(rest)
  <2>1. PICK rest \in Afters : todo' = ThenVideo(rest) /\ After(rest)
    BY <1>10
  <2>2. todo' = <<K("reset", "video")>> \o ThenAudio(rest)
    BY <2>1 DEF ThenVideo
  <2>3. Tail(todo') = ThenAudio(rest) /\ (Before(K("reset", "video"))' => Outline') /\ todo' \in Seq(StepSet)
    BY <2>2, NextStep, RestTypes, AftersAreLists, StepTypes DEF Kinds
  <2>4. After(rest)'
    BY <2>1 DEF After, StopSink
  <2>5. AtResetVideo'
    BY <1>6, <2>3, <2>4 DEF AtResetVideo
  <2>6. Types'
    BY <2>3 DEF SourceInv, Types, StopSink
  <2> QED
    BY <1>5, <2>3, <2>5, <2>6, OutlineAt DEF SourceInv
<1> QED
  BY <1>7, <1>8, <1>9, <1>10 DEF AfterStop

LEMMA StopActiveStep ==
    ASSUME SourceInv, StopActive, UNCHANGED <<config, requested, inside, gone, calls>>
    PROVE  SourceInv'
<1>1. Step(T("stopActive")) /\ Before(T("stopActive"))
  BY ThisStep, StepTypes DEF StopActive, SourceInv
<1>2. AtStopActive
  BY <1>1 DEF Before
<1>3. Entered' /\ BackendsWhole' /\ ClientWhole'
  <2>1. \A kind \in Kinds : ~Answering(kind)
    BY <1>1, NotAnswering DEF T
  <2> QED
    BY <2>1, NothingTouched DEF SourceInv, StopActive
<1>4. CASE SessionsMayBeRunning
  <2>1. todo' = StopBoth \o Tail(todo) /\ ~active'
    BY <1>4 DEF StopActive
  <2>2. PICK after \in Seq(StepSet) : Tail(todo) = after /\ AfterStop(after)
    <3>1. CASE Tail(todo) = <<>> /\ ~requested /\ ~gone /\ Settled
      <4>1. InPlace
        BY <1>4, <3>1 DEF SessionsMayBeRunning, Settled, Clean, NoClient
      <4> QED
        BY <3>1, <4>1, RestTypes DEF AfterStop
    <3>2. CASE \E after \in Afters : Tail(todo) = ThenVideo(after) /\ After(after)
      BY <3>2, RestTypes, AftersAreLists DEF AfterStop
    <3> QED
      BY <1>2, <3>1, <3>2 DEF AtStopActive
  <2>3. AfterStop(after)'
    BY <2>2 DEF AfterStop, After, StopActive, InPlace, Configured
  <2> DEFINE left == <<K("stop", "audio")>> \o (<<T("stopSink")>> \o after)
  <2>4. left \in Seq(StepSet)
    BY StepThen, StepTypes DEF Kinds
  <2>5. todo' = <<K("stop", "video")>> \o left
    BY <2>1, <2>2, StopUnrolls
  <2> HIDE DEF left
  <2>6. Tail(todo') = left /\ (Before(K("stop", "video"))' => Outline') /\ todo' \in Seq(StepSet)
    BY <2>4, <2>5, NextStep, StepTypes DEF Kinds
  <2>7. AtStopVideo'
    BY <2>1, <2>3, <2>6 DEF AtStopVideo, left
  <2>8. Types'
    BY <2>1, <2>6 DEF SourceInv, Types, StopActive
  <2> QED
    BY <1>3, <2>6, <2>7, <2>8, OutlineAt DEF SourceInv
<1>5. CASE ~SessionsMayBeRunning
  <2>1. todo' = Tail(todo) /\ active' = active
    BY <1>5 DEF StopActive, Proceed
  <2>2. CASE Tail(todo) = <<>> /\ ~requested /\ ~gone /\ Settled
    <3>1. (Between' => Outline') /\ todo' \in Seq(StepSet)
      BY <2>1, <2>2, NoStepLeft
    <3>2. Settled' /\ ~active'
      BY <1>5, <2>1, <2>2 DEF StopActive, Settled, InPlace, Clean, NoBackends, Configured, WorkerKept, AllStarted, Starts, StartedProxy,
         Stopped, NothingStarted, SessionsMayBeRunning
    <3>3. Between'
      BY <2>2, <3>2 DEF Between
    <3>4. Types'
      BY <2>1, <3>1 DEF SourceInv, Types, StopActive
    <3> QED
      BY <1>3, <3>1, <3>3, <3>4 DEF SourceInv
  <2>3. CASE (\E after \in Afters : Tail(todo) = ThenVideo(after) /\ After(after)) /\ (active \/ client.running \/ Stopped)
    <3>1. PICK rest \in Afters : todo' = ThenVideo(rest) /\ After(rest)
      BY <2>1, <2>3
    <3>2. todo' = <<K("reset", "video")>> \o ThenAudio(rest)
      BY <3>1 DEF ThenVideo
    <3>3. Tail(todo') = ThenAudio(rest) /\ (Before(K("reset", "video"))' => Outline') /\ todo' \in Seq(StepSet)
      BY <3>2, NextStep, RestTypes, AftersAreLists, StepTypes DEF Kinds
    <3>4. After(rest)'
      BY <3>1 DEF After, StopActive
    <3>5. Stopped'
      BY <1>5, <2>1, <2>3 DEF SessionsMayBeRunning, Stopped, NothingStarted, StopActive
    <3>6. AtResetVideo'
      BY <3>3, <3>4, <3>5 DEF AtResetVideo
    <3>7. Types'
      BY <2>1, <3>3 DEF SourceInv, Types, StopActive
    <3> QED
      BY <1>3, <3>3, <3>6, <3>7, OutlineAt DEF SourceInv
  <2> QED
    BY <1>2, <2>2, <2>3 DEF AtStopActive
<1> QED
  BY <1>4, <1>5

-----------------------------------------------------------------------------
\* The steps of destroy_configured_graph_noexcept.

LEMMA ResetSinkStep ==
    ASSUME SourceInv, ResetSink, UNCHANGED <<config, requested, inside, gone, calls>>
    PROVE  SourceInv'
<1>1. Step(T("resetSink")) /\ Before(T("resetSink"))
  BY ThisStep, StepTypes DEF ResetSink, SourceInv
<1>2. AtResetSink
  BY <1>1 DEF Before
<1>3. \A kind \in Kinds : ~Answering(kind)
  BY <1>1, NotAnswering DEF T
<1>4. \A t \in Kinds \cup {"worker"} : ~MayEnter(t)
  BY <1>2, <1>3, NobodyEnters DEF AtResetSink, Stopped
<1>5. Entered' /\ BackendsWhole' /\ ClientWhole'
  BY <1>3, <1>4, NothingTouched DEF SourceInv, ResetSink
<1>6. PICK rest \in Afters : Tail(todo) = ThenRest(rest) /\ After(rest)
  BY <1>2 DEF AtResetSink
<1>7. todo' = <<T("resetRest")>> \o rest
  BY <1>6 DEF ThenRest, ResetSink, Proceed
<1>8. Tail(todo') = rest /\ (Before(T("resetRest"))' => Outline') /\ todo' \in Seq(StepSet)
  BY <1>7, NextStep, AftersAreLists, StepTypes
<1>9. AtResetRest'
  BY <1>2, <1>6, <1>8 DEF AtResetSink, AtResetRest, After, Stopped, NothingStarted, NoBackends, ResetSink
<1>10. Types'
  BY <1>8 DEF SourceInv, Types, ResetSink
<1> QED
  BY <1>5, <1>8, <1>9, <1>10, OutlineAt DEF SourceInv

LEMMA ResetRestStep ==
    ASSUME SourceInv, ResetRest, UNCHANGED <<config, requested, inside, gone, calls>>
    PROVE  SourceInv'
<1>1. Step(T("resetRest")) /\ Before(T("resetRest"))
  BY ThisStep, StepTypes DEF ResetRest, SourceInv
<1>2. AtResetRest
  BY <1>1 DEF Before
<1>3. Entered' /\ BackendsWhole' /\ ClientWhole'
  <2>1. \A kind \in Kinds : ~Answering(kind)
    BY <1>1, NotAnswering DEF T
  <2> QED
    BY <2>1, NothingTouched DEF SourceInv, ResetRest
<1>4. Clean'
  BY <1>2 DEF AtResetRest, ResetRest, Clean, NoBackends
<1>5. Settled' /\ ~active'
  BY <1>4, CleanIsSettled DEF Clean
<1>6. todo' \in Afters /\ After(todo')
  BY <1>2 DEF AtResetRest, ResetRest, Proceed
<1>7. CASE todo' = <<>> /\ (gone \/ (requested /\ error = "failed"))
  <2>1. (Between' => Outline') /\ todo' \in Seq(StepSet)
    BY <1>7, NoStepLeft
  <2>2. Between'
    BY <1>4, <1>5, <1>7 DEF Between, ResetRest
  <2>3. Types'
    BY <2>1, <1>5 DEF SourceInv, Types, ResetRest
  <2> QED
    BY <1>3, <2>1, <2>2, <2>3 DEF SourceInv
<1>8. CASE todo' = StartGraph /\ requested /\ ~gone
  <2>1. todo' = <<T("configure")>> \o <<T("start")>> /\ <<T("start")>> \in Seq(StepSet)
    BY <1>8, StepTypes, TwoSteps DEF StartGraph
  <2>2. Tail(todo') = <<T("start")>> /\ (Before(T("configure"))' => Outline') /\ todo' \in Seq(StepSet)
    BY <2>1, NextStep, StepTypes
  <2>3. AtConfigure'
    BY <1>5, <1>8, <2>2 DEF AtConfigure
  <2>4. Types'
    BY <2>2, <1>5 DEF SourceInv, Types, ResetRest
  <2> QED
    BY <1>3, <2>2, <2>3, <2>4, OutlineAt DEF SourceInv
<1>9. CASE todo' = <<T("clearError")>> /\ ~requested /\ ~gone
  <2>1. todo' = <<T("clearError")>> \o <<>>
    BY <1>9, StepTypes
  <2>2. Tail(todo') = <<>> /\ (Before(T("clearError"))' => Outline') /\ todo' \in Seq(StepSet)
    BY <2>1, NextStep, StepTypes, RestTypes
  <2>3. AtClearError'
    BY <1>4, <1>9, <2>2 DEF AtClearError
  <2>4. Types'
    BY <2>2, <1>5 DEF SourceInv, Types, ResetRest
  <2> QED
    BY <1>3, <2>2, <2>3, <2>4, OutlineAt DEF SourceInv
<1> QED
  BY <1>6, <1>7, <1>8, <1>9 DEF After

LEMMA ResetClientStep ==
    ASSUME SourceInv, ResetClient, UNCHANGED <<config, requested, inside, gone, calls>>
    PROVE  SourceInv'
<1>1. Step(T("resetClient")) /\ Before(T("resetClient"))
  BY ThisStep, StepTypes DEF ResetClient, SourceInv
<1>2. AtResetClient
  BY <1>1 DEF Before
<1>3. \A kind \in Kinds : ~Answering(kind)
  BY <1>1, NotAnswering DEF T
<1>4. \A t \in Kinds \cup {"worker"} : ~MayEnter(t)
  BY <1>2, <1>3, NobodyEnters DEF AtResetClient, Stopped
<1>5. client' = NoClient /\ backend' = backend /\ sink' = sink
  BY <1>2 DEF ResetClient, ClientReleased, AtResetClient, NoBackends, NoBackend, None
<1>6. Entered'
  BY <1>4, <1>5, StillNobodyEnters
<1>7. BackendsWhole' /\ ClientWhole'
  <2>1. \A kind \in Kinds : backend'[kind] = NoBackend
    BY <1>2, <1>5 DEF AtResetClient, NoBackends
  <2>2. ~(\E kind \in Kinds : backend'[kind].object = "Mtl")
    BY <2>1 DEF NoBackend, None
  <2>3. ClientWhole'
    BY <1>5, <2>2 DEF ClientWhole, NoClient
  <2>4. BackendsWhole'
    BY <2>1, NothingThere DEF BackendsWhole
  <2> QED
    BY <2>3, <2>4
<1>8. PICK rest \in Afters : Tail(todo) = ThenSink(rest) /\ After(rest)
  BY <1>2 DEF AtResetClient
<1>9. todo' = <<T("resetSink")>> \o ThenRest(rest)
  BY <1>8 DEF ThenSink, ResetClient, Proceed
<1>10. Tail(todo') = ThenRest(rest) /\ (Before(T("resetSink"))' => Outline') /\ todo' \in Seq(StepSet)
  BY <1>9, NextStep, RestTypes, AftersAreLists, StepTypes
<1>11. AtResetSink'
  BY <1>2, <1>5, <1>8, <1>10 DEF AtResetClient, AtResetSink, After, Stopped, NothingStarted, NoBackends, ResetClient
<1>12. Types'
  BY <1>5, <1>10 DEF SourceInv, Types, ResetClient, NoClient
<1> QED
  BY <1>6, <1>7, <1>10, <1>11, <1>12, OutlineAt DEF SourceInv

LEMMA ResetBackendStep ==
    ASSUME SourceInv, NEW kind \in Kinds, ResetBackend(kind), UNCHANGED <<config, requested, inside, gone, calls>>
    PROVE  SourceInv'
<1>1. Step(K("reset", kind)) /\ Before(K("reset", kind))
  BY ThisStep, StepTypes DEF ResetBackend, SourceInv
<1>2. \A k \in Kinds : ~Answering(k)
  BY <1>1, NotAnswering DEF K
<1>3. Stopped /\ (kind = "audio" => backend["video"] = NoBackend)
  BY <1>1 DEF Before, Kinds, AtResetVideo, AtResetAudio
<1>4. /\ ~client.running /\ ~client.live /\ Starts = 0 /\ client.count = 0 /\ ~client.sink
      /\ \A t \in Kinds \cup {"worker"} : ~MayEnter(t)
  BY <1>2, <1>3, NobodyEnters DEF Stopped
<1>5. backend' = [backend EXCEPT ![kind] = NoBackend] /\ todo' = Tail(todo)
      /\ UNCHANGED <<built, width, sink, active, error, faults>>
  BY DEF ResetBackend, Proceed
<1>6. /\ backend'[kind] = NoBackend
      /\ \A k \in Kinds : backend'[k] = backend[k] \/ backend'[k] = NoBackend
  BY <1>5 DEF SourceInv, Types
<1>7. client'.exists = (client'.held \/ \E k \in Kinds : backend'[k].object = "Mtl")
  <2>1. CASE client.held \/ \E k \in Kinds : backend'[k].object = "Mtl"
    <3>1. client' = [client EXCEPT !.held = client.held]
      BY <2>1 DEF ResetBackend, ClientReleased
    <3>2. client' = client
      BY <3>1 DEF SourceInv, Types
    <3>3. client.held \/ \E k \in Kinds : backend[k].object = "Mtl"
      BY <2>1, <1>6 DEF NoBackend, None
    <3> QED
      BY <2>1, <3>2, <3>3 DEF SourceInv, ClientWhole
  <2>2. CASE ~(client.held \/ \E k \in Kinds : backend'[k].object = "Mtl")
    <3>1. client' = NoClient
      BY <2>2 DEF ResetBackend, ClientReleased
    <3> QED
      BY <2>2, <3>1, NothingThere
  <2> QED
    BY <2>1, <2>2
<1>8. client' = client \/ client' = NoClient
  BY DEF ResetBackend, ClientReleased, SourceInv, Types
<1>9. Entered'
  BY <1>4, <1>6, <1>8, StillNobodyEnters
<1>10. NothingStarted' /\ Stopped' /\ BackendsWhole'
  <2>1. NothingStarted'
    BY <1>3, <1>6, NothingThere DEF Stopped, NothingStarted
  <2>2. BackendsWhole'
    BY <1>2, <1>6, NothingThere DEF SourceInv, BackendsWhole
  <2> QED
    BY <1>3, <1>5, <2>1, <2>2 DEF Stopped
<1>11. ClientWhole'
  BY <1>4, <1>7, <1>8 DEF SourceInv, ClientWhole, NoClient
<1>12. CASE kind = "video"
  <2>1. PICK rest \in Afters : Tail(todo) = ThenAudio(rest) /\ After(rest)
    BY <1>1, <1>12 DEF Before, AtResetVideo
  <2>2. todo' = <<K("reset", "audio")>> \o ThenClient(rest)
    BY <1>5, <2>1 DEF ThenAudio
  <2>3. Tail(todo') = ThenClient(rest) /\ (Before(K("reset", "audio"))' => Outline') /\ todo' \in Seq(StepSet)
    BY <2>2, NextStep, RestTypes, AftersAreLists, StepTypes DEF Kinds
  <2>4. AtResetAudio'
    BY <1>5, <1>6, <1>10, <1>12, <2>1, <2>3 DEF AtResetAudio, After
  <2>5. Types'
    <3>1. backend \in [Kinds -> BackendSet] /\ client \in ClientSet
      BY DEF SourceInv, Types, BackendSet, ClientSet
    <3>2. backend' \in [Kinds -> BackendSet] /\ client' \in ClientSet
      BY <1>5, <1>8, <3>1, NothingThere
    <3> QED
      BY <1>5, <2>3, <3>2 DEF SourceInv, Types, BackendSet, ClientSet
  <2> QED
    BY <1>9, <1>10, <1>11, <2>3, <2>4, <2>5, OutlineAt DEF SourceInv
<1>13. CASE kind = "audio"
  <2>1. PICK rest \in Afters : Tail(todo) = ThenClient(rest) /\ After(rest)
    BY <1>1, <1>13 DEF Before, AtResetAudio
  <2>2. todo' = <<T("resetClient")>> \o ThenSink(rest)
    BY <1>5, <2>1 DEF ThenClient
  <2>3. Tail(todo') = ThenSink(rest) /\ (Before(T("resetClient"))' => Outline') /\ todo' \in Seq(StepSet)
    BY <2>2, NextStep, RestTypes, AftersAreLists, StepTypes
  <2>4. NoBackends'
    BY <1>3, <1>5, <1>6, <1>13 DEF NoBackends, Kinds
  <2>5. AtResetClient'
    BY <1>5, <1>10, <2>1, <2>3, <2>4 DEF AtResetClient, After
  <2>6. Types'
    <3>1. backend \in [Kinds -> BackendSet] /\ client \in ClientSet
      BY DEF SourceInv, Types, BackendSet, ClientSet
    <3>2. backend' \in [Kinds -> BackendSet] /\ client' \in ClientSet
      BY <1>5, <1>8, <3>1, NothingThere
    <3> QED
      BY <1>5, <2>3, <3>2 DEF SourceInv, Types, BackendSet, ClientSet
  <2> QED
    BY <1>9, <1>10, <1>11, <2>3, <2>5, <2>6, OutlineAt DEF SourceInv
<1> QED
  BY <1>12, <1>13 DEF Kinds

-----------------------------------------------------------------------------
\* Starting and stopping a backend.

LEMMA TwoFields ==
    ASSUME NEW b \in BackendSet, NEW v \in BOOLEAN
    PROVE  [b EXCEPT !.started = v, !.sink = v] = [object |-> b.object, started |-> v, sink |-> v]
<1> DEFINE c == [b EXCEPT !.started = v]
<1>1. c \in BackendSet /\ c.object = b.object /\ c.started = v
  BY DEF BackendSet
<1>2. [b EXCEPT !.started = v, !.sink = v] = [c EXCEPT !.sink = v]
  OBVIOUS
<1> HIDE DEF c
<1>3. [c EXCEPT !.sink = v] = [object |-> c.object, started |-> c.started, sink |-> v]
  BY <1>1 DEF BackendSet
<1> QED
  BY <1>1, <1>2, <1>3

LEMMA DetachedFacts ==
    ASSUME NEW kind \in Kinds, backend \in [Kinds -> BackendSet],
           backend' = [backend EXCEPT ![kind] = Detached(@)]
    PROVE  /\ backend' \in [Kinds -> BackendSet]
           /\ backend'[kind].object = backend[kind].object
           /\ backend'[kind].started = FALSE /\ backend'[kind].sink = FALSE
           /\ \A k \in Kinds : k # kind => backend'[k] = backend[k]
           /\ backend[kind] = NoBackend => backend'[kind] = NoBackend
<1> DEFINE b == backend[kind]
           d == Detached(b)
<1>1. b \in BackendSet
  OBVIOUS
<1>2. d = [object |-> b.object, started |-> FALSE, sink |-> FALSE]
  BY <1>1, TwoFields DEF Detached
<1>3. d \in BackendSet /\ d.object = b.object /\ d.started = FALSE /\ d.sink = FALSE
  BY <1>1, <1>2 DEF BackendSet
<1>4. b = NoBackend => d = NoBackend
  BY <1>2 DEF NoBackend
<1>5. backend' = [backend EXCEPT ![kind] = d]
  OBVIOUS
<1> HIDE DEF d
<1> QED
  BY <1>3, <1>4, <1>5

LEMMA AttachedFacts ==
    ASSUME NEW kind \in Kinds, backend \in [Kinds -> BackendSet],
           backend' = [backend EXCEPT ![kind] = Attached(@)]
    PROVE  /\ backend' \in [Kinds -> BackendSet]
           /\ backend'[kind].object = backend[kind].object
           /\ backend'[kind].started = TRUE /\ backend'[kind].sink = TRUE
           /\ \A k \in Kinds : k # kind => backend'[k] = backend[k]
<1> DEFINE b == backend[kind]
           d == Attached(b)
<1>1. b \in BackendSet
  OBVIOUS
<1>2. d = [object |-> b.object, started |-> TRUE, sink |-> TRUE]
  BY <1>1, TwoFields DEF Attached
<1>3. d \in BackendSet /\ d.object = b.object /\ d.started = TRUE /\ d.sink = TRUE
  BY <1>1, <1>2 DEF BackendSet
<1>4. backend' = [backend EXCEPT ![kind] = d]
  OBVIOUS
<1> HIDE DEF d
<1> QED
  BY <1>3, <1>4

LEMMA BackendTypes == Types => backend \in [Kinds -> BackendSet] /\ client \in ClientSet
BY DEF Types, BackendSet, ClientSet

\* The graph stays in place while its backends stay the same objects.
LEMMA StaysInPlace ==
    ASSUME InPlace, \A k \in Kinds : backend'[k].object = backend[k].object, sink' # "none",
           config' = config, built' = built
    PROVE  InPlace'
BY DEF InPlace, Configured

\* The client after it lost its worker.
LEMMA ClearedFacts ==
    ASSUME client \in ClientSet
    PROVE  /\ ClientCleared \in ClientSet
           /\ ClientCleared.exists = client.exists /\ ClientCleared.held = client.held
           /\ ClientCleared.running = FALSE /\ ClientCleared.count = 0 /\ ClientCleared.live = FALSE
           /\ [ClientCleared EXCEPT !.sink = FALSE] \in ClientSet
           /\ [ClientCleared EXCEPT !.sink = FALSE].exists = client.exists
           /\ [ClientCleared EXCEPT !.sink = FALSE].held = client.held
           /\ [ClientCleared EXCEPT !.sink = FALSE].running = FALSE
           /\ [ClientCleared EXCEPT !.sink = FALSE].count = 0
           /\ [ClientCleared EXCEPT !.sink = FALSE].live = FALSE
           /\ [ClientCleared EXCEPT !.sink = FALSE].sink = FALSE
<1> DEFINE c == [client EXCEPT !.running = FALSE]
           d == [c EXCEPT !.count = 0]
           e == [d EXCEPT !.live = FALSE]
           f == [e EXCEPT !.sink = FALSE]
<1>1. c \in ClientSet /\ c.running = FALSE /\ c.exists = client.exists /\ c.held = client.held
  BY DEF ClientSet
<1>2. ClientCleared = e
  BY DEF ClientCleared
<1> HIDE DEF c
<1>3. d \in ClientSet /\ d.count = 0 /\ d.running = FALSE /\ d.exists = client.exists /\ d.held = client.held
  BY <1>1 DEF ClientSet
<1> HIDE DEF d
<1>4. /\ e \in ClientSet /\ e.live = FALSE /\ e.count = 0 /\ e.running = FALSE
      /\ e.exists = client.exists /\ e.held = client.held
  BY <1>3 DEF ClientSet
<1> HIDE DEF e
<1>5. /\ f \in ClientSet /\ f.sink = FALSE /\ f.live = FALSE /\ f.count = 0 /\ f.running = FALSE
      /\ f.exists = client.exists /\ f.held = client.held
  BY <1>4 DEF ClientSet
<1> QED
  BY <1>2, <1>4, <1>5

LEMMA CountedDown ==
    ASSUME client \in ClientSet, client.count > 1
    PROVE  LET c == [client EXCEPT !.count = @ - 1] IN
           /\ c \in ClientSet /\ c.count = client.count - 1 /\ c.exists = client.exists /\ c.held = client.held
           /\ c.running = client.running /\ c.live = client.live /\ c.sink = client.sink
BY DEF ClientSet

LEMMA StopBackendStep ==
    ASSUME SourceInv, NEW kind \in Kinds, StopBackend(kind), UNCHANGED <<config, requested, inside, gone, calls>>
    PROVE  SourceInv'
<1>1. Step(K("stop", kind)) /\ Before(K("stop", kind))
  BY ThisStep, StepTypes DEF StopBackend, SourceInv
<1>2. \A k \in Kinds : ~Answering(k)
  BY <1>1, NotAnswering DEF K
<1>3. backend \in [Kinds -> BackendSet] /\ client \in ClientSet
  BY BackendTypes DEF SourceInv
<1>4. /\ backend' \in [Kinds -> BackendSet]
      /\ backend'[kind].object = backend[kind].object
      /\ backend'[kind].started = FALSE /\ backend'[kind].sink = FALSE
      /\ \A k \in Kinds : k # kind => backend'[k] = backend[k]
      /\ backend[kind] = NoBackend => backend'[kind] = NoBackend
  BY <1>3, DetachedFacts DEF StopBackend
<1>5. todo' = Tail(todo) /\ UNCHANGED <<built, width, sink, active, error, faults>>
  BY DEF StopBackend, Proceed
<1>6. \A k \in Kinds : backend'[k].object = backend[k].object
  BY <1>4
<1>7. /\ StartedProxy(kind)' = FALSE
      /\ \A k \in Kinds : k # kind => StartedProxy(k)' = StartedProxy(k)
  BY <1>4 DEF StartedProxy
<1>8. Starts' = IF StartedProxy(kind) THEN Starts - 1 ELSE Starts
  BY <1>7 DEF Starts, Kinds
<1>9. Starts \in 0 .. 2 /\ Starts' \in 0 .. 2 /\ (StartedProxy(kind) => Starts > 0)
  BY DEF Starts, Kinds
\* What becomes of the client.
<1>10. \/ client' = client /\ ~StartedProxy(kind) /\ (backend[kind].object = "Socket" => kind \notin inside)
       \/ StartedProxy(kind) /\ client.running /\ client.count > 1 /\ client' = [client EXCEPT !.count = @ - 1]
       \/ /\ StartedProxy(kind) /\ ~(client.running /\ client.count > 1) /\ HandlerIdle
          /\ client' = [ClientCleared EXCEPT !.sink = FALSE]
  <2>1. CASE backend[kind].object = None /\ UNCHANGED client
    BY <2>1 DEF StartedProxy, None
  <2>2. CASE StopSocket(kind)
    BY <2>2 DEF StopSocket, StartedProxy
  <2>3. CASE StopProxy(kind)
    BY <2>3 DEF StopProxy, StartedProxy
  <2> QED
    BY <2>1, <2>2, <2>3 DEF StopBackend
<1>11. /\ client' \in ClientSet /\ client'.exists = client.exists /\ client'.held = client.held
       /\ client'.live => client.live
       /\ client.live /\ ~client'.live => HandlerIdle
       /\ ~client'.exists => client' = client
       /\ IF client'.running THEN client'.live /\ client'.count = Starts' /\ Starts' > 0 ELSE client'.count = 0
       /\ client'.live => client'.running
       /\ client'.sink => Starts' > 0
  <2>1. ClientWhole
    BY DEF SourceInv
  <2>2. StartedProxy(kind) => client.exists
    BY <2>1 DEF ClientWhole, StartedProxy
  <2>3. CASE client' = client /\ ~StartedProxy(kind)
    BY <1>2, <1>3, <1>8, <2>1, <2>3 DEF ClientWhole
  <2>4. CASE StartedProxy(kind) /\ client.running /\ client.count > 1 /\ client' = [client EXCEPT !.count = @ - 1]
    <3>1. /\ client' \in ClientSet /\ client'.count = client.count - 1
          /\ client'.exists = client.exists /\ client'.held = client.held
          /\ client'.running = client.running /\ client'.live = client.live /\ client'.sink = client.sink
      BY <1>3, <2>4, CountedDown
    <3>2. client.count = Starts /\ client.live
      BY <2>1, <2>4 DEF ClientWhole
    <3> QED
      BY <1>8, <1>9, <2>2, <2>4, <3>1, <3>2
  <2>5. CASE StartedProxy(kind) /\ HandlerIdle /\ client' = [ClientCleared EXCEPT !.sink = FALSE]
    <3>1. /\ client' \in ClientSet /\ client'.exists = client.exists /\ client'.held = client.held
          /\ client'.running = FALSE /\ client'.count = 0 /\ client'.live = FALSE /\ client'.sink = FALSE
      BY <1>3, <2>5, ClearedFacts
    <3> QED
      BY <2>2, <2>5, <3>1
  <2> QED
    BY <1>10, <2>3, <2>4, <2>5
<1>12. ClientWhole'
  <2>1. ~client'.exists => client' = NoClient
    BY <1>11 DEF SourceInv, ClientWhole
  <2>2. client'.exists = (client'.held \/ \E k \in Kinds : backend'[k].object = "Mtl")
    BY <1>6, <1>11 DEF SourceInv, ClientWhole
  <2> QED
    BY <1>11, <2>1, <2>2 DEF ClientWhole
<1>13. BackendsWhole'
  <2>1. ASSUME NEW k \in Kinds
        PROVE  (backend'[k].object = None => backend'[k] = NoBackend) /\ (backend'[k].sink => backend'[k].started)
    BY <1>2, <1>4 DEF SourceInv, BackendsWhole
  <2> QED
    BY <2>1 DEF BackendsWhole
<1>14. Entered'
  <2>1. ASSUME NEW t \in Kinds \cup {"worker"}, MayEnter(t)' PROVE MayEnter(t)
    BY <1>4, <1>11, <2>1 DEF MayEnter
  <2>2. ASSUME NEW t \in inside PROVE MayEnter(t)'
    <3>1. MayEnter(t) /\ t \in Kinds \cup {"worker"}
      BY DEF SourceInv, Entered, Types
    <3>2. CASE t = "worker"
      BY <1>11, <2>2, <3>1, <3>2 DEF MayEnter, HandlerIdle
    <3>3. CASE t \in Kinds /\ t # kind
      BY <1>4, <3>1, <3>3 DEF MayEnter, Kinds
    <3>4. CASE t = kind
      BY <1>10, <2>2, <3>1, <3>4 DEF MayEnter, StartedProxy, Kinds
    <3> QED
      BY <3>1, <3>2, <3>3, <3>4
  <2> QED
    BY <1>5, <2>1, <2>2 DEF SourceInv, Entered
<1>15. ASSUME NEW after, AfterStop(after) PROVE AfterStop(after)'
  <2>1. InPlace => InPlace'
    BY <1>5, <1>6 DEF InPlace, Configured
  <2> QED
    BY <1>5, <1>15, <2>1 DEF AfterStop, After
<1>16. CASE kind = "video"
  <2>1. PICK after \in Seq(StepSet) :
          Tail(todo) = <<K("stop", "audio")>> \o (<<T("stopSink")>> \o after) /\ AfterStop(after)
    BY <1>1, <1>16 DEF Before, AtStopVideo
  <2>2. <<T("stopSink")>> \o after \in Seq(StepSet)
    BY StepThen, StepTypes
  <2>3. /\ Tail(todo') = <<T("stopSink")>> \o after /\ (Before(K("stop", "audio"))' => Outline')
        /\ todo' \in Seq(StepSet)
    BY <1>5, <2>1, <2>2, NextStep, StepTypes DEF Kinds
  <2>4. AtStopAudio'
    BY <1>1, <1>4, <1>5, <1>15, <1>16, <2>1, <2>3 DEF Before, AtStopVideo, AtStopAudio
  <2>5. Types'
    BY <1>4, <1>5, <1>11, <2>3 DEF SourceInv, Types, BackendSet, ClientSet
  <2> QED
    BY <1>12, <1>13, <1>14, <2>3, <2>4, <2>5, OutlineAt DEF SourceInv
<1>17. CASE kind = "audio"
  <2>1. PICK after \in Seq(StepSet) : Tail(todo) = <<T("stopSink")>> \o after /\ AfterStop(after)
    BY <1>1, <1>17 DEF Before, AtStopAudio
  <2>2. Tail(todo') = after /\ (Before(T("stopSink"))' => Outline') /\ todo' \in Seq(StepSet)
    BY <1>5, <2>1, NextStep, StepTypes
  <2>3. ~active /\ ~backend["video"].started
    BY <1>1, <1>17 DEF Before, AtStopAudio
  <2>4. NothingStarted'
    BY <1>4, <1>17, <2>3 DEF NothingStarted, Kinds
  <2>5. AtStopSink'
    BY <1>5, <1>15, <2>1, <2>2, <2>3, <2>4 DEF AtStopSink
  <2>6. Types'
    BY <1>4, <1>5, <1>11, <2>2 DEF SourceInv, Types, BackendSet, ClientSet
  <2> QED
    BY <1>12, <1>13, <1>14, <2>2, <2>5, <2>6, OutlineAt DEF SourceInv
<1> QED
  BY <1>16, <1>17 DEF Kinds

\* A failed start stops what was started and destroys the graph.
LEMMA GivingUp ==
    ASSUME todo' = GiveUp, requested', ~gone', ~active'
    PROVE  Outline' /\ todo' \in Seq(StepSet) /\ \A k \in Kinds : ~Answering(k)'
<1> DEFINE after == <<T("startFailed")>> \o DestroyGraph
           left == <<K("stop", "audio")>> \o (<<T("stopSink")>> \o after)
<1>1. /\ DestroyGraph \in Seq(StepSet) /\ StopBoth \in Seq(StepSet)
      /\ <<T("startFailed")>> \in Seq(StepSet)
  BY StepTypes DEF DestroyGraph, StopBoth, Kinds
<1>2. after \in Seq(StepSet)
  BY <1>1, StepThen, StepTypes
<1>3. todo' = StopBoth \o after
  BY <1>1, ConcatAssociative DEF GiveUp
<1>4. AfterStop(after)'
  BY DEF AfterStop
<1> HIDE DEF after
<1>5. left \in Seq(StepSet)
  BY <1>2, StepThen, StepTypes DEF Kinds
<1>6. todo' = <<K("stop", "video")>> \o left
  BY <1>2, <1>3, StopUnrolls
<1> HIDE DEF left
<1>7. /\ Tail(todo') = left /\ (Before(K("stop", "video"))' => Outline') /\ todo' \in Seq(StepSet)
      /\ \A k \in Kinds : Answering(k)' <=> K("stop", "video") = K("answer", k)
  BY <1>5, <1>6, NextStep, StepTypes DEF Kinds
<1>8. AtStopVideo'
  BY <1>2, <1>4, <1>7 DEF AtStopVideo, left
<1>9. \A k \in Kinds : K("stop", "video") # K("answer", k)
  BY DEF K
<1> QED
  BY <1>7, <1>8, <1>9, OutlineAt

\* A backend is started: the next one, if there is another, or the end.
LEMMA NextStart ==
    ASSUME NEW kind \in Kinds, Remaining(kind), todo' = Tail(todo), Starting',
           backend'[kind].started, \A k \in Kinds : k # kind => backend'[k] = backend[k]
    PROVE  Outline' /\ todo' \in Seq(StepSet) /\ \A k \in Kinds : ~Answering(k)'
<1>1. CASE /\ Tail(todo) = <<T("started")>>
           /\ \A k \in Kinds : k # kind /\ backend[k].object # None => backend[k].started
  <2>1. todo' = <<T("started")>> \o <<>>
    BY <1>1, StepTypes
  <2>2. /\ Tail(todo') = <<>> /\ (Before(T("started"))' => Outline') /\ todo' \in Seq(StepSet)
        /\ \A k \in Kinds : Answering(k)' <=> T("started") = K("answer", k)
    BY <2>1, NextStep, StepTypes, RestTypes
  <2>3. AllStarted'
    BY <1>1 DEF Remaining, AllStarted
  <2>4. AtStarted'
    BY <2>2, <2>3 DEF AtStarted, Starting
  <2>5. \A k \in Kinds : T("started") # K("answer", k)
    BY DEF T, K
  <2> QED
    BY <2>2, <2>4, <2>5, OutlineAt
<1>2. CASE kind = "video" /\ ToStart("audio") /\ Tail(todo) = <<K("start", "audio"), T("started")>>
  <2>1. todo' = <<K("start", "audio")>> \o <<T("started")>> /\ <<T("started")>> \in Seq(StepSet)
    BY <1>2, TwoSteps, StepTypes DEF Kinds
  <2>2. /\ Tail(todo') = <<T("started")>> /\ (Before(K("start", "audio"))' => Outline') /\ todo' \in Seq(StepSet)
        /\ \A k \in Kinds : Answering(k)' <=> K("start", "audio") = K("answer", k)
    BY <2>1, NextStep, StepTypes DEF Kinds
  <2>3. ToStart("audio")' /\ Remaining("audio")'
    BY <1>2, <2>2 DEF ToStart, Remaining, Kinds
  <2>4. AtStartOf("audio")'
    BY <2>3 DEF AtStartOf
  <2>5. \A k \in Kinds : K("start", "audio") # K("answer", k)
    BY DEF K
  <2> QED
    BY <2>2, <2>4, <2>5, OutlineAt DEF Kinds
<1> QED
  BY <1>1, <1>2 DEF Remaining

LEMMA StartSessionsStep ==
    ASSUME SourceInv, StartSessions, UNCHANGED <<config, requested, inside, gone, calls>>
    PROVE  SourceInv'
<1>1. Step(T("start")) /\ Before(T("start"))
  BY ThisStep, StepTypes DEF StartSessions, SourceInv
<1>2. AtStart
  BY <1>1 DEF Before
<1>3. sink' = sink \/ sink' = "running"
  BY DEF StartSessions
<1>4. Entered' /\ BackendsWhole' /\ ClientWhole'
  <2>1. \A kind \in Kinds : ~Answering(kind)
    BY <1>1, NotAnswering DEF T
  <2> QED
    BY <1>3, <2>1, NothingTouched DEF SourceInv, StartSessions
<1>5. CASE active
  <2>1. todo' = <<>> /\ sink' = sink
    BY <1>2, <1>5 DEF StartSessions, AtStart, Proceed
  <2>2. (Between' => Outline') /\ todo' \in Seq(StepSet)
    BY <2>1, NoStepLeft
  <2>3. Settled' /\ active'
    BY <1>2, <1>5, <2>1 DEF AtStart, StartSessions, Settled, InPlace, Configured, WorkerKept, AllStarted, Starts, StartedProxy
  <2>4. Between'
    BY <1>2, <2>3 DEF AtStart, Between
  <2>5. Types'
    BY <1>3, <2>2 DEF SourceInv, Types, StartSessions
  <2> QED
    BY <1>4, <2>2, <2>4, <2>5 DEF SourceInv
<1>6. CASE ~active
  <2>1. /\ sink' = "running" /\ todo' = StartOf("video") \o StartOf("audio") \o <<T("started")>> \o <<>>
        /\ UNCHANGED <<built, width, backend, client, active, error, faults>>
    BY <1>2, <1>6 DEF StartSessions, AtStart
  <2>2. Starting' /\ NothingStarted
    BY <1>2, <1>6, <2>1 DEF AtStart, Starting, Settled, Stopped, NothingStarted, InPlace, Configured, WorkerKept, Starts,
       StartedProxy
  <2>3. \A kind \in Kinds : backend[kind].object # None => ToStart(kind)'
    BY <2>1, <2>2 DEF ToStart, NothingStarted
  <2> DEFINE v == K("start", "video")
             a == K("start", "audio")
             d == T("started")
  <2>4. v \in StepSet /\ a \in StepSet /\ d \in StepSet
    BY StepTypes DEF Kinds
  <2>5. /\ backend["video"].object = None => StartOf("video") = <<>>
        /\ backend["video"].object # None => StartOf("video") = <<v>>
        /\ backend["audio"].object = None => StartOf("audio") = <<>>
        /\ backend["audio"].object # None => StartOf("audio") = <<a>>
    BY DEF StartOf
  <2> HIDE DEF v, a, d
  <2>6. /\ <<v>> \in Seq(StepSet) /\ <<a>> \in Seq(StepSet) /\ <<d>> \in Seq(StepSet) /\ <<>> \in Seq(StepSet)
        /\ <<a>> \o <<d>> = <<a, d>> /\ <<a, d>> \in Seq(StepSet)
    <3>1. <<a>> \o <<d>> = <<a, d>>
      BY <2>4, TwoSteps
    <3> QED
      BY <2>4, <3>1
  <2>7. CASE backend["video"].object # None
    <3>1. PICK t \in Seq(StepSet) :
            /\ todo' = <<v>> \o t
            /\ IF backend["audio"].object = None THEN t = <<d>> ELSE t = <<a, d>>
      <4>1. CASE backend["audio"].object # None
        <5>1. todo' = <<v>> \o <<a>> \o <<d>> \o <<>>
          BY <2>1, <2>5, <2>7, <4>1 DEF d
        <5>2. (<<v>> \o <<a>>) \o <<d>> = <<v>> \o <<a, d>> /\ <<v>> \o <<a, d>> \in Seq(StepSet)
          <6>1. (<<v>> \o <<a>>) \o <<d>> = <<v>> \o (<<a>> \o <<d>>)
            BY <2>6, ConcatAssociative
          <6>2. <<v>> \o <<a, d>> \in Seq(StepSet)
            BY <2>6, ConcatProperties
          <6> QED
            BY <2>6, <6>1, <6>2
        <5> QED
          BY <2>6, <4>1, <5>1, <5>2, ConcatEmptySeq
      <4>2. CASE backend["audio"].object = None
        <5>1. todo' = <<v>> \o <<>> \o <<d>> \o <<>>
          BY <2>1, <2>5, <2>7, <4>2 DEF d
        <5>2. <<v>> \o <<>> = <<v>> /\ <<v>> \o <<d>> \in Seq(StepSet)
          BY <2>6, ConcatProperties, ConcatEmptySeq
        <5> QED
          BY <2>6, <4>2, <5>1, <5>2, ConcatEmptySeq
      <4> QED
        BY <4>1, <4>2
    <3>2. Tail(todo') = t /\ (Before(v)' => Outline') /\ todo' \in Seq(StepSet)
      BY <2>4, <3>1, NextStep
    <3>3. AtStartOf("video")'
      <4>1. Remaining("video")'
        BY <2>1, <2>3, <3>1, <3>2 DEF Remaining, Kinds, a, d
      <4> QED
        BY <2>2, <2>3, <2>7, <4>1 DEF AtStartOf, Kinds
    <3>4. Types'
      BY <1>3, <2>1, <3>2 DEF SourceInv, Types
    <3> QED
      BY <1>4, <3>2, <3>3, <3>4, OutlineAt DEF SourceInv, Kinds, v
  <2>8. CASE backend["video"].object = None
    <3>1. CASE backend["audio"].object # None
      <4>1. todo' = <<>> \o <<a>> \o <<d>> \o <<>>
        BY <2>1, <2>5, <2>8, <3>1 DEF d
      <4>2. todo' = <<a>> \o <<d>>
        BY <2>6, <4>1, ConcatEmptySeq
      <4>3. Tail(todo') = <<d>> /\ (Before(a)' => Outline') /\ todo' \in Seq(StepSet)
        BY <2>4, <2>6, <4>2, NextStep
      <4>4. AtStartOf("audio")'
        BY <2>1, <2>2, <2>3, <2>8, <3>1, <4>3 DEF AtStartOf, Remaining, Kinds, d
      <4>5. Types'
        BY <1>3, <2>1, <4>3 DEF SourceInv, Types
      <4> QED
        BY <1>4, <4>3, <4>4, <4>5, OutlineAt DEF SourceInv, Kinds, a
    <3>2. CASE backend["audio"].object = None
      BY <1>2, <2>8, <3>2 DEF AtStart, InPlace, Configured, Kinds
    <3> QED
      BY <3>1, <3>2
  <2> QED
    BY <2>7, <2>8
<1> QED
  BY <1>5, <1>6

\* A start that fails before it touched the backend or the client.
LEMMA StartRefused ==
    ASSUME SourceInv, NEW kind \in Kinds, Step(K("start", kind)), Before(K("start", kind)), todo' = GiveUp,
           UNCHANGED <<built, width, sink, backend, client, active, error>>,
           UNCHANGED <<config, requested, inside, gone, calls>>
    PROVE  SourceInv'
<1>1. Starting
  BY DEF Before, AtStartOf
<1>2. Outline' /\ todo' \in Seq(StepSet)
  BY <1>1, GivingUp DEF Starting
<1>3. \A k \in Kinds : ~Answering(k)
  BY NotAnswering DEF K
<1>4. Entered' /\ BackendsWhole' /\ ClientWhole'
  BY <1>3, NothingTouched DEF SourceInv
<1>5. Types'
  BY <1>2 DEF SourceInv, Types
<1> QED
  BY <1>2, <1>4, <1>5 DEF SourceInv

\* A backend that starts while the sink runs is let in.
LEMMA AttachedWhole ==
    ASSUME SourceInv, NEW kind \in Kinds, sink = "running", sink' = sink, inside' = inside,
           backend' = [backend EXCEPT ![kind] = Attached(@)], backend[kind].object # None,
           \A k \in Kinds : Answering(k) => k = kind,
           client.live => client'.live
    PROVE  BackendsWhole' /\ Entered'
<1>1. /\ backend' \in [Kinds -> BackendSet]
      /\ backend'[kind].object = backend[kind].object
      /\ backend'[kind].started = TRUE
      /\ \A k \in Kinds : k # kind => backend'[k] = backend[k]
  BY BackendTypes, AttachedFacts DEF SourceInv
<1>2. BackendsWhole'
  <2>1. ASSUME NEW k \in Kinds
        PROVE  (backend'[k].object = None => backend'[k] = NoBackend) /\ (backend'[k].sink => backend'[k].started)
    BY <1>1 DEF SourceInv, BackendsWhole
  <2> QED
    BY <2>1 DEF BackendsWhole
<1>3. ASSUME NEW t \in inside PROVE MayEnter(t)'
  <2>1. MayEnter(t) /\ t \in Kinds \cup {"worker"}
    BY DEF SourceInv, Entered, Types
  <2>2. CASE t = "worker"
    BY <2>1, <2>2 DEF MayEnter
  <2>3. CASE t # "worker"
    BY <1>1, <2>1, <2>3 DEF MayEnter
  <2> QED
    BY <2>2, <2>3
<1> QED
  BY <1>2, <1>3 DEF Entered

LEMMA StartSocketStep ==
    ASSUME SourceInv, NEW kind \in Kinds, StartSocket(kind), UNCHANGED <<config, requested, inside, gone, calls>>
    PROVE  SourceInv'
<1>1. Step(K("start", kind)) /\ Before(K("start", kind)) /\ backend[kind].object = "Socket"
  BY ThisStep, StepTypes DEF StartSocket, SourceInv
<1>2. Starting /\ ToStart(kind) /\ Remaining(kind)
  BY <1>1 DEF Before, AtStartOf
<1>3. CASE Fault /\ todo' = GiveUp /\ UNCHANGED backend
  BY <1>1, <1>3, StartRefused DEF StartSocket
<1>4. CASE backend' = [backend EXCEPT ![kind] = Attached(@)] /\ Proceed
  <2>1. /\ backend' \in [Kinds -> BackendSet]
        /\ backend'[kind].object = backend[kind].object /\ backend'[kind].started = TRUE
        /\ \A k \in Kinds : k # kind => backend'[k] = backend[k]
    BY <1>4, BackendTypes, AttachedFacts DEF SourceInv
  <2>2. todo' = Tail(todo) /\ UNCHANGED <<built, width, sink, client, active, error>>
    BY <1>4 DEF StartSocket, Proceed
  <2>3. \A k \in Kinds : backend'[k].object = backend[k].object /\ StartedProxy(k)' = StartedProxy(k)
    BY <1>1, <2>1 DEF StartedProxy
  <2>4. Starts' = Starts
    BY <2>3 DEF Starts, Kinds
  <2>5. \A k \in Kinds : ~Answering(k)
    BY <1>1, NotAnswering DEF K
  <2>6. ClientWhole'
    BY <2>2, <2>3, <2>4, <2>5 DEF SourceInv, ClientWhole
  <2>7. BackendsWhole' /\ Entered'
    BY <1>1, <1>2, <1>4, <2>2, <2>5, AttachedWhole DEF Starting, None
  <2>8. InPlace'
    BY <1>2, <2>2, <2>3, StaysInPlace DEF Starting
  <2>9. Starting'
    BY <1>2, <2>2, <2>4, <2>8 DEF Starting, WorkerKept
  <2>10. backend'[kind].started /\ \A k \in Kinds : k # kind => backend'[k] = backend[k]
    BY <2>1
  <2>11. Outline' /\ todo' \in Seq(StepSet)
    BY <1>2, <2>2, <2>9, <2>10, NextStart
  <2>12. Types'
    BY <2>1, <2>2, <2>11 DEF SourceInv, Types, BackendSet
  <2> QED
    BY <2>6, <2>7, <2>11, <2>12 DEF SourceInv
<1> QED
  BY <1>3, <1>4 DEF StartSocket

LEMMA StartProxyFailsStep ==
    ASSUME SourceInv, NEW kind \in Kinds, StartProxyFails(kind), UNCHANGED <<config, requested, inside, gone, calls>>
    PROVE  SourceInv'
<1>1. Step(K("start", kind)) /\ Before(K("start", kind))
  BY ThisStep, StepTypes DEF StartProxyFails, SourceInv
<1> QED
  BY <1>1, StartRefused DEF StartProxyFails

LEMMA ClientUpdates ==
    ASSUME client \in ClientSet
    PROVE  /\ client.count < 2 =>
                LET c == [client EXCEPT !.sink = TRUE, !.count = @ + 1] IN
                /\ c \in ClientSet /\ c.count = client.count + 1 /\ c.exists = client.exists /\ c.held = client.held
                /\ c.running = client.running /\ c.live = client.live
           /\ LET c == [client EXCEPT !.sink = TRUE, !.live = TRUE] IN
                /\ c \in ClientSet /\ c.count = client.count /\ c.exists = client.exists /\ c.held = client.held
                /\ c.running = client.running /\ c.live = TRUE
           /\ LET c == [client EXCEPT !.running = TRUE, !.count = 1] IN
                /\ c \in ClientSet /\ c.count = 1 /\ c.exists = client.exists /\ c.held = client.held
                /\ c.running = TRUE /\ c.live = client.live /\ c.sink = client.sink
<1> DEFINE s == [client EXCEPT !.sink = TRUE]
           r == [client EXCEPT !.running = TRUE]
           sc == [client EXCEPT !.sink = TRUE, !.count = @ + 1]
           sl == [client EXCEPT !.sink = TRUE, !.live = TRUE]
           rc == [client EXCEPT !.running = TRUE, !.count = 1]
<1>1. /\ s \in ClientSet /\ s.count = client.count /\ s.exists = client.exists /\ s.held = client.held
      /\ s.running = client.running /\ s.live = client.live
  BY DEF ClientSet
<1>2. /\ r \in ClientSet /\ r.exists = client.exists /\ r.held = client.held
      /\ r.running = TRUE /\ r.live = client.live /\ r.sink = client.sink
  BY DEF ClientSet
<1>3. sc = [s EXCEPT !.count = @ + 1] /\ sl = [s EXCEPT !.live = TRUE] /\ rc = [r EXCEPT !.count = 1]
  OBVIOUS
<1> HIDE DEF s, r, sc, sl, rc
<1>4. client.count < 2 =>
        /\ sc \in ClientSet /\ sc.count = client.count + 1 /\ sc.exists = client.exists /\ sc.held = client.held
        /\ sc.running = client.running /\ sc.live = client.live
  BY <1>1, <1>3 DEF ClientSet
<1>5. /\ sl \in ClientSet /\ sl.count = client.count /\ sl.exists = client.exists /\ sl.held = client.held
      /\ sl.running = client.running /\ sl.live = TRUE
  BY <1>1, <1>3 DEF ClientSet
<1>6. /\ rc \in ClientSet /\ rc.count = 1 /\ rc.exists = client.exists /\ rc.held = client.held
      /\ rc.running = TRUE /\ rc.live = client.live /\ rc.sink = client.sink
  BY <1>2, <1>3 DEF ClientSet
<1> QED
  BY <1>4, <1>5, <1>6 DEF sc, sl, rc

LEMMA StartProxyStep ==
    ASSUME SourceInv, NEW kind \in Kinds, StartProxy(kind), UNCHANGED <<config, requested, inside, gone, calls>>
    PROVE  SourceInv'
<1>1. Step(K("start", kind)) /\ Before(K("start", kind)) /\ backend[kind].object = "Mtl"
  BY ThisStep, StepTypes DEF StartProxy, SourceInv
<1>2. Starting /\ ToStart(kind) /\ Remaining(kind)
  BY <1>1 DEF Before, AtStartOf
<1>3. \A k \in Kinds : ~Answering(k)
  BY <1>1, NotAnswering DEF K
<1>4. backend \in [Kinds -> BackendSet] /\ client \in ClientSet /\ client.exists
  BY <1>1, BackendTypes DEF SourceInv, ClientWhole
<1>5. ~StartedProxy(kind) /\ Starts < 2 /\ Starts \in Nat
  BY <1>2 DEF ToStart, StartedProxy, Starts, Kinds
<1>6. CASE client.running
  <2>1. /\ client' = [client EXCEPT !.sink = TRUE, !.count = @ + 1]
        /\ backend' = [backend EXCEPT ![kind] = Attached(@)]
        /\ todo' = Tail(todo) /\ UNCHANGED <<built, width, sink, active, error>>
    BY <1>6 DEF StartProxy, Proceed
  <2>2. client.live /\ client.count = Starts
    BY <1>6 DEF SourceInv, ClientWhole
  <2>3. /\ client' \in ClientSet /\ client'.count = client.count + 1
        /\ client'.exists = client.exists /\ client'.held = client.held
        /\ client'.running = client.running /\ client'.live = client.live
    BY <1>4, <1>5, <2>1, <2>2, ClientUpdates
  <2>4. /\ backend' \in [Kinds -> BackendSet]
        /\ backend'[kind].object = backend[kind].object /\ backend'[kind].started = TRUE
        /\ \A k \in Kinds : k # kind => backend'[k] = backend[k]
    BY <1>4, <2>1, AttachedFacts
  <2>5. StartedProxy(kind)' /\ \A k \in Kinds : k # kind => StartedProxy(k)' = StartedProxy(k)
    BY <1>1, <2>4 DEF StartedProxy
  <2>6. Starts' = Starts + 1
    BY <1>5, <2>5 DEF Starts, Kinds
  <2>7. \A k \in Kinds : backend'[k].object = backend[k].object
    BY <2>4
  <2>8. ClientWhole'
    <3>1. client'.exists = (client'.held \/ \E k \in Kinds : backend'[k].object = "Mtl")
      BY <2>3, <2>7 DEF SourceInv, ClientWhole
    <3>2. client'.running /\ client'.live /\ client'.count = Starts' /\ Starts' > 0 /\ client'.exists
      BY <1>4, <1>5, <1>6, <2>2, <2>3, <2>6
    <3> QED
      BY <3>1, <3>2 DEF ClientWhole
  <2>9. BackendsWhole' /\ Entered'
    BY <1>1, <1>2, <1>3, <2>1, <2>3, AttachedWhole DEF Starting, None
  <2>10. InPlace'
    BY <1>2, <2>1, <2>7, StaysInPlace DEF Starting
  <2>11. Starting'
    BY <1>2, <1>6, <2>1, <2>3, <2>10 DEF Starting, WorkerKept
  <2>12. backend'[kind].started /\ \A k \in Kinds : k # kind => backend'[k] = backend[k]
    BY <2>4
  <2>13. Outline' /\ todo' \in Seq(StepSet)
    BY <1>2, <2>1, <2>11, <2>12, NextStart
  <2>14. Types'
    BY <2>1, <2>3, <2>4, <2>13 DEF SourceInv, Types, BackendSet, ClientSet
  <2> QED
    BY <2>8, <2>9, <2>13, <2>14 DEF SourceInv
<1>7. CASE ~client.running
  <2>1. /\ client' = [client EXCEPT !.sink = TRUE, !.live = TRUE]
        /\ backend' = [backend EXCEPT ![kind].sink = TRUE]
        /\ todo' = <<K("answer", kind)>> \o Tail(todo) /\ UNCHANGED <<built, width, sink, active, error>>
    BY <1>7 DEF StartProxy
  <2>2. Starts = 0 /\ client.count = 0
    BY <1>2, <1>5, <1>7 DEF Starting, WorkerKept, SourceInv, ClientWhole
  <2>3. /\ client' \in ClientSet /\ client'.count = client.count
        /\ client'.exists = client.exists /\ client'.held = client.held
        /\ client'.running = client.running /\ client'.live = TRUE
    BY <1>4, <2>1, ClientUpdates
  <2>4. /\ backend' \in [Kinds -> BackendSet]
        /\ \A k \in Kinds : backend'[k].object = backend[k].object /\ backend'[k].started = backend[k].started
        /\ \A k \in Kinds : k # kind => backend'[k] = backend[k]
    BY <1>4, <2>1 DEF BackendSet
  <2>5. Starts' = 0
    BY <2>2, <2>4 DEF Starts, StartedProxy, Kinds
  <2>6. Tail(todo) \in Seq(StepSet)
    BY <1>1, HeadTailProperties DEF SourceInv, Types, Step, AtRest
  <2>7. /\ Tail(todo') = Tail(todo) /\ (Before(K("answer", kind))' => Outline') /\ todo' \in Seq(StepSet)
        /\ Answering(kind)'
    BY <2>1, <2>6, NextStep, StepTypes
  <2>8. ClientWhole'
    BY <1>4, <1>7, <2>2, <2>3, <2>4, <2>7 DEF SourceInv, ClientWhole
  <2>9. BackendsWhole'
    <3>1. ASSUME NEW k \in Kinds
          PROVE  /\ backend'[k].object = None => backend'[k] = NoBackend
                 /\ backend'[k].sink => backend'[k].started \/ Answering(k)'
      BY <1>1, <1>3, <2>4, <2>7 DEF SourceInv, BackendsWhole, None
    <3> QED
      BY <3>1 DEF BackendsWhole
  <2>10. Entered'
    <3>1. ASSUME NEW t \in inside PROVE MayEnter(t)'
      <4>1. MayEnter(t) /\ t \in Kinds \cup {"worker"}
        BY DEF SourceInv, Entered, Types
      <4> QED
        BY <2>3, <2>4, <4>1 DEF MayEnter
    <3> QED
      BY <1>2, <2>1, <3>1 DEF Entered, Starting
  <2>11. InPlace'
    BY <1>2, <2>1, <2>4, StaysInPlace DEF Starting
  <2>12. Starting'
    BY <1>2, <2>1, <2>5, <2>11 DEF Starting, WorkerKept
  <2>13. ToStart(kind)' /\ (ToStart("audio") => ToStart("audio")')
    BY <1>2, <2>4 DEF ToStart, Kinds
  <2>14. Remaining(kind)'
    BY <1>2, <2>4, <2>7, <2>13 DEF Remaining, Kinds
  <2>15. AtAnswer(kind)'
    BY <1>1, <1>7, <2>3, <2>4, <2>5, <2>12, <2>13, <2>14 DEF AtAnswer
  <2>16. Types'
    BY <2>1, <2>3, <2>4, <2>7 DEF SourceInv, Types, BackendSet, ClientSet
  <2> QED
    BY <2>7, <2>8, <2>9, <2>10, <2>15, <2>16, OutlineAt DEF SourceInv
<1> QED
  BY <1>6, <1>7

LEMMA StartAnsweredStep ==
    ASSUME SourceInv, NEW kind \in Kinds, StartAnswered(kind), UNCHANGED <<config, requested, inside, gone, calls>>
    PROVE  SourceInv'
<1>1. Step(K("answer", kind)) /\ Before(K("answer", kind))
  BY ThisStep, StepTypes DEF StartAnswered, SourceInv
<1>2. AtAnswer(kind)
  BY <1>1 DEF Before
<1>3. \A k \in Kinds : Answering(k) => k = kind
  BY <1>1 DEF Answering, Step, K
<1>4. backend \in [Kinds -> BackendSet] /\ client \in ClientSet /\ client.exists
  BY <1>2, BackendTypes DEF SourceInv, ClientWhole, AtAnswer
<1>5. \A k \in Kinds : ~StartedProxy(k)
  BY <1>2 DEF AtAnswer, Starts, Kinds
<1>6. CASE /\ client' = [client EXCEPT !.running = TRUE, !.count = 1]
           /\ backend' = [backend EXCEPT ![kind] = Attached(@)]
           /\ Proceed
  <2>1. todo' = Tail(todo) /\ UNCHANGED <<built, width, sink, active, error>>
    BY <1>6 DEF StartAnswered, Proceed
  <2>2. /\ client' \in ClientSet /\ client'.count = 1 /\ client'.exists = client.exists /\ client'.held = client.held
        /\ client'.running = TRUE /\ client'.live = client.live
    BY <1>4, <1>6, ClientUpdates
  <2>3. /\ backend' \in [Kinds -> BackendSet]
        /\ backend'[kind].object = backend[kind].object /\ backend'[kind].started = TRUE
        /\ \A k \in Kinds : k # kind => backend'[k] = backend[k]
    BY <1>4, <1>6, AttachedFacts
  <2>4. StartedProxy(kind)' /\ \A k \in Kinds : k # kind => ~StartedProxy(k)'
    BY <1>2, <1>5, <2>3 DEF StartedProxy, AtAnswer
  <2>5. Starts' = 1
    BY <2>4 DEF Starts, Kinds
  <2>6. \A k \in Kinds : backend'[k].object = backend[k].object
    BY <2>3
  <2>7. ClientWhole'
    <3>1. client'.exists = (client'.held \/ \E k \in Kinds : backend'[k].object = "Mtl")
      BY <2>2, <2>6 DEF SourceInv, ClientWhole
    <3>2. client'.running /\ client'.live /\ client'.count = Starts' /\ Starts' > 0 /\ client'.exists
      BY <1>2, <1>4, <2>2, <2>5 DEF AtAnswer
    <3> QED
      BY <3>1, <3>2 DEF ClientWhole
  <2>8. BackendsWhole' /\ Entered'
    BY <1>2, <1>3, <1>6, <2>1, <2>2, AttachedWhole DEF AtAnswer, Starting, None
  <2>9. InPlace'
    BY <1>2, <2>1, <2>6, StaysInPlace DEF AtAnswer, Starting
  <2>10. Starting'
    BY <1>2, <2>1, <2>2, <2>9 DEF AtAnswer, Starting, WorkerKept
  <2>11. backend'[kind].started /\ \A k \in Kinds : k # kind => backend'[k] = backend[k]
    BY <2>3
  <2>12. Outline' /\ todo' \in Seq(StepSet)
    BY <1>2, <2>1, <2>10, <2>11, NextStart DEF AtAnswer
  <2>13. Types'
    BY <2>1, <2>2, <2>3, <2>12 DEF SourceInv, Types, BackendSet, ClientSet
  <2> QED
    BY <2>7, <2>8, <2>12, <2>13 DEF SourceInv
<1>7. CASE /\ HandlerIdle
           /\ client' = [ClientCleared EXCEPT !.sink = FALSE]
           /\ backend' = [backend EXCEPT ![kind] = Detached(@)]
           /\ todo' = GiveUp
  <2>1. UNCHANGED <<built, width, sink, active, error>>
    BY DEF StartAnswered
  <2>2. /\ client' \in ClientSet /\ client'.exists = client.exists /\ client'.held = client.held
        /\ client'.running = FALSE /\ client'.count = 0 /\ client'.live = FALSE /\ client'.sink = FALSE
    BY <1>4, <1>7, ClearedFacts
  <2>3. /\ backend' \in [Kinds -> BackendSet]
        /\ backend'[kind].object = backend[kind].object
        /\ backend'[kind].started = FALSE /\ backend'[kind].sink = FALSE
        /\ \A k \in Kinds : k # kind => backend'[k] = backend[k]
    BY <1>4, <1>7, DetachedFacts
  <2>4. \A k \in Kinds : backend'[k].object = backend[k].object
    BY <2>3
  <2>5. Outline' /\ todo' \in Seq(StepSet)
    BY <1>2, <1>7, <2>1, GivingUp DEF AtAnswer, Starting
  <2>6. ClientWhole'
    <3>1. client'.exists = (client'.held \/ \E k \in Kinds : backend'[k].object = "Mtl")
      BY <2>2, <2>4 DEF SourceInv, ClientWhole
    <3> QED
      BY <1>4, <2>2, <3>1 DEF ClientWhole
  <2>7. BackendsWhole'
    <3>1. ASSUME NEW k \in Kinds
          PROVE  (backend'[k].object = None => backend'[k] = NoBackend) /\ (backend'[k].sink => backend'[k].started)
      BY <1>2, <1>3, <2>3 DEF SourceInv, BackendsWhole, AtAnswer, None
    <3> QED
      BY <3>1 DEF BackendsWhole
  <2>8. Entered'
    <3>1. ASSUME NEW t \in inside PROVE MayEnter(t)'
      <4>1. MayEnter(t) /\ t \in Kinds \cup {"worker"} /\ t # "worker"
        BY <1>7 DEF SourceInv, Entered, Types, HandlerIdle
      <4>2. t # kind
        BY <1>2, <4>1 DEF MayEnter, AtAnswer
      <4> QED
        BY <2>3, <4>1, <4>2 DEF MayEnter
    <3> QED
      BY <1>2, <2>1, <3>1 DEF Entered, AtAnswer, Starting
  <2>9. Types'
    BY <2>1, <2>2, <2>3, <2>5 DEF SourceInv, Types, BackendSet, ClientSet
  <2> QED
    BY <2>5, <2>6, <2>7, <2>8, <2>9 DEF SourceInv
<1> QED
  BY <1>6, <1>7 DEF StartAnswered

\* A buildable configuration has a stream of a kind the source knows.
LEMMA BuildableHasStreams ==
    ASSUME NEW c \in Buildable
    PROVE  \E kind \in Kinds : kind \in MediaKinds(c)
<1> DEFINE objects == ObjectsOf[c.selected]
           media == MediaOf[c.selected]
<1>1. c.selected \in DOMAIN Offers /\ objects # <<>> /\ media # Refused
  BY DEF Buildable, Configs, HasProviderSelectedSdp
<1>2. media = MediaSet(objects)
  BY <1>1 DEF MediaOf
<1>3. MediaKinds(c) = DOMAIN media
  BY <1>1 DEF MediaKinds, Boots, BootsOf
<1>4. /\ \A i \in DOMAIN objects : MediaKind(objects[i]) \in Kinds
      /\ DOMAIN media = {MediaKind(objects[i]) : i \in DOMAIN objects}
      /\ media = [kind \in DOMAIN media |-> media[kind]]
  BY <1>1, <1>2 DEF MediaSet
<1>5. DOMAIN media # {}
  BY <1>1, <1>4 DEF Refused
<1> QED
  BY <1>3, <1>4, <1>5

LEMMA BuildStep ==
    ASSUME SourceInv, Build, UNCHANGED <<config, requested, inside, gone, calls>>
    PROVE  SourceInv'
<1>1. Step(T("configure")) /\ Before(T("configure")) /\ ~Configured
  BY ThisStep, StepTypes DEF Build, SourceInv
<1>2. Tail(todo) = <<T("start")>> /\ requested /\ ~gone /\ Settled /\ Clean
  BY <1>1 DEF Before, AtConfigure, Settled, InPlace
<1>3. \A k \in Kinds : ~Answering(k)
  BY <1>1, NotAnswering DEF T
<1>4. config \in Buildable /\ config \in Configs /\ config.backend \in {"Socket", "Mtl"}
  BY DEF Build, Buildable, Configs
<1>5. /\ \A g \in built' : g.config = config
      /\ sink' = "stopped" /\ active' = FALSE /\ error' = "empty"
      /\ todo' = Tail(todo)
  BY DEF Build, Proceed
<1>6. \A k \in Kinds : backend'[k] = IF k \in MediaKinds(config) THEN [NoBackend EXCEPT !.object = config.backend]
                                                               ELSE NoBackend
  BY DEF Build
<1> DEFINE new == [NoBackend EXCEPT !.object = config.backend]
<1>7. /\ new \in BackendSet /\ new.object = config.backend /\ new.started = FALSE /\ new.sink = FALSE
      /\ new.object # None
  BY <1>4 DEF NoBackend, BackendSet, None
<1> HIDE DEF new
<1>8. \A k \in Kinds : backend'[k] = IF k \in MediaKinds(config) THEN new ELSE NoBackend
  BY <1>6 DEF new
<1>9. backend' \in [Kinds -> BackendSet]
  <2>1. backend' = [k \in Kinds |-> IF k \in MediaKinds(config) THEN new ELSE NoBackend]
    BY DEF Build, new
  <2> QED
    BY <1>7, <2>1, NothingThere
<1>10. \A k \in Kinds : ~backend'[k].started /\ ~backend'[k].sink /\ (backend'[k].object = None => backend'[k] = NoBackend)
  BY <1>7, <1>8, NothingThere
<1>11. PICK kind \in Kinds : backend'[kind].object = config.backend
  BY <1>4, <1>7, <1>8, BuildableHasStreams
<1> DEFINE held == [NoClient EXCEPT !.exists = TRUE, !.held = TRUE]
<1>12. /\ held \in ClientSet /\ held.exists = TRUE /\ held.held = TRUE /\ held.running = FALSE
       /\ held.count = 0 /\ held.sink = FALSE /\ held.live = FALSE
  <2> DEFINE there == [NoClient EXCEPT !.exists = TRUE]
  <2>1. /\ there \in ClientSet /\ there.exists = TRUE /\ there.running = FALSE
        /\ there.count = 0 /\ there.sink = FALSE /\ there.live = FALSE
    BY NothingThere DEF ClientSet
  <2>2. held = [there EXCEPT !.held = TRUE]
    BY DEF held
  <2> HIDE DEF there, held
  <2> QED
    BY <2>1, <2>2 DEF ClientSet
<1>13. client' = IF config.backend = "Mtl" THEN held ELSE NoClient
  BY DEF Build, held
<1> HIDE DEF held
<1>14. client' \in ClientSet /\ ~client'.running /\ ~client'.live /\ client'.count = 0 /\ ~client'.sink
  BY <1>12, <1>13, NothingThere
<1>15. ClientWhole'
  <2>1. CASE config.backend = "Mtl"
    <3>1. client'.exists /\ client'.held
      BY <1>12, <1>13, <2>1
    <3> QED
      BY <1>11, <1>14, <2>1, <3>1 DEF ClientWhole
  <2>2. CASE config.backend # "Mtl"
    <3>1. client' = NoClient /\ \A k \in Kinds : backend'[k].object # "Mtl"
      BY <1>7, <1>8, <1>13, <2>2, NothingThere
    <3>2. client'.exists = (client'.held \/ \E k \in Kinds : backend'[k].object = "Mtl")
      BY <3>1, NothingThere
    <3> QED
      BY <1>14, <3>1, <3>2 DEF ClientWhole
  <2> QED
    BY <2>1, <2>2
<1>16. BackendsWhole'
  BY <1>10 DEF BackendsWhole
<1>17. Entered'
  <2>1. inside = {}
    <3>1. ASSUME NEW t \in Kinds \cup {"worker"} PROVE ~MayEnter(t)
      BY <1>2, NothingThere DEF MayEnter, Clean, NoBackends
    <3> QED
      BY <3>1 DEF SourceInv, Entered, Types
  <2>2. ASSUME NEW t \in Kinds \cup {"worker"} PROVE ~MayEnter(t)'
    BY <1>10, <1>14 DEF MayEnter
  <2> QED
    BY <2>1, <2>2 DEF Entered
<1>18. InPlace'
  <2>1. \A k \in Kinds : backend'[k].object # None <=> k \in MediaKinds(config')
    BY <1>7, <1>8, NothingThere
  <2>2. Configured'
    BY <1>4, <1>5, <1>11 DEF Configured, None
  <2> QED
    BY <1>5, <2>1, <2>2 DEF InPlace
<1>19. Settled'
  <2>1. Starts' = 0
    BY <1>10 DEF Starts, StartedProxy, Kinds
  <2> QED
    BY <1>5, <1>10, <1>18, <2>1 DEF Settled, WorkerKept, Stopped, NothingStarted
<1>20. todo' = <<T("start")>> \o <<>>
  BY <1>2, <1>5, StepTypes
<1>21. Tail(todo') = <<>> /\ (Before(T("start"))' => Outline') /\ todo' \in Seq(StepSet)
  BY <1>20, NextStep, RestTypes, StepTypes
<1>22. AtStart'
  BY <1>2, <1>18, <1>19, <1>21 DEF AtStart
<1>23. Types'
  BY <1>5, <1>9, <1>14, <1>21 DEF SourceInv, Types, BackendSet, ClientSet
<1> QED
  BY <1>15, <1>16, <1>17, <1>21, <1>22, <1>23, OutlineAt DEF SourceInv

-----------------------------------------------------------------------------
\* The calls and the receive threads.

\* A call finds the source settled.
LEMMA CallFinds ==
    ASSUME SourceInv, AtRest
    PROVE  Between /\ \A k \in Kinds : ~Answering(k)
BY DEF SourceInv, Outline, Answering, Step

\* Tearing the graph down, and what the call does then.
LEMMA DestroyBegins ==
    ASSUME NEW after \in Afters, todo' = DestroyGraph \o after, After(after)', (active \/ client.running \/ Stopped)'
    PROVE  Outline' /\ todo' \in Seq(StepSet)
<1>1. after \in Seq(StepSet)
  BY AftersAreLists
<1>2. todo' = <<T("stopActive")>> \o ThenVideo(after)
  BY <1>1, DestroyUnrolls
<1>3. Tail(todo') = ThenVideo(after) /\ (Before(T("stopActive"))' => Outline') /\ todo' \in Seq(StepSet)
  BY <1>1, <1>2, NextStep, RestTypes, StepTypes
<1>4. AtStopActive'
  BY <1>3 DEF AtStopActive
<1> QED
  BY <1>3, <1>4, OutlineAt

\* Starting the graph.
LEMMA StartBegins ==
    ASSUME todo' = StartGraph, AtConfigure' \/ (requested' /\ ~gone' /\ Settled')
    PROVE  Outline' /\ todo' \in Seq(StepSet)
<1>1. todo' = <<T("configure")>> \o <<T("start")>> /\ <<T("start")>> \in Seq(StepSet)
  BY StepTypes, TwoSteps DEF StartGraph
<1>2. Tail(todo') = <<T("start")>> /\ (Before(T("configure"))' => Outline') /\ todo' \in Seq(StepSet)
  BY <1>1, NextStep, StepTypes
<1>3. AtConfigure'
  BY <1>2 DEF AtConfigure
<1> QED
  BY <1>2, <1>3, OutlineAt

\* A call that has only chosen its steps.
LEMMA SettledStays ==
    ASSUME Settled, config' = config, UNCHANGED graph
    PROVE  Settled'
BY DEF Settled, InPlace, Clean, NoBackends, Configured, WorkerKept, AllStarted, Starts, StartedProxy, Stopped, NothingStarted, graph

LEMMA UpdateStep ==
    ASSUME SourceInv, NEW c \in Configs, Update(c), UNCHANGED inside
    PROVE  SourceInv'
<1>1. AtRest /\ ~gone /\ config' = c /\ UNCHANGED <<requested, graph, error, gone, faults>>
  BY DEF Update, Call
<1>2. Between /\ \A k \in Kinds : ~Answering(k)
  BY <1>1, CallFinds
<1>3. Entered' /\ BackendsWhole' /\ ClientWhole'
  BY <1>1, <1>2, NothingTouched DEF SourceInv, graph
<1>4. CASE GraphRelevantChanged(c)
  <2>1. PICK after \in Afters : todo' = DestroyGraph \o after /\ After(after)'
    <3>1. CASE requested
      BY <1>1, <1>4, <3>1 DEF Update, Afters, After
    <3>2. CASE ~requested
      BY <1>1, <1>4, <3>2 DEF Update, Afters, After
    <3> QED
      BY <3>1, <3>2
  <2>3. (active \/ client.running \/ Stopped)'
    BY <1>1, <1>2 DEF graph, Between, Settled, Stopped, NothingStarted
  <2>4. Outline' /\ todo' \in Seq(StepSet)
    BY <2>1, <2>3, DestroyBegins
  <2>5. Types'
    BY <1>1, <2>4 DEF SourceInv, Types, graph
  <2> QED
    BY <1>3, <2>4, <2>5 DEF SourceInv
<1>5. CASE ~GraphRelevantChanged(c)
  <2>1. config' = config
    BY <1>1, <1>5 DEF GraphRelevantChanged
  <2>2. Settled'
    BY <1>1, <1>2, <2>1, SettledStays DEF Between
  <2>3. CASE requested /\ ~Configured
    <3>1. todo' = StartGraph
      BY <1>5, <2>3 DEF Update
    <3>2. Outline' /\ todo' \in Seq(StepSet)
      BY <1>1, <2>2, <2>3, <3>1, StartBegins
    <3>3. Types'
      BY <1>1, <3>2 DEF SourceInv, Types, graph
    <3> QED
      BY <1>3, <3>2, <3>3 DEF SourceInv
  <2>4. CASE ~(requested /\ ~Configured)
    <3>1. todo' = <<>>
      BY <1>5, <2>4 DEF Update
    <3>2. (Between' => Outline') /\ todo' \in Seq(StepSet)
      BY <3>1, NoStepLeft
    <3>3. Between'
      BY <1>1, <1>2, <2>2 DEF Between, Clean, NoBackends, graph
    <3>4. Types'
      BY <1>1, <3>2 DEF SourceInv, Types, graph
    <3> QED
      BY <1>3, <3>2, <3>3, <3>4 DEF SourceInv
  <2> QED
    BY <2>3, <2>4
<1> QED
  BY <1>4, <1>5

LEMMA StartReceiveStep ==
    ASSUME SourceInv, StartReceive, UNCHANGED inside
    PROVE  SourceInv'
<1>1. AtRest /\ ~gone /\ requested' /\ todo' = StartGraph /\ UNCHANGED <<config, graph, error, gone, faults>>
  BY DEF StartReceive, Call
<1>2. Between /\ \A k \in Kinds : ~Answering(k)
  BY <1>1, CallFinds
<1>3. Entered' /\ BackendsWhole' /\ ClientWhole'
  BY <1>1, <1>2, NothingTouched DEF SourceInv, graph
<1>4. Settled'
  BY <1>1, <1>2, SettledStays DEF Between
<1>5. Outline' /\ todo' \in Seq(StepSet)
  BY <1>1, <1>4, StartBegins
<1>6. Types'
  BY <1>1, <1>5 DEF SourceInv, Types, graph, StartReceive
<1> QED
  BY <1>3, <1>5, <1>6 DEF SourceInv

LEMMA StopReceiveStep ==
    ASSUME SourceInv, StopReceive, UNCHANGED inside
    PROVE  SourceInv'
<1>1. /\ AtRest /\ ~gone /\ requested' = FALSE /\ todo' = <<T("stopActive")>>
      /\ UNCHANGED <<config, graph, error, gone, faults>>
  BY DEF StopReceive, Call
<1>2. Between /\ \A k \in Kinds : ~Answering(k)
  BY <1>1, CallFinds
<1>3. Entered' /\ BackendsWhole' /\ ClientWhole'
  BY <1>1, <1>2, NothingTouched DEF SourceInv, graph
<1>4. Settled'
  BY <1>1, <1>2, SettledStays DEF Between
<1>5. todo' = <<T("stopActive")>> \o <<>>
  BY <1>1, StepTypes
<1>6. Tail(todo') = <<>> /\ (Before(T("stopActive"))' => Outline') /\ todo' \in Seq(StepSet)
  BY <1>5, NextStep, RestTypes, StepTypes
<1>7. AtStopActive'
  BY <1>1, <1>4, <1>6 DEF AtStopActive
<1>8. Types'
  BY <1>1, <1>6 DEF SourceInv, Types, graph
<1> QED
  BY <1>3, <1>6, <1>7, <1>8, OutlineAt DEF SourceInv

LEMMA DeleteStep ==
    ASSUME SourceInv, Delete, UNCHANGED inside
    PROVE  SourceInv'
<1>1. /\ AtRest /\ gone' = TRUE /\ todo' = DestroyGraph
      /\ UNCHANGED <<config, requested, graph, error, calls, faults>>
  BY DEF Delete
<1>2. Between /\ \A k \in Kinds : ~Answering(k)
  BY <1>1, CallFinds
<1>3. Entered' /\ BackendsWhole' /\ ClientWhole'
  BY <1>1, <1>2, NothingTouched DEF SourceInv, graph
<1>4. todo' = DestroyGraph \o <<>>
  BY <1>1, StepTypes DEF DestroyGraph, Kinds
<1>5. (active \/ client.running \/ Stopped)'
  BY <1>1, <1>2 DEF graph, Between, Settled, Stopped, NothingStarted
<1>6. <<>> \in Afters /\ After(<<>>)'
  BY <1>1 DEF Afters, After
<1>7. Outline' /\ todo' \in Seq(StepSet)
  BY <1>4, <1>5, <1>6, DestroyBegins
<1>8. Types'
  BY <1>1, <1>7 DEF SourceInv, Types, graph
<1> QED
  BY <1>3, <1>7, <1>8 DEF SourceInv

LEMMA StatsFailStep ==
    ASSUME SourceInv, StatsFail, UNCHANGED inside
    PROVE  SourceInv'
<1>1. /\ AtRest /\ ~gone /\ client.exists /\ client.running /\ HandlerIdle
      /\ client' = ClientCleared /\ error' = "failed" /\ todo' = DestroyGraph
      /\ UNCHANGED <<config, requested, built, width, sink, backend, active, gone, inside>>
  BY DEF StatsFail, Call, AfterStatsFailed
<1>2. Between /\ \A k \in Kinds : ~Answering(k)
  BY <1>1, CallFinds
<1>3. client \in ClientSet
  BY BackendTypes DEF SourceInv
<1>4. /\ client' \in ClientSet /\ client'.exists = client.exists /\ client'.held = client.held
      /\ client'.running = FALSE /\ client'.count = 0 /\ client'.live = FALSE
  BY <1>1, <1>3, ClearedFacts
<1>5. Starts > 0 /\ Starts' = Starts
  BY <1>1 DEF SourceInv, ClientWhole, Starts, StartedProxy
<1>6. active /\ requested
  <2>1. ~Stopped
    <3>1. PICK k \in Kinds : backend[k].started
      BY <1>5 DEF Starts, StartedProxy, Kinds
    <3> QED
      BY <3>1 DEF Stopped, NothingStarted
  <2> QED
    BY <1>2, <2>1 DEF Between, Settled
<1>7. todo' = DestroyGraph \o <<>>
  BY <1>1, StepTypes DEF DestroyGraph, Kinds
<1>8. <<>> \in Afters /\ After(<<>>)'
  BY <1>1, <1>6 DEF Afters, After
<1>9. Outline' /\ todo' \in Seq(StepSet)
  BY <1>1, <1>6, <1>7, <1>8, DestroyBegins
<1>10. ClientWhole'
  <2>1. client'.exists = (client'.held \/ \E k \in Kinds : backend'[k].object = "Mtl")
    BY <1>1, <1>4 DEF SourceInv, ClientWhole
  <2> QED
    BY <1>1, <1>4, <1>5, <2>1 DEF ClientWhole
<1>11. BackendsWhole'
  BY <1>1, <1>2 DEF SourceInv, BackendsWhole
<1>12. Entered'
  <2>1. ASSUME NEW t \in inside PROVE MayEnter(t)'
    <3>1. MayEnter(t) /\ t # "worker"
      BY <1>1 DEF SourceInv, Entered, HandlerIdle
    <3> QED
      BY <1>1, <3>1 DEF MayEnter
  <2>2. ASSUME NEW t \in Kinds \cup {"worker"}, MayEnter(t)' PROVE MayEnter(t)
    BY <1>1, <1>4, <2>2 DEF MayEnter
  <2> QED
    BY <1>1, <2>1, <2>2 DEF SourceInv, Entered
<1>13. Types'
  BY <1>1, <1>4, <1>9 DEF SourceInv, Types, ClientSet
<1> QED
  BY <1>9, <1>10, <1>11, <1>12, <1>13 DEF SourceInv

\* The outline speaks of nothing else.
LEMMA OutlineStays ==
    ASSUME Outline, UNCHANGED <<config, requested, graph, error, todo, gone>>
    PROVE  Outline'
<1>1. UNCHANGED <<config, requested, built, width, sink, backend, client, active, error, todo, gone>>
  BY DEF graph
<1>2. /\ Starts' = Starts /\ InPlace' = InPlace /\ Clean' = Clean /\ Stopped' = Stopped
      /\ NoBackends' = NoBackends /\ NothingStarted' = NothingStarted /\ AllStarted' = AllStarted
  BY <1>1 DEF AllStarted, Starts, StartedProxy, InPlace, Configured, Clean, NoBackends, Stopped, NothingStarted
<1>3. WorkerKept' = WorkerKept /\ Settled' = Settled /\ Starting' = Starting
  BY <1>1, <1>2 DEF WorkerKept, Settled, Starting
<1>4. \A after : After(after)' = After(after)
  BY <1>1 DEF After
<1>5. \A after : AfterStop(after)' = AfterStop(after)
  BY <1>1, <1>2, <1>4 DEF AfterStop
<1>6. \A kind \in Kinds : (ToStart(kind) => ToStart(kind)') /\ (Remaining(kind) => Remaining(kind)')
  BY <1>1 DEF ToStart, Remaining
<1>7. AtRest' = AtRest /\ \A step \in StepSet : Step(step)' = Step(step)
  BY <1>1 DEF AtRest, Step
<1>8. Between => Between'
  BY <1>1, <1>2, <1>3 DEF Between
<1>9. AtConfigure => AtConfigure'
  BY <1>1, <1>2, <1>3, <1>4, <1>5 DEF AtConfigure
<1>10. AtStart => AtStart'
  BY <1>1, <1>2, <1>3, <1>4, <1>5 DEF AtStart
<1>11. AtStarted => AtStarted'
  BY <1>1, <1>2, <1>3, <1>4, <1>5 DEF AtStarted
<1>12. AtStopActive => AtStopActive'
  BY <1>1, <1>2, <1>3, <1>4, <1>5 DEF AtStopActive
<1>13. AtStopVideo => AtStopVideo'
  BY <1>1, <1>2, <1>3, <1>4, <1>5 DEF AtStopVideo
<1>14. AtStopAudio => AtStopAudio'
  BY <1>1, <1>2, <1>3, <1>4, <1>5 DEF AtStopAudio
<1>15. AtStopSink => AtStopSink'
  BY <1>1, <1>2, <1>3, <1>4, <1>5 DEF AtStopSink
<1>16. AtStartFailed => AtStartFailed'
  BY <1>1, <1>2, <1>3, <1>4, <1>5 DEF AtStartFailed
<1>17. AtResetVideo => AtResetVideo'
  BY <1>1, <1>2, <1>3, <1>4, <1>5 DEF AtResetVideo
<1>18. AtResetAudio => AtResetAudio'
  BY <1>1, <1>2, <1>3, <1>4, <1>5 DEF AtResetAudio
<1>19. AtResetClient => AtResetClient'
  BY <1>1, <1>2, <1>3, <1>4, <1>5 DEF AtResetClient
<1>20. AtResetSink => AtResetSink'
  BY <1>1, <1>2, <1>3, <1>4, <1>5 DEF AtResetSink
<1>21. AtResetRest => AtResetRest'
  BY <1>1, <1>2, <1>3, <1>4, <1>5 DEF AtResetRest
<1>22. AtClearError => AtClearError'
  BY <1>1, <1>2, <1>3, <1>4, <1>5 DEF AtClearError
<1>23. ASSUME NEW kind \in Kinds PROVE (AtStartOf(kind) => AtStartOf(kind)') /\ (AtAnswer(kind) => AtAnswer(kind)')
  BY <1>1, <1>2, <1>3, <1>6 DEF AtStartOf, AtAnswer
<1>24. ASSUME NEW step \in StepSet, Before(step) PROVE Before(step)'
  BY <1>24, <1>9, <1>10, <1>11, <1>12, <1>13, <1>14, <1>15, <1>16, <1>17, <1>18, <1>19, <1>20, <1>21, <1>22, <1>23 DEF Before
<1> QED
  BY <1>7, <1>8, <1>24 DEF Outline

\* A receive thread enters or leaves; nothing else notices.
LEMMA ThreadEntersOrLeaves ==
    ASSUME SourceInv, NEW t \in Kinds \cup {"worker"}, ThreadStep(t),
           UNCHANGED <<config, requested, graph, error, todo, gone, calls, faults>>
    PROVE  SourceInv'
<1>1. UNCHANGED <<config, requested, built, width, sink, backend, client, active, error, todo, gone>>
  BY DEF graph
<1>2. Outline'
  BY OutlineStays DEF SourceInv
<1>3. BackendsWhole' /\ ClientWhole'
  BY <1>1 DEF SourceInv, BackendsWhole, ClientWhole, Answering, Step, AtRest, Starts, StartedProxy
<1>4. Entered' /\ Types'
  <2>1. \A u \in Kinds \cup {"worker"} : MayEnter(u)' = MayEnter(u)
    BY <1>1 DEF MayEnter
  <2>2. ASSUME NEW u \in inside' PROVE MayEnter(u) /\ u \in Kinds \cup {"worker"}
    BY DEF SourceInv, Entered, Types, ThreadStep, EnterSink, LeaveSink
  <2>3. Entered'
    BY <1>1, <2>1, <2>2 DEF SourceInv, Entered
  <2>4. Types'
    BY <1>1, <2>2 DEF SourceInv, Types
  <2> QED
    BY <2>3, <2>4
<1> QED
  BY <1>2, <1>3, <1>4 DEF SourceInv

LEMMA NothingHappens ==
    ASSUME SourceInv, UNCHANGED vars
    PROVE  SourceInv'
<1>1. UNCHANGED <<config, requested, built, width, sink, backend, client, active, error, todo, inside, gone>>
  BY DEF vars
<1>2. Outline'
  BY <1>1, OutlineStays DEF SourceInv, graph
<1>3. BackendsWhole' /\ ClientWhole'
  BY <1>1 DEF SourceInv, BackendsWhole, ClientWhole, Answering, Step, AtRest, Starts, StartedProxy
<1>4. Entered' /\ Types'
  BY <1>1 DEF SourceInv, Entered, MayEnter, Types
<1> QED
  BY <1>2, <1>3, <1>4 DEF SourceInv

-----------------------------------------------------------------------------
\* The source.

LEMMA InitSource == Init => SourceInv
<1> SUFFICES ASSUME Init PROVE SourceInv
  OBVIOUS
<1>1. \A kind \in Kinds : backend[kind] = NoBackend
  BY DEF Init
<1>2. Clean
  BY <1>1 DEF Init, Clean, NoBackends
<1>3. AtRest /\ \A kind \in Kinds : ~Answering(kind)
  BY DEF Init, AtRest, Answering, Step
<1>4. NothingStarted /\ Starts = 0
  BY <1>1, NothingThere DEF NothingStarted, Starts, StartedProxy, Kinds
<1>5. Types
  <2>1. backend \in [Kinds -> BackendSet] /\ client \in ClientSet
    BY NothingThere DEF Init
  <2> QED
    BY <2>1, RestTypes DEF Init, Types, BackendSet, ClientSet
<1>6. Entered
  BY <1>1, NothingThere DEF Init, Entered, MayEnter
<1>7. BackendsWhole
  BY <1>1, NothingThere DEF BackendsWhole
<1>8. ClientWhole
  <2>1. client = NoClient /\ \A kind \in Kinds : backend[kind].object # "Mtl"
    BY <1>1, NothingThere DEF Init
  <2>2. client.exists = (client.held \/ \E kind \in Kinds : backend[kind].object = "Mtl")
    BY <2>1, NothingThere
  <2> QED
    BY <2>1, <2>2, NothingThere DEF ClientWhole
<1>9. Between
  BY <1>2, <1>4 DEF Init, Between, Settled, WorkerKept, Stopped
<1>10. Outline
  BY <1>3, <1>9 DEF Outline, Step
<1> QED
  BY <1>5, <1>6, <1>7, <1>8, <1>10 DEF SourceInv

LEMMA SourceStep == SourceInv /\ [Next]_vars => SourceInv'
<1> SUFFICES ASSUME SourceInv, [Next]_vars PROVE SourceInv'
  OBVIOUS
<1>1. CASE UserStep /\ UNCHANGED <<config, requested, inside, gone, calls>>
  <2>1. CASE EnsureConfigured \/ Build \/ BuildFails
    BY <1>1, <2>1, EnsureStep, BuildStep, BuildFailsStep
  <2>2. CASE StartSessions \/ Started \/ StartFailed
    BY <1>1, <2>2, StartSessionsStep, StartedStep, StartFailedStep
  <2>3. ASSUME NEW kind \in Kinds, StartSocket(kind) \/ StartProxy(kind) \/ StartProxyFails(kind)
        PROVE  SourceInv'
    BY <1>1, <2>3, StartSocketStep, StartProxyStep, StartProxyFailsStep
  <2>4. ASSUME NEW kind \in Kinds, StartAnswered(kind) \/ StopBackend(kind) \/ ResetBackend(kind)
        PROVE  SourceInv'
    BY <1>1, <2>4, StartAnsweredStep, StopBackendStep, ResetBackendStep
  <2>5. CASE StopSink \/ StopActive \/ ClearError
    BY <1>1, <2>5, StopSinkStep, StopActiveStep, ClearErrorStep
  <2>6. CASE ResetClient \/ ResetSink \/ ResetRest
    BY <1>1, <2>6, ResetClientStep, ResetSinkStep, ResetRestStep
  <2> QED
    BY <1>1, <2>1, <2>2, <2>3, <2>4, <2>5, <2>6 DEF UserStep
<1>2. CASE UserCall /\ UNCHANGED inside
  BY <1>2, UpdateStep, StartReceiveStep, StopReceiveStep, StatsFailStep, DeleteStep DEF UserCall
<1>3. ASSUME NEW t \in Kinds \cup {"worker"}, ThreadStep(t),
             UNCHANGED <<config, requested, graph, error, todo, gone, calls, faults>>
      PROVE  SourceInv'
  BY <1>3, ThreadEntersOrLeaves
<1>4. CASE UNCHANGED vars
  BY <1>4, NothingHappens
<1> QED
  BY <1>1, <1>2, <1>3, <1>4 DEF Next

\* Whatever the user and OBS call, in any order, and whichever starts and
\* queries fail: the steps of a call find what the outline says.
THEOREM SourceCorrect == Spec => []SourceInv
BY InitSource, SourceStep, PTL DEF Spec

\* A receive thread inside on_video_frame or on_audio_frame is inside a sink
\* that exists and runs.
THEOREM CallbacksAreSafe == Spec => []CallbacksFindTheSink
<1>1. SourceInv => CallbacksFindTheSink
  BY DEF SourceInv, Types, Entered, CallbacksFindTheSink
<1> QED
  BY <1>1, SourceCorrect, PTL

\* The number of a set of kinds of stream.
LEMMA KindsCounted ==
    ASSUME NEW S \in SUBSET Kinds
    PROVE  Cardinality(S) = (IF "video" \in S THEN 1 ELSE 0) + (IF "audio" \in S THEN 1 ELSE 0)
<1>1. CASE "video" \in S /\ "audio" \in S
  <2>1. S = {"video"} \cup {"audio"}
    BY <1>1 DEF Kinds
  <2>2. IsFiniteSet({"video"}) /\ Cardinality({"video"}) = 1
    BY FS_Singleton
  <2>3. Cardinality({"video"} \cup {"audio"}) = 2
    BY <2>2, FS_AddElement
  <2> QED
    BY <1>1, <2>1, <2>3
<1>2. CASE "video" \in S /\ "audio" \notin S
  <2>1. S = {"video"}
    BY <1>2 DEF Kinds
  <2>2. Cardinality(S) = 1
    BY <2>1, FS_Singleton
  <2> QED
    BY <1>2, <2>2
<1>3. CASE "video" \notin S /\ "audio" \in S
  <2>1. S = {"audio"}
    BY <1>3 DEF Kinds
  <2>2. Cardinality(S) = 1
    BY <2>1, FS_Singleton
  <2> QED
    BY <1>3, <2>2
<1>4. CASE "video" \notin S /\ "audio" \notin S
  <2>1. S = {}
    BY <1>4 DEF Kinds
  <2> QED
    BY <1>4, <2>1, FS_EmptySet
<1> QED
  BY <1>1, <1>2, <1>3, <1>4

\* The state has its type, and between calls the client's active_start_count
\* is the number of proxies that are started, and no proxy is started on a
\* client that has lost its worker.
THEOREM StartsAreRight == Spec => []StartsAreCounted
<1>1. SourceInv => StartsAreCounted
  <2> SUFFICES ASSUME SourceInv PROVE StartsAreCounted
    OBVIOUS
  <2> DEFINE started == {kind \in Kinds : backend[kind].object = "Mtl" /\ backend[kind].started}
  <2>1. TypeOK
    BY DEF SourceInv, Types, TypeOK, ClientWhole
  <2>2. started \in SUBSET Kinds /\ \A kind \in Kinds : kind \in started <=> StartedProxy(kind)
    BY DEF StartedProxy
  <2>3. (Starts > 0) <=> started # {}
    BY <2>2 DEF Starts, Kinds
  <2> HIDE DEF started
  <2>4. Cardinality(started) = Starts
    BY <2>2, KindsCounted DEF Starts, Kinds
  <2>5. Starts \in 0 .. 2
    BY DEF Starts
  <2>6. ASSUME AtRest PROVE client.count = Cardinality(started) /\ (client.running <=> started # {})
    <3>1. WorkerKept
      BY <2>6 DEF SourceInv, Outline, Between, Settled
    <3>2. client.running <=> Starts > 0
      BY <3>1 DEF SourceInv, ClientWhole, WorkerKept
    <3>3. client.count = Starts
      BY <2>5, <3>2 DEF SourceInv, ClientWhole
    <3> QED
      BY <2>3, <2>4, <3>2, <3>3
  <2> QED
    BY <2>1, <2>6 DEF StartsAreCounted, started
<1> QED
  BY <1>1, SourceCorrect, PTL

\* Between calls what the source reports of itself is true: stopped means that
\* nothing receives, and asked for but not receiving means that an error shows.
THEOREM StatusIsRight == Spec => []StatusIsTrue
<1>1. SourceInv => StatusIsTrue
  <2> SUFFICES ASSUME SourceInv, AtRest PROVE StoppedMeansQuiet /\ DownIsReported
    BY DEF StatusIsTrue, StoppedMeansQuiet, DownIsReported
  <2>1. Between /\ \A kind \in Kinds : ~Answering(kind)
    BY CallFinds
  <2>2. ASSUME ~requested PROVE StoppedMeansQuiet
    <3>1. Stopped /\ ~active
      BY <2>1, <2>2 DEF Between, Settled, Stopped
    <3>2. /\ ~client.running /\ ~client.live /\ ~client.sink
          /\ \A t \in Kinds \cup {"worker"} : ~MayEnter(t)
      BY <2>1, <3>1, NobodyEnters DEF Stopped
    <3>3. inside = {}
      BY <3>2 DEF SourceInv, Entered, Types
    <3>4. \A kind \in Kinds : ~backend[kind].started /\ ~backend[kind].sink
      BY <2>1, <3>1 DEF Stopped, NothingStarted, SourceInv, BackendsWhole
    <3> QED
      BY <3>1, <3>2, <3>3, <3>4 DEF StoppedMeansQuiet, Stopped
  <2>3. DownIsReported
    BY <2>1 DEF Between, DownIsReported, Clean, Configured
  <2> QED
    BY <2>2, <2>3 DEF StoppedMeansQuiet
<1> QED
  BY <1>1, SourceCorrect, PTL

\* Between calls the graph in place is the one of the current settings: an
\* update destroys the graph of the old ones before it starts another.
THEOREM SettingsAreFollowed == Spec => [](AtRest /\ Configured => \A g \in built : g.config = config)
<1>1. SourceInv => (AtRest /\ Configured => \A g \in built : g.config = config)
  BY DEF SourceInv, Outline, Between, Settled, InPlace, Clean, Configured
<1> QED
  BY <1>1, SourceCorrect, PTL

\* A source that receives, receives: every stream of its settings has a backend
\* and every backend is started, and the sink and, with MTL, the client run.
THEOREM AllStreamsAreReceived ==
    Spec => [](AtRest /\ active =>
                 \A kind \in Kinds : /\ kind \in MediaKinds(config) <=> backend[kind].object # None
                                     /\ backend[kind].object # None => backend[kind].started /\ sink = "running"
                                     /\ backend[kind].object = "Mtl" => client.running)
<1>1. SourceInv /\ AtRest /\ active =>
        \A kind \in Kinds : /\ kind \in MediaKinds(config) <=> backend[kind].object # None
                            /\ backend[kind].object # None => backend[kind].started /\ sink = "running"
                            /\ backend[kind].object = "Mtl" => client.running
  <2> SUFFICES ASSUME SourceInv, AtRest, active, NEW kind \in Kinds
               PROVE  /\ kind \in MediaKinds(config) <=> backend[kind].object # None
                      /\ backend[kind].object # None => backend[kind].started /\ sink = "running"
                      /\ backend[kind].object = "Mtl" => client.running
    OBVIOUS
  <2>1. InPlace /\ AllStarted /\ WorkerKept
    BY CallFinds DEF Between, Settled, Clean
  <2>2. ASSUME backend[kind].object = "Mtl" PROVE client.running /\ client.live
    <3>1. StartedProxy(kind)
      BY <2>1, <2>2 DEF AllStarted, StartedProxy, None
    <3>2. Starts > 0
      BY <3>1 DEF Starts, Kinds
    <3> QED
      BY <2>1, <3>2 DEF WorkerKept, SourceInv, ClientWhole
  <2>3. ASSUME backend[kind].object # None PROVE backend[kind].started /\ sink = "running"
    <3>1. backend[kind].started
      BY <2>1, <2>3 DEF AllStarted
    <3>2. CASE backend[kind].object = "Socket"
      <4>1. MayEnter(kind)
        BY <3>1, <3>2 DEF MayEnter, Kinds
      <4> QED
        BY <3>1, <4>1 DEF SourceInv, Entered
    <3>3. CASE backend[kind].object = "Mtl"
      <4>1. MayEnter("worker")
        BY <2>2, <3>3 DEF MayEnter
      <4> QED
        BY <3>1, <4>1 DEF SourceInv, Entered
    <3> QED
      BY <2>3, <3>2, <3>3 DEF SourceInv, Types
  <2> QED
    BY <2>1, <2>2, <2>3 DEF InPlace
<1> QED
  BY <1>1, SourceCorrect, PTL

-----------------------------------------------------------------------------
\* The sizes of the buffers.

\* CeilDiv covers what is divided, and nothing smaller does.
LEMMA CeilDivCovers ==
    ASSUME NEW n \in Nat, NEW d \in Nat \ {0}
    PROVE  CeilDiv(n, d) \in Nat /\ CeilDiv(n, d) * d >= n
<1> DEFINE q == n \div d
           r == n % d
<1>1. q \in Nat /\ r \in 0 .. d - 1 /\ n = d * q + r
  OBVIOUS
<1>2. CeilDiv(n, d) = q + (IF r = 0 THEN 0 ELSE 1)
  BY DEF CeilDiv
<1> HIDE DEF q, r
<1>3. (q + 1) * d = d * q + d /\ q * d = d * q
  BY <1>1
<1> QED
  BY <1>1, <1>2, <1>3

LEMMA CeilDivLeast ==
    ASSUME NEW n \in Nat, NEW d \in Nat \ {0}, NEW m \in Nat, m * d >= n
    PROVE  CeilDiv(n, d) <= m
<1> DEFINE q == n \div d
           r == n % d
<1>1. q \in Nat /\ r \in 0 .. d - 1 /\ n = d * q + r
  OBVIOUS
<1>2. CeilDiv(n, d) = q + (IF r = 0 THEN 0 ELSE 1)
  BY DEF CeilDiv
<1> HIDE DEF q, r
<1>3. CASE r = 0
  <2>1. ASSUME m < q PROVE FALSE
    <3>1. m + 1 <= q
      BY <1>1, <2>1
    <3>2. (m + 1) * d <= q * d
      BY <1>1, <3>1
    <3>3. (m + 1) * d = m * d + d /\ q * d = d * q
      BY <1>1
    <3> QED
      BY <1>1, <1>3, <3>2, <3>3
  <2> QED
    BY <1>1, <1>2, <1>3, <2>1
<1>4. CASE r # 0
  <2>1. ASSUME m <= q PROVE FALSE
    <3>1. m * d <= q * d
      BY <1>1, <2>1
    <3>2. q * d = d * q
      BY <1>1
    <3> QED
      BY <1>1, <1>4, <3>1, <3>2
  <2> QED
    BY <1>1, <1>2, <1>4, <2>1
<1> QED
  BY <1>3, <1>4

\* A positive time divided up is positive.
LEMMA CeilDivPositive ==
    ASSUME NEW n \in Nat \ {0}, NEW d \in Nat \ {0}
    PROVE  CeilDiv(n, d) \in Nat \ {0}
<1>1. CeilDiv(n, d) \in Nat /\ CeilDiv(n, d) * d >= n
  BY CeilDivCovers
<1>2. CeilDiv(n, d) # 0
  BY <1>1
<1> QED
  BY <1>1, <1>2

\* The items of a stream take time.
LEMMA ItemsTakeTime ==
    ASSUME NEW kind \in Kinds, NEW s, Parsed(kind, s)
    PROVE  ItemTimeNs(kind, s) \in Nat \ {0}
<1>1. CASE kind = "video"
  <2>1. s.fpsNum \in Nat \ {0} /\ s.fpsDen \in Nat \ {0}
    BY <1>1 DEF Parsed
  <2>2. 1000000000 * s.fpsDen \in Nat \ {0}
    BY <2>1
  <2>3. ItemTimeNs(kind, s) = CeilDiv(1000000000 * s.fpsDen, s.fpsNum)
    BY <1>1, <2>1 DEF ItemTimeNs, FramePeriodNs
  <2> QED
    BY <2>1, <2>2, <2>3, CeilDivPositive
<1>2. CASE kind = "audio"
  <2>1. s.packetTimeUs \in Nat \ {0}
    BY <1>2 DEF Parsed
  <2>2. ItemTimeNs(kind, s) = s.packetTimeUs * 1000
    BY <1>2 DEF ItemTimeNs, PacketTimeNs
  <2> QED
    BY <2>1, <2>2
<1> QED
  BY <1>1, <1>2 DEF Kinds

\* A frame takes a packet at least.
LEMMA FramesTakePackets ==
    ASSUME NEW s, Parsed("video", s), NEW maxUdp \in Nat
    PROVE  PacketsPerFrame(s, maxUdp) \in Nat \ {0}
<1>1. s.width \in Nat /\ s.height \in Nat /\ s.bits \in Nat
  BY DEF Parsed
<1>2. HalfBitsPerPixel(s) \in Nat
  BY <1>1 DEF HalfBitsPerPixel
<1> DEFINE bits == s.width * s.height * HalfBitsPerPixel(s)
<1>3. bits \in Nat
  BY <1>1, <1>2
<1> HIDE DEF bits
<1>4. ActiveFrameBytes(s) \in Nat
  BY <1>3, CeilDivCovers DEF ActiveFrameBytes, bits
<1>5. EffectivePayload(maxUdp) \in Nat \ {0}
  BY DEF EffectivePayload, DefaultMaxUdp, HeaderOverhead
<1>6. CeilDiv(ActiveFrameBytes(s), EffectivePayload(maxUdp)) \in Nat
  BY <1>4, <1>5, CeilDivCovers
<1> QED
  BY <1>6 DEF PacketsPerFrame, Larger

\* A queue holds what arrives during the playout delay, and one item more,
\* whichever of the streams asks for the longest delay.
THEOREM QueuesHoldTheDelay ==
    ASSUME NEW streams, DOMAIN streams \subseteq Kinds, NEW kind \in DOMAIN streams,
           \A k \in DOMAIN streams : Parsed(k, streams[k])
    PROVE  LET tuning == PlayoutTuning(streams)
               item == ItemTimeNs(kind, streams[kind])
           IN  tuning.queued[kind] * item >= tuning.delay + item
<1> DEFINE item == ItemTimeNs(kind, streams[kind])
           D == PlayoutDelayNs(streams)
           delays == {StreamDelayNs(k, streams[k]) : k \in DOMAIN streams} \cup {0}
<1>1. item \in Nat \ {0}
  BY ItemsTakeTime
<1>2. \A k \in DOMAIN streams : StreamDelayNs(k, streams[k]) \in Nat
  <2> SUFFICES ASSUME NEW k \in DOMAIN streams PROVE StreamDelayNs(k, streams[k]) \in Nat
    OBVIOUS
  <2>1. ItemTimeNs(k, streams[k]) \in Nat
    BY ItemsTakeTime
  <2>2. CASE k = "video"
    BY <2>1, <2>2 DEF StreamDelayNs, ItemTimeNs
  <2>3. CASE k = "audio"
    BY <2>1, <2>3 DEF StreamDelayNs, ItemTimeNs, Larger
  <2> QED
    BY <2>2, <2>3 DEF Kinds
<1>3. D \in Nat
  <2>1. \E x \in delays : \A y \in delays : x >= y
    <3> DEFINE v == IF "video" \in DOMAIN streams THEN StreamDelayNs("video", streams["video"]) ELSE 0
               a == IF "audio" \in DOMAIN streams THEN StreamDelayNs("audio", streams["audio"]) ELSE 0
    <3>1. v \in Nat /\ a \in Nat /\ v \in delays /\ a \in delays
      BY <1>2
    <3>2. \A y \in delays : y \in {v, a, 0}
      BY DEF Kinds
    <3> HIDE DEF v, a, delays
    <3>3. CASE v >= a
      BY <3>1, <3>2, <3>3
    <3>4. CASE a >= v
      BY <3>1, <3>2, <3>4
    <3> QED
      BY <3>1, <3>3, <3>4
  <2>2. delays \subseteq Nat
    BY <1>2
  <2>3. D = CHOOSE x \in delays : \A y \in delays : x >= y
    BY DEF PlayoutDelayNs, Max
  <2> HIDE DEF delays, D
  <2> QED
    BY <2>1, <2>2, <2>3
<1> DEFINE n == CeilDiv(D, item)
           margin == Queue[kind].margin
           queued == MaxQueued(kind, streams)
<1>4. n \in Nat /\ n * item >= D
  BY <1>1, <1>3, CeilDivCovers
<1>5. margin \in Nat \ {0}
  BY DEF Queue, Kinds
<1>6. queued = Larger(Queue[kind].min, n + margin)
  BY <1>1 DEF MaxQueued
<1>7. Queue[kind].min \in Nat
  BY DEF Queue, Kinds
<1>8. PlayoutTuning(streams).delay = D /\ PlayoutTuning(streams).queued[kind] = queued
  BY DEF PlayoutTuning
<1> HIDE DEF item, D, n, margin, queued
<1>9. queued \in Nat /\ queued >= n + 1
  BY <1>4, <1>5, <1>6, <1>7 DEF Larger
<1>10. queued * item >= (n + 1) * item
  BY <1>1, <1>4, <1>9
<1>11. (n + 1) * item = n * item + item
  BY <1>1, <1>4
<1>12. n * item \in Nat /\ queued * item \in Nat /\ (n + 1) * item \in Nat
  BY <1>1, <1>4, <1>9
<1>13. queued * item >= D + item
  BY <1>1, <1>3, <1>4, <1>10, <1>11, <1>12
<1> QED
  BY <1>8, <1>13 DEF item

\* A reorder window that is not cut at its maximum holds the packets that
\* arrive during the jitter budget.
THEOREM WindowsHoldTheBudget ==
    ASSUME NEW kind \in Kinds, NEW s, Parsed(kind, s), NEW maxUdp \in Nat, NEW policy,
           WindowFits(kind, s, maxUdp)
    PROVE  LET packets == IF kind = "video" THEN PacketsPerFrame(s, maxUdp) ELSE 1
           IN  ReorderConfig(kind, s, maxUdp, policy).window >= CeilDiv(JitterBudgetNs * packets, ItemTimeNs(kind, s))
<1> DEFINE packets == IF kind = "video" THEN PacketsPerFrame(s, maxUdp) ELSE 1
           item == ItemTimeNs(kind, s)
           spacing == PacketSpacingNs(kind, s, maxUdp)
           n == CeilDiv(JitterBudgetNs, spacing)
           window == ReorderWindow(kind, s, maxUdp)
           w == Window[kind]
<1>1. item \in Nat \ {0} /\ packets \in Nat \ {0}
  BY ItemsTakeTime, FramesTakePackets
<1>2. /\ JitterBudgetNs \in Nat /\ w.min \in Nat /\ w.margin \in Nat /\ w.max \in Nat
      /\ w.min <= w.max /\ w.max < JitterBudgetNs
  BY DEF JitterBudgetNs, Window, Kinds
<1>3. spacing = IF kind = "video" THEN Larger(1, item \div packets) ELSE item
  BY <1>1 DEF PacketSpacingNs, ItemTimeNs, Kinds
<1>4. n + w.margin <= w.max
  BY DEF WindowFits
<1>5. ReorderConfig(kind, s, maxUdp, policy).window = window
  BY DEF ReorderConfig
<1>6. window = IF spacing = 0 THEN w.min ELSE Clamp(n + w.margin, w.min, w.max)
  BY DEF ReorderWindow
<1> HIDE DEF packets, item, spacing, n, window, w
<1>7. item \div packets \in Nat /\ packets * (item \div packets) <= item
  BY <1>1
<1>8. spacing \in Nat \ {0}
  BY <1>1, <1>3, <1>7 DEF Larger
<1>9. n \in Nat /\ n * spacing >= JitterBudgetNs
  BY <1>2, <1>8, CeilDivCovers DEF n
<1>10. packets * spacing <= item
  <2>1. CASE kind = "video" /\ item \div packets >= 1
    <3>1. spacing = item \div packets
      BY <1>3, <1>7, <2>1 DEF Larger
    <3> QED
      BY <1>7, <3>1
  <2>2. CASE kind = "video" /\ item \div packets < 1
    <3>1. spacing = 1
      BY <1>3, <1>7, <2>2 DEF Larger
    <3>2. n * 1 = n
      BY <1>9
    <3>3. n >= JitterBudgetNs
      BY <1>9, <3>1, <3>2
    <3> QED
      BY <1>2, <1>4, <1>9, <3>3
  <2>3. CASE kind # "video"
    <3>1. packets = 1 /\ spacing = item
      BY <1>3, <2>3 DEF packets
    <3> QED
      BY <1>1, <3>1
  <2> QED
    BY <1>7, <2>1, <2>2, <2>3
<1>11. n * item >= JitterBudgetNs * packets
  <2>1. n * (packets * spacing) <= n * item
    BY <1>1, <1>8, <1>9, <1>10
  <2>2. n * (packets * spacing) = (n * spacing) * packets
    BY <1>1, <1>8, <1>9
  <2>3. (n * spacing) * packets >= JitterBudgetNs * packets
    BY <1>1, <1>2, <1>8, <1>9
  <2> DEFINE a == n * (packets * spacing)
             b == n * item
             c == (n * spacing) * packets
             d == JitterBudgetNs * packets
  <2>4. a \in Nat /\ b \in Nat /\ c \in Nat /\ d \in Nat
    BY <1>1, <1>2, <1>8, <1>9
  <2>5. a <= b /\ a = c /\ c >= d
    BY <2>1, <2>2, <2>3
  <2> HIDE DEF a, b, c, d
  <2>6. b >= d
    BY <2>4, <2>5
  <2> QED
    BY <2>6 DEF b, d
<1>12. JitterBudgetNs * packets \in Nat
  BY <1>1, <1>2
<1>13. CeilDiv(JitterBudgetNs * packets, item) <= n
  BY <1>1, <1>9, <1>11, <1>12, CeilDivLeast
<1>14. CeilDiv(JitterBudgetNs * packets, item) \in Nat
  BY <1>1, <1>12, CeilDivCovers
<1>15. window \in Nat /\ window >= n
  BY <1>2, <1>4, <1>6, <1>8, <1>9 DEF Clamp
<1>16. window >= CeilDiv(JitterBudgetNs * packets, item)
  BY <1>9, <1>13, <1>14, <1>15
<1> QED
  BY <1>5, <1>16 DEF packets, item

-----------------------------------------------------------------------------
\* What a graph was built from.

\* The streams of a configuration are of the two kinds.
LEMMA StreamsAreOfAKind ==
    ASSUME NEW c \in Buildable
    PROVE  MediaKinds(c) \subseteq Kinds
<1> DEFINE objects == ObjectsOf[c.selected]
           media == MediaOf[c.selected]
<1>1. c.selected \in DOMAIN Offers /\ objects # <<>> /\ media # Refused
  BY DEF Buildable, Configs, HasProviderSelectedSdp
<1>2. media = MediaSet(objects)
  BY <1>1 DEF MediaOf
<1>3. MediaKinds(c) = DOMAIN media
  BY <1>1 DEF MediaKinds, Boots, BootsOf
<1>4. /\ \A i \in DOMAIN objects : MediaKind(objects[i]) \in Kinds
      /\ DOMAIN media = {MediaKind(objects[i]) : i \in DOMAIN objects}
  BY <1>1, <1>2 DEF MediaSet
<1> QED
  BY <1>3, <1>4

\* Only building makes a graph, and resetting the rest of it forgets what it was
\* built from; by then the sink is gone.
LEMMA BuiltCheckedStep ==
    ASSUME SourceInv, BuiltChecked, [Next]_vars
    PROVE  BuiltChecked'
<1>1. CASE UNCHANGED <<built, width>> /\ (sink' # "none" => sink # "none")
  BY <1>1 DEF BuiltChecked
<1>2. CASE Build
  <2>1. PICK anchors : built' = {[config |-> config, anchors |-> anchors]}
    BY <1>2 DEF Build
  <2>2. /\ config \in Buildable
        /\ width' = IF "video" \in MediaKinds(config) THEN Streams(config)["video"].width ELSE 0
    BY <1>2 DEF Build
  <2>3. [config |-> config, anchors |-> anchors].config = config
    OBVIOUS
  <2> QED
    BY <2>1, <2>2, <2>3 DEF BuiltChecked
<1>3. CASE ResetRest
  <2>1. built' = {} /\ sink' = sink
    BY <1>3 DEF ResetRest
  <2>2. Step(T("resetRest"))
    BY <1>3 DEF ResetRest
  <2>3. sink = "none"
    BY <2>2, ThisStep, StepTypes DEF SourceInv, Before, AtResetRest
  <2> QED
    BY <2>1, <2>3 DEF BuiltChecked
<1>4. CASE StartSessions
  <2>1. Step(T("start"))
    BY <1>4 DEF StartSessions
  <2>2. InPlace
    BY <2>1, ThisStep, StepTypes DEF SourceInv, Before, AtStart
  <2>3. sink # "none" /\ UNCHANGED <<built, width>>
    BY <1>4, <2>2 DEF InPlace, Configured, StartSessions
  <2> QED
    BY <2>3 DEF BuiltChecked
<1>5. CASE UserStep /\ ~Build /\ ~ResetRest /\ ~StartSessions
  <2>1. CASE EnsureConfigured \/ BuildFails \/ Started \/ StartFailed
    BY <1>1, <2>1 DEF EnsureConfigured, BuildFails, Started, StartFailed, graph
  <2>2. ASSUME NEW kind \in Kinds,
               \/ StartSocket(kind) \/ StartProxy(kind) \/ StartProxyFails(kind)
               \/ StartAnswered(kind) \/ StopBackend(kind) \/ ResetBackend(kind)
        PROVE  BuiltChecked'
    BY <1>1, <2>2 DEF StartSocket, StartProxy, StartProxyFails, StartAnswered, StopBackend, ResetBackend, graph
  <2>3. CASE StopSink \/ StopActive \/ ResetClient \/ ResetSink \/ ClearError
    BY <1>1, <2>3 DEF StopSink, StopActive, ResetClient, ResetSink, ClearError, graph
  <2> QED
    BY <1>5, <2>1, <2>2, <2>3 DEF UserStep
<1>6. CASE UserCall
  BY <1>1, <1>6 DEF UserCall, Update, StartReceive, StopReceive, StatsFail, Delete, graph
<1>7. CASE UNCHANGED vars \/ UNCHANGED graph
  BY <1>1, <1>7 DEF vars, graph
<1> QED
  BY <1>2, <1>3, <1>4, <1>5, <1>6, <1>7 DEF Next

\* In every state the graph is of a configuration that has been checked.
LEMMA AlwaysBuiltChecked == Spec => [](SourceInv /\ BuiltChecked)
<1>1. Init => BuiltChecked
  BY DEF Init, BuiltChecked
<1>2. SourceInv /\ BuiltChecked /\ [Next]_vars => BuiltChecked'
  BY BuiltCheckedStep
<1> QED
  BY <1>1, <1>2, SourceCorrect, PTL DEF Spec

\* The graph in place is large enough: a queue of the sink holds what arrives
\* during the playout delay, whichever stream asks for the longer one, and a
\* reorder window what arrives during the jitter budget.
THEOREM BuffersAlwaysHold ==
    ASSUME StreamsAreParsed, WindowsFit
    PROVE  Spec => []BuffersHoldTheirDelay
<1>1. ASSUME NEW c \in Buildable, NEW kind \in MediaKinds(c) PROVE Holds(c, kind)
  <2>1. kind \in Kinds /\ MediaKinds(c) \subseteq Kinds /\ DOMAIN Streams(c) = MediaKinds(c)
    BY <1>1, StreamsAreOfAKind DEF Streams
  <2>2. /\ \A k \in MediaKinds(c) : Parsed(k, Streams(c)[k])
        /\ Boots(c)[kind].legs[1].maxUdp \in Nat
        /\ WindowFits(kind, Streams(c)[kind], Boots(c)[kind].legs[1].maxUdp)
    BY <1>1 DEF StreamsAreParsed, WindowsFit
  <2> QED
    BY <1>1, <2>1, <2>2, QueuesHoldTheDelay, WindowsHoldTheBudget DEF Holds
<1>2. BuiltChecked => BuffersHoldTheirDelay
  BY <1>1 DEF BuiltChecked, BuffersHoldTheirDelay, WellDimensioned
<1> QED
  BY <1>2, AlwaysBuiltChecked, PTL

\* Whatever updates, failures and restarts came before, the graph in place is
\* the one the settings and the metadata ask for, no stream left out.
THEOREM GraphAlwaysAsAsked ==
    ASSUME StreamsAreParsed, SelectionIsComplete
    PROVE  Spec => []GraphIsTheOneAskedFor
<1>1. SourceInv /\ BuiltChecked => GraphIsTheOneAskedFor
  <2> SUFFICES ASSUME SourceInv, BuiltChecked, AtRest
               PROVE  /\ Configured => /\ \A g \in built : g.config = config
                                       /\ (width # 0) = ("video" \in MediaKinds(config))
                      /\ active => \A kind \in Announced(Offers[config.selected]) : backend[kind].started
    BY DEF GraphIsTheOneAskedFor, GraphFollowsConfig, EveryStreamIsReceived
  <2>1. Between
    BY CallFinds
  <2>2. ASSUME Configured
        PROVE  /\ InPlace /\ config \in Buildable
               /\ width = IF "video" \in MediaKinds(config) THEN Streams(config)["video"].width ELSE 0
    <3>1. InPlace
      BY <2>1, <2>2 DEF Between, Settled, Clean, Configured
    <3> QED
      BY <2>2, <3>1 DEF BuiltChecked, InPlace, Configured
  <2>3. ASSUME Configured PROVE (width # 0) = ("video" \in MediaKinds(config))
    <3>1. CASE "video" \in MediaKinds(config)
      <4>1. Parsed("video", Streams(config)["video"])
        BY <2>2, <2>3, <3>1 DEF StreamsAreParsed
      <4>2. Streams(config)["video"].width \in Nat \ {0}
        BY <4>1 DEF Parsed
      <4> QED
        BY <2>2, <2>3, <3>1, <4>2
    <3> QED
      BY <2>2, <2>3, <3>1
  <2>4. ASSUME active, NEW kind \in Announced(Offers[config.selected]) PROVE backend[kind].started
    <3>1. InPlace /\ Configured /\ AllStarted
      BY <2>1, <2>4 DEF Between, Settled, Clean, InPlace
    <3>2. config \in Buildable /\ kind \in MediaKinds(config)
      BY <2>2, <2>4, <3>1 DEF SelectionIsComplete
    <3>3. kind \in Kinds
      BY <3>2, StreamsAreOfAKind
    <3> QED
      BY <3>1, <3>2, <3>3 DEF InPlace, AllStarted
  <2> QED
    BY <2>2, <2>3, <2>4 DEF InPlace
<1> QED
  BY <1>1, AlwaysBuiltChecked, PTL
=============================================================================
