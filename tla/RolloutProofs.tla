---------------------------- MODULE RolloutProofs ----------------------------
(***************************************************************************)
(* Proofs about Rollout: what the monitors of a deployment announce, which *)
(* errors reach an outcome, and what the report of a failure says.         *)
(***************************************************************************)
EXTENDS Rollout, SequenceTheorems, TLAPS

-----------------------------------------------------------------------------
(* The inductive invariant *)

Place == {"idle", "check", "confirm", "writeBack", "poll", "validate",
          "decide", "handle", "finish", "done"}

(* The errors a monitor may go on with; those that only steer the polls are *)
(* not among them.                                                          *)
Err == {"none", "unavailable", "other", "notFound", "closed", "superseded", "lost",
        "stale", "image", "deadline"}

Report == UNION {ReportsOn(app) : app \in Apps \cup {NoApp}}

Saved == {app.images : app \in Apps} \cup {{}}

Outcome == {"cancelled", "deployed", "appNotFound", "aborted", "failed"}

Local == [saved : Saved, seen : Apps \cup {NoApp}, validated : BOOLEAN, polls : Nat,
          result : {"none"} \cup Outcome, written : BOOLEAN, reason : {NoReason} \cup Report]

TypeOK ==
  /\ pc \in [Monitor -> Place]
  /\ err \in [Monitor -> Err]
  /\ local \in [Monitor -> Local]
  /\ down \in [Monitor -> {"up", "draining", "closed"}]
  /\ lost \subseteq Monitor /\ late \subseteq Monitor
  /\ ends \in Seq([status : Outcome, written : BOOLEAN])

(* A monitor has an error only once it has stopped polling, validates only  *)
(* an application it has seen, and has chosen a status once it is to        *)
(* announce it.  One that noticed a lost claim goes straight to its last    *)
(* check, one that did not is past it.                                      *)
Stages ==
  \A m \in Monitor :
    /\ err[m] # "none" => pc[m] \in {"decide", "handle"}
    /\ pc[m] = "validate" => local[m].seen # NoApp
    /\ local[m].result # "none" => pc[m] = "finish" \/ (pc[m] = "handle" /\ m \in late)
    /\ pc[m] = "finish" => local[m].result # "none"
    /\ m \in lost => pc[m] = "decide"
    /\ m \in late => pc[m] \in {"handle", "finish"}

(* The closed batcher fails a monitor that drains, which its last check     *)
(* silences unless it is the acceptor's.                                    *)
ClosedDrains ==
  \A m \in Monitor \ {Acceptor} :
    err[m] = "closed" => pc[m] = "decide" /\ down[m] # "up"

OneAttends == \A m, n \in Monitor : Attends(m) /\ Attends(n) => m = n

(* What the attending monitor takes for its outcome, or has recorded, is    *)
(* the task's status.                                                       *)
OutcomeStands ==
  \A m \in Monitor : Attends(m) =>
    /\ pc[m] # "finish" /\ Result(m) = "cancelled" => row = "cancelled"
    /\ pc[m] = "finish" /\ local[m].written => row = local[m].result

(* After an announcement of what was recorded nobody is left to write or    *)
(* announce anything else, and nobody resumes.                              *)
LastWord ==
  \A i \in DOMAIN ends : ends[i].written =>
    /\ i = Len(ends) /\ row = ends[i].status /\ row # "inProgress"
    /\ \A m \in Monitor : ~Attends(m)

(* Until a late monitor is overtaken one at most decides the rollout.       *)
OneDecides == ~overtaken => OneAttends /\ OutcomeStands /\ LastWord

RolloutInv == TypeOK /\ Stages /\ ClosedDrains /\ OneDecides

LEMMA InitRolloutInv == Init => RolloutInv
<1> SUFFICES ASSUME Init PROVE RolloutInv
  OBVIOUS
<1>1. Fresh \in Local
  BY DEF Fresh, Local, Saved
<1>2. TypeOK
  BY <1>1 DEF Init, TypeOK, Place, Err
<1>3. Stages /\ ClosedDrains /\ LastWord
  BY DEF Init, Stages, ClosedDrains, LastWord, Fresh
<1>4. OneAttends /\ OutcomeStands
  BY DEF Init, OneAttends, OutcomeStands, Attends, Runs, Result, Fresh, FinalStatus
<1> QED
  BY <1>2, <1>3, <1>4 DEF RolloutInv, OneDecides

-----------------------------------------------------------------------------
(* Steps of one monitor *)

LEMMA ResultFinal ==
  ASSUME TypeOK, NEW m \in Monitor
  PROVE  Result(m) \in Outcome
BY DEF TypeOK, Local, Result, Outcome

(* The monitor m goes to p with the error e and the variables l.            *)
MovesTo(m, p, e, l) ==
  /\ pc' = [pc EXCEPT ![m] = p]
  /\ err' = [err EXCEPT ![m] = e]
  /\ local' = [local EXCEPT ![m] = l]
  /\ UNCHANGED <<row, down, claims, ends>>

(* It has the rollout to itself, unless a late monitor was overtaken.       *)
Entitled(m) ==
  \/ Attends(m) /\ UNCHANGED overtaken
  \/ Unattended(m) /\ NoteOvertaken

(* What the invariant asks of where it goes.                                *)
Sound(m, p, e, l) ==
  /\ pc[m] \notin {"handle", "finish"}
  /\ p \in Place \ {"idle", "finish", "done"} /\ e \in Err /\ l \in Local
  /\ e # "none" => p \in {"decide", "handle"}
  /\ p = "validate" => l.seen # NoApp
  /\ l.result = "none"
  /\ m \in lost => p = "decide"
  /\ e = "closed" /\ m # Acceptor => p = "decide" /\ down[m] # "up"
  /\ e = "superseded" /\ ~overtaken => row = "cancelled"

LEMMA MoveKeepsInv ==
  ASSUME RolloutInv, NEW m \in Monitor, NEW p, NEW e, NEW l,
         MovesTo(m, p, e, l), Sound(m, p, e, l), Entitled(m)
  PROVE  RolloutInv'
<1> USE DEF RolloutInv, claims
<1>1. TypeOK'
  BY DEF TypeOK, MovesTo, Sound
<1>2. Stages'
  BY DEF TypeOK, MovesTo, Sound, Stages
<1>3. ClosedDrains'
  BY DEF TypeOK, MovesTo, Sound, ClosedDrains
<1>4. ASSUME ~overtaken'
      PROVE  OneAttends' /\ OutcomeStands' /\ LastWord'
  <2>0. ~overtaken /\ OneAttends /\ OutcomeStands /\ LastWord
    <3>1. ~overtaken
      BY <1>4, Zenon DEF Entitled, NoteOvertaken
    <3> QED
      BY <3>1 DEF OneDecides
  <2>1. ASSUME Unattended(m), NEW n \in Monitor
        PROVE  ~Attends(n)
    <3>1. ~Claims(m) /\ ~Claims(n) /\ pc[m] \notin {"handle", "finish"}
      BY <2>1 DEF Unattended, Sound
    <3>2. ~Attends(m)
      BY <3>1 DEF Attends, Claims, Stages
    <3>3. late = {}
      BY <1>4, <3>2 DEF Entitled, NoteOvertaken
    <3> QED
      BY <3>1, <3>3 DEF Attends, Claims, Stages
  <2>2. \A n \in Monitor \ {m} : (Attends(n)' <=> Attends(n)) /\ ~Attends(n)
    BY <2>0, <2>1 DEF TypeOK, MovesTo, Attends, Runs, Entitled, OneAttends
  <2>3. OneAttends'
    BY <2>2 DEF OneAttends
  <2>4. OutcomeStands'
    <3>1. local'[m] = l /\ err'[m] = e /\ pc'[m] = p
      BY DEF TypeOK, MovesTo
    <3>2. Result(m)' = "cancelled" => e = "superseded"
      BY <3>1 DEF Sound, Result
    <3> QED
      BY <2>0, <2>2, <3>1, <3>2 DEF MovesTo, Sound, OutcomeStands
  <2>5. ~(\E i \in DOMAIN ends : ends[i].written)
    BY <2>0 DEF LastWord, Entitled, Unattended
  <2>6. LastWord'
    BY <2>5 DEF MovesTo, LastWord
  <2> QED
    BY <2>3, <2>4, <2>6
<1> QED
  BY <1>1, <1>2, <1>3, <1>4 DEF OneDecides

LEMMA Running ==
  ASSUME RolloutInv, NEW m \in Monitor, pc[m] \notin {"idle", "decide", "done"}
  PROVE  Attends(m) /\ m \notin lost
BY DEF RolloutInv, Stages, Attends, Runs

(* What a monitor that has not come to its last check brings to its steps.  *)
LEMMA Before ==
  ASSUME RolloutInv, NEW m \in Monitor, pc[m] \notin {"decide", "handle", "finish"}
  PROVE  err[m] = "none" /\ m \notin lost /\ local[m].result = "none"
BY DEF RolloutInv, Stages

(* The steps up to the polls                                                *)
LEMMA StartKeepsInv ==
  ASSUME RolloutInv, NEW m \in Monitor,
         (m = Acceptor /\ WaitForRollout) \/ ResumeRollout(m) \/ Check(m)
  PROVE  RolloutInv'
<1> USE DEF Place, Err, Goes, With
<1>1. /\ err \in [Monitor -> Err] /\ err[m] \in Err /\ local[m] \in Local
      /\ local = [local EXCEPT ![m] = local[m]]
  BY DEF RolloutInv, TypeOK
<1>2. pc[m] \in {"idle", "check"} /\ err[m] = "none" /\ m \notin lost /\ local[m].result = "none"
  BY Before DEF WaitForRollout, ResumeRollout, Check
<1>3. err = [err EXCEPT ![m] = "none"]
  BY <1>1, <1>2
<1>4. CASE m = Acceptor /\ WaitForRollout
  <2>1. Entitled(m)
    BY <1>2, <1>4 DEF WaitForRollout, history, Attends, Runs, Entitled
  <2>2. MovesTo(m, "check", "none", local[m])
    BY <1>1, <1>3, <1>4 DEF WaitForRollout, MovesTo
  <2>3. Sound(m, "check", "none", local[m])
    BY <1>1, <1>2 DEF Sound
  <2> QED
    BY <2>1, <2>2, <2>3, MoveKeepsInv
<1>5. CASE ResumeRollout(m)
  <2>1. Entitled(m)
    BY <1>5 DEF ResumeRollout, Entitled
  <2>2. \/ MovesTo(m, "check", "none", local[m])
        \/ MovesTo(m, "handle", "stale", local[m])
    BY <1>1, <1>3, <1>5 DEF ResumeRollout, MovesTo
  <2>3. Sound(m, "check", "none", local[m]) /\ Sound(m, "handle", "stale", local[m])
    BY <1>1, <1>2 DEF Sound
  <2> QED
    BY <2>1, <2>2, <2>3, MoveKeepsInv
<1>6. CASE Check(m)
  <2>1. Entitled(m)
    BY <1>6, Running DEF Check, history, Entitled
  <2>2. \/ MovesTo(m, "confirm", "none", local[m])
        \/ row = "cancelled" /\ MovesTo(m, "decide", "superseded", local[m])
    BY <1>1, <1>3, <1>6 DEF Check, SeenSuperseded, MovesTo
  <2>3. /\ Sound(m, "confirm", "none", local[m])
        /\ row = "cancelled" => Sound(m, "decide", "superseded", local[m])
    BY <1>1, <1>2 DEF Sound
  <2> QED
    BY <2>1, <2>2, <2>3, MoveKeepsInv
<1> QED
  BY <1>4, <1>5, <1>6

LEMMA PrepareKeepsInv ==
  ASSUME RolloutInv, NEW m \in Monitor, ConfirmApplication(m) \/ UpdateIfNeeded(m)
  PROVE  RolloutInv'
<1> USE DEF Place, Err, Goes, With
<1>1. /\ err \in [Monitor -> Err] /\ local \in [Monitor -> Local] /\ local[m] \in Local
      /\ local = [local EXCEPT ![m] = local[m]]
  BY DEF RolloutInv, TypeOK
<1>2. /\ pc[m] \in {"confirm", "writeBack"} /\ Entitled(m)
      /\ err[m] = "none" /\ m \notin lost /\ local[m].result = "none"
  BY Running, Before DEF ConfirmApplication, UpdateIfNeeded, history, Entitled
<1>3. err = [err EXCEPT ![m] = "none"]
  BY <1>1, <1>2
<1>4. CASE ConfirmApplication(m)
  <2>1. CASE \E e \in FetchError : MovesTo(m, "decide", e, local[m])
    <3>1. PICK e \in FetchError : MovesTo(m, "decide", e, local[m])
      BY <2>1
    <3>2. Sound(m, "decide", e, local[m])
      BY <1>1, <1>2 DEF FetchError, Sound
    <3> QED
      BY <1>2, <3>1, <3>2, MoveKeepsInv
  <2>2. CASE \E app \in Apps : MovesTo(m, "writeBack", "none", [local[m] EXCEPT !.saved = app.images])
    <3>1. PICK app \in Apps : MovesTo(m, "writeBack", "none", [local[m] EXCEPT !.saved = app.images])
      BY <2>2
    <3> DEFINE l == [local[m] EXCEPT !.saved = app.images]
    <3>2. l \in Local /\ l.result = "none"
      BY <1>1, <1>2 DEF Local, Saved
    <3>3. Sound(m, "writeBack", "none", l)
      BY <1>2, <3>2 DEF Sound
    <3> QED
      BY <1>2, <3>1, <3>3, MoveKeepsInv
  <2> QED
    BY <1>1, <1>3, <1>4, <2>1, <2>2 DEF ConfirmApplication, MovesTo
<1>5. CASE UpdateIfNeeded(m)
  <2>1. \/ MovesTo(m, "poll", "none", local[m])
        \/ \E e \in {"other", "unavailable", "lost"} : MovesTo(m, "decide", e, local[m])
        \/ down[m] = "closed" /\ MovesTo(m, "decide", "closed", local[m])
        \/ row = "cancelled" /\ MovesTo(m, "decide", "superseded", local[m])
    BY <1>1, <1>3, <1>5 DEF UpdateIfNeeded, SeenSuperseded, MovesTo
  <2>2. /\ Sound(m, "poll", "none", local[m])
        /\ \A e \in {"other", "unavailable", "lost"} : Sound(m, "decide", e, local[m])
        /\ down[m] = "closed" => Sound(m, "decide", "closed", local[m])
        /\ row = "cancelled" => Sound(m, "decide", "superseded", local[m])
    BY <1>1, <1>2 DEF Sound
  <2> QED
    BY <1>2, <2>1, <2>2, MoveKeepsInv
<1> QED
  BY <1>4, <1>5

(* The polls                                                                *)
LEMMA ReturnKeepsInv ==
  ASSUME RolloutInv, NEW m \in Monitor, NEW l \in Local, l.result = "none",
         NEW e \in (Err \ {"closed"}) \cup {"force", "degraded"},
         pc[m] \in {"poll", "validate"},
         e \in {"force", "degraded"} => l.seen # NoApp,
         e = "superseded" => row = "cancelled",
         Returns(m, pc[m], l, e), UNCHANGED <<row, down, claims, ends, overtaken>>
  PROVE  RolloutInv'
<1> DEFINE f == IF l.seen # NoApp /\ rolloutStateAlreadyObserved(e) THEN "none" ELSE e
           k == [Fresh EXCEPT !.seen = l.seen]
<1>1. Entitled(m) /\ m \notin lost
  BY Running DEF Entitled
<1>2. k \in Local /\ k.result = "none"
  BY DEF Local, Fresh, Saved
<1>3. f \in Err \ {"closed"} /\ (f = "superseded" => row = "cancelled")
  BY DEF Err, rolloutStateAlreadyObserved
<1>4. MovesTo(m, "decide", f, k)
  BY DEF Returns, Goes, With, MovesTo
<1>5. Sound(m, "decide", f, k)
  BY <1>1, <1>2, <1>3 DEF Sound, Place
<1> QED
  BY <1>1, <1>4, <1>5, MoveKeepsInv

LEMMA IterationKeepsInv ==
  ASSUME RolloutInv, NEW m \in Monitor, NEW l \in Local, l.result = "none",
         NEW e \in {"none", "unavailable", "other", "notFound", "image", "force", "degraded"},
         pc[m] \in {"poll", "validate"},
         e \in {"force", "degraded"} => l.seen # NoApp,
         Iterated(m, pc[m], l, e), UNCHANGED <<row, down, claims, ends, overtaken>>
  PROVE  RolloutInv'
<1> DEFINE k == [l EXCEPT !.polls = @ + 1]
<1>1. Entitled(m) /\ m \notin lost /\ err[m] = "none" /\ err \in [Monitor -> Err]
  BY Running, Before DEF Entitled, RolloutInv, TypeOK
<1>2. CASE MovesTo(m, "poll", "none", k)
  <2>1. k \in Local /\ k.result = "none"
    BY DEF Local
  <2>2. Sound(m, "poll", "none", k)
    BY <1>1, <2>1 DEF Sound, Place, Err
  <2> QED
    BY <1>1, <1>2, <2>2, MoveKeepsInv
<1>3. CASE Returns(m, pc[m], l, e)
  BY <1>3, ReturnKeepsInv DEF Err
<1> QED
  BY <1>1, <1>2, <1>3 DEF Iterated, Goes, MovesTo

LEMMA PollKeepsInv ==
  ASSUME RolloutInv, NEW m \in Monitor,
         Poll(m) \/ validateDesiredImages(m) \/ Deadline(m)
  PROVE  RolloutInv'
<1>1. /\ Entitled(m) /\ m \notin lost /\ err[m] = "none" /\ local[m] \in Local
      /\ local[m].result = "none" /\ err \in [Monitor -> Err]
      /\ pc[m] = "validate" => local[m].seen # NoApp
  BY Running, Before
  DEF RolloutInv, Stages, TypeOK, Poll, validateDesiredImages, Deadline, history, Entitled
<1>2. CASE Poll(m)
  <2>1. pc[m] = "poll" /\ UNCHANGED <<row, down, claims, ends, overtaken>>
    BY <1>2 DEF Poll, history
  <2>2. CASE \/ SeenSuperseded /\ Returns(m, "poll", local[m], "superseded")
             \/ Returns(m, "poll", local[m], "lost")
    BY <1>1, <2>1, <2>2, ReturnKeepsInv DEF SeenSuperseded, Err
  <2>3. CASE \E e \in FetchError : Iterated(m, "poll", local[m], e)
    BY <1>1, <2>1, <2>3, IterationKeepsInv DEF FetchError
  <2>4. CASE \E app \in Apps : Evaluate(m, app, [local[m] EXCEPT !.seen = app])
    <3>1. PICK app \in Apps : Evaluate(m, app, [local[m] EXCEPT !.seen = app])
      BY <2>4
    <3> DEFINE l == [local[m] EXCEPT !.seen = app]
               k == [l EXCEPT !.validated = TRUE]
    <3>2. /\ l \in Local /\ k \in Local /\ l.seen = app /\ k.seen = app
          /\ l.result = "none" /\ k.result = "none"
      BY <1>1 DEF Local
    <3>3. app # NoApp
      BY RolloutStatusAssumption DEF NoApp
    <3>4. checkRolloutStatus(app, l.saved) \in {"none", "degraded", "force"}
      BY DEF checkRolloutStatus
    <3> HIDE DEF l
    <3>5. CASE Iterated(m, "poll", l, checkRolloutStatus(app, l.saved))
      BY <2>1, <3>2, <3>3, <3>4, <3>5, IterationKeepsInv
    <3>6. CASE MovesTo(m, "validate", "none", k)
      <4>1. Sound(m, "validate", "none", k)
        BY <1>1, <2>1, <3>2, <3>3 DEF Sound, Place, Err
      <4> QED
        BY <1>1, <3>6, <4>1, MoveKeepsInv
    <3>7. Evaluate(m, app, l)
      BY <3>1 DEF l
    <3>8. err = [err EXCEPT ![m] = "none"]
      BY <1>1
    <3> QED
      BY <2>1, <3>5, <3>6, <3>7, <3>8 DEF Evaluate, Goes, MovesTo
  <2> QED
    BY <1>2, <2>2, <2>3, <2>4 DEF Poll
<1>3. CASE validateDesiredImages(m)
  <2>1. pc[m] = "validate" /\ UNCHANGED <<row, down, claims, ends, overtaken>>
    BY <1>3 DEF validateDesiredImages, history
  <2>2. \E e \in {"image", "force"} : Iterated(m, "validate", local[m], e)
    BY <1>3 DEF validateDesiredImages
  <2> QED
    BY <1>1, <2>1, <2>2, IterationKeepsInv
<1>4. CASE Deadline(m)
  <2>1. /\ pc[m] \in {"poll", "validate"} /\ UNCHANGED <<row, down, claims, ends, overtaken>>
        /\ Returns(m, pc[m], local[m], "deadline")
    BY <1>4 DEF Deadline, history
  <2> QED
    BY <1>1, <2>1, ReturnKeepsInv DEF Err
<1> QED
  BY <1>2, <1>3, <1>4

-----------------------------------------------------------------------------
(* The end of a monitor *)

LEMMA EndKeepsParts ==
  ASSUME RolloutInv, NEW m \in Monitor,
         pc' = [pc EXCEPT ![m] = "done"], Ended(m), UNCHANGED <<row, overtaken>>,
         ends' \in Seq([status : Outcome, written : BOOLEAN])
  PROVE  /\ TypeOK' /\ Stages' /\ ClosedDrains'
         /\ ~overtaken' => OneAttends' /\ OutcomeStands'
         /\ \A n \in Monitor : Attends(n)' => Attends(n) /\ n # m
<1> USE DEF RolloutInv, Ended, With
<1>1. Fresh \in Local /\ Fresh.result = "none"
  BY DEF Fresh, Local, Saved
<1>2. TypeOK'
  BY <1>1 DEF TypeOK, Place, Err
<1>3. Stages'
  BY <1>1 DEF TypeOK, Stages
<1>4. ClosedDrains'
  BY DEF TypeOK, ClosedDrains
<1>5. \A n \in Monitor : Attends(n)' => Attends(n) /\ n # m
  BY DEF TypeOK, Attends, Runs
<1>6. ~overtaken' => OneAttends'
  BY <1>5 DEF OneAttends, OneDecides
<1>7. ASSUME ~overtaken' PROVE OutcomeStands'
  <2> SUFFICES ASSUME NEW n \in Monitor, Attends(n)'
               PROVE  /\ pc'[n] # "finish" /\ Result(n)' = "cancelled" => row' = "cancelled"
                      /\ pc'[n] = "finish" /\ local'[n].written => row' = local'[n].result
    BY DEF OutcomeStands
  <2>1. err'[n] = err[n] /\ pc'[n] = pc[n] /\ local'[n] = local[n]
    BY <1>5 DEF TypeOK
  <2>2. Result(n)' = Result(n)
    BY <2>1 DEF Result
  <2> QED
    BY <1>5, <1>7, <2>1, <2>2 DEF OutcomeStands, OneDecides
<1> QED
  BY <1>2, <1>3, <1>4, <1>5, <1>6, <1>7

LEMMA EndKeepsInv ==
  ASSUME RolloutInv, NEW m \in Monitor,
         pc' = [pc EXCEPT ![m] = "done"], Ended(m), UNCHANGED <<row, ends, overtaken>>
  PROVE  RolloutInv'
<1>1. /\ TypeOK' /\ Stages' /\ ClosedDrains'
      /\ ~overtaken' => OneAttends' /\ OutcomeStands'
      /\ \A n \in Monitor : Attends(n)' => Attends(n) /\ n # m
  BY EndKeepsParts DEF RolloutInv, TypeOK
<1>2. ~overtaken' => LastWord'
  BY <1>1 DEF RolloutInv, OneDecides, LastWord
<1> QED
  BY <1>1, <1>2 DEF RolloutInv, OneDecides

(* The last check, the write of the outcome and its announcement            *)
LEMMA DecideKeepsInv ==
  ASSUME RolloutInv, NEW m \in Monitor, Decide(m)
  PROVE  RolloutInv'
<1> DEFINE silent == m \in lost \/ (err[m] # "superseded" /\ (Draining(m) \/ err[m] = "lost"))
<1>1. CASE silent
  BY <1>1, EndKeepsInv DEF Decide, Goes, history
<1>2. CASE ~silent
  <2>1. pc[m] = "decide" /\ m \notin lost /\ Attends(m) /\ Entitled(m)
    BY <1>2 DEF Decide, Goes, history, Attends, Runs, Entitled
  <2>2. MovesTo(m, "handle", err[m], local[m])
    BY <1>2, <2>1 DEF Decide, Goes, MovesTo, RolloutInv, TypeOK
  <2>3. err[m] = "closed" => m = Acceptor
    BY <1>2 DEF RolloutInv, ClosedDrains, Draining
  <2>4. local[m].result = "none"
    BY <2>1 DEF RolloutInv, Stages
  <2>5. err[m] = "superseded" /\ ~overtaken => row = "cancelled"
    BY <2>1, <2>4 DEF RolloutInv, OneDecides, OutcomeStands, Result
  <2>6. Sound(m, "handle", err[m], local[m])
    BY <2>1, <2>3, <2>4, <2>5 DEF Sound, Place, RolloutInv, TypeOK
  <2> QED
    BY <2>1, <2>2, <2>6, MoveKeepsInv
<1> QED
  BY <1>1, <1>2

(* The status is chosen and, unless the write fails or none is due, written.*)
LEMMA ChoiceKeepsInv ==
  ASSUME RolloutInv, NEW m \in Monitor, pc[m] \in {"handle", "finish"},
         NEW written \in BOOLEAN, NEW reason \in {NoReason} \cup Report,
         Chosen(m, written, reason), UNCHANGED <<lost, ends, overtaken>>,
         \/ /\ pc[m] = "handle" /\ pc' = [pc EXCEPT ![m] = "finish"]
            /\ row' \in {row, Result(m)}
            /\ written /\ ~overtaken => row' = Result(m)
            /\ UNCHANGED <<down, late>>
         \/ /\ UNCHANGED <<row, pc>> /\ written = local[m].written
            /\ late' = late \cup {m} /\ down' = [down EXCEPT ![m] = "up"]
  PROVE  RolloutInv'
<1> USE DEF RolloutInv
<1>1. Result(m) \in Outcome
  BY ResultFinal
<1> DEFINE l == [Fresh EXCEPT !.result = Result(m), !.written = written, !.reason = reason]
<1>2. l \in Local /\ l.result = Result(m) /\ l.written = written
  BY <1>1 DEF Local, Fresh, Saved
<1>3. local' = [local EXCEPT ![m] = l] /\ err' = [err EXCEPT ![m] = "none"]
  BY DEF Chosen, With
<1> HIDE DEF l
<1>4. TypeOK'
  BY <1>2, <1>3 DEF TypeOK, Place, Err
<1>5. Stages'
  BY <1>1, <1>2, <1>3 DEF TypeOK, Stages, Outcome
<1>6. ClosedDrains'
  BY <1>3 DEF TypeOK, ClosedDrains
<1>7. Attends(m) /\ \A n \in Monitor : Attends(n)' <=> Attends(n)
  BY Running DEF TypeOK, Attends, Runs
<1>8. ASSUME ~overtaken'
      PROVE  OneAttends' /\ OutcomeStands' /\ LastWord'
  <2>1. OneAttends /\ OutcomeStands /\ LastWord
    BY <1>8 DEF OneDecides
  <2>2. OneAttends' /\ LastWord'
    BY <1>7, <2>1 DEF OneAttends, LastWord
  <2>3. local'[m] = l
    BY <1>3 DEF TypeOK
  <2>4. Result(m)' = Result(m)
    BY <1>1, <1>2, <2>3 DEF Result, Outcome
  <2>5. pc[m] = "finish" => Result(m) = local[m].result
    BY DEF Stages, Result
  <2>6. OutcomeStands'
    BY <1>2, <1>7, <1>8, <2>1, <2>3, <2>4, <2>5 DEF TypeOK, OneAttends, OutcomeStands
  <2> QED
    BY <2>1, <2>2, <2>6
<1> QED
  BY <1>4, <1>5, <1>6, <1>8 DEF OneDecides

LEMMA WriteKeepsInv ==
  ASSUME RolloutInv, NEW m \in Monitor, SetTaskStatus(m)
  PROVE  RolloutInv'
<1>1. /\ pc[m] = "handle" /\ pc' = [pc EXCEPT ![m] = "finish"] /\ Attends(m)
      /\ UNCHANGED <<down, lost, late, ends, overtaken>>
  BY Running DEF SetTaskStatus, Goes, claims, history
<1>2. CASE /\ Chosen(m, Result(m) = "cancelled", NoReason)
           /\ UNCHANGED row
  <2>1. Result(m) = "cancelled" /\ ~overtaken => row = "cancelled"
    BY <1>1 DEF RolloutInv, OneDecides, OutcomeStands
  <2> QED
    BY <1>1, <1>2, <2>1, ChoiceKeepsInv
<1>3. CASE (\E r \in Reports(m) : Chosen(m, TRUE, r)) /\ row' = Result(m)
  <2>1. local[m].seen \in Apps \cup {NoApp}
    BY DEF RolloutInv, TypeOK, Local
  <2>2. Reports(m) \subseteq {NoReason} \cup Report
    BY <2>1 DEF Reports, Report
  <2> QED
    BY <1>1, <1>3, <2>2, ChoiceKeepsInv
<1> QED
  BY <1>2, <1>3 DEF SetTaskStatus

LEMMA AnnounceKeepsInv ==
  ASSUME RolloutInv, NEW m \in Monitor, Announce(m)
  PROVE  RolloutInv'
<1> DEFINE end == [status |-> local[m].result, written |-> local[m].written]
<1>1. /\ pc[m] = "finish" /\ pc' = [pc EXCEPT ![m] = "done"] /\ Ended(m)
      /\ UNCHANGED <<row, overtaken>> /\ ends' = Append(ends, end) /\ Attends(m)
      /\ local[m] \in Local /\ local[m].result # "none"
      /\ ends \in Seq([status : Outcome, written : BOOLEAN])
  BY Running DEF Announce, Goes, history, RolloutInv, TypeOK, Stages
<1>2. end \in [status : Outcome, written : BOOLEAN]
  BY <1>1 DEF Local
<1>3. end.written /\ ~overtaken => row = end.status /\ end.status # "inProgress"
  BY <1>1, <1>2 DEF RolloutInv, OneDecides, OutcomeStands, Outcome
<1> HIDE DEF end
<1>4. /\ ends' \in Seq([status : Outcome, written : BOOLEAN])
      /\ Len(ends') = Len(ends) + 1
      /\ \A i \in DOMAIN ends : ends'[i] = ends[i]
      /\ ends'[Len(ends')] = end
      /\ DOMAIN ends' = DOMAIN ends \cup {Len(ends')}
  BY <1>1, <1>2, AppendProperties, LenProperties
<1>5. /\ TypeOK' /\ Stages' /\ ClosedDrains'
      /\ ~overtaken' => OneAttends' /\ OutcomeStands'
      /\ \A n \in Monitor : Attends(n)' => Attends(n) /\ n # m
  BY <1>1, <1>4, EndKeepsParts
<1>6. ASSUME ~overtaken' PROVE LastWord'
  <2>1. ~overtaken /\ OneAttends /\ LastWord
    BY <1>1, <1>6 DEF RolloutInv, OneDecides
  <2>2. \A n \in Monitor : ~Attends(n)'
    BY <1>1, <1>5, <2>1 DEF OneAttends
  <2>3. \A i \in DOMAIN ends : ~ends[i].written
    BY <1>1, <2>1 DEF LastWord
  <2> QED
    BY <1>1, <1>3, <1>4, <2>1, <2>2, <2>3 DEF LastWord
<1> QED
  BY <1>5, <1>6 DEF RolloutInv, OneDecides

-----------------------------------------------------------------------------
(* Steps of the others *)

LEMMA RowKeepsInv ==
  ASSUME RolloutInv, Supersede \/ ProcessObsoleteTasks
  PROVE  RolloutInv'
<1>1. row = "inProgress" /\ UNCHANGED <<pc, err, local, down, lost, late, ends, overtaken>>
  BY DEF Supersede, ProcessObsoleteTasks, claims
<1>2. \A m \in Monitor : (Attends(m)' <=> Attends(m)) /\ Result(m)' = Result(m)
  BY <1>1 DEF Attends, Runs, Result
<1>3. ASSUME ~overtaken
      PROVE  OneAttends' /\ OutcomeStands' /\ LastWord'
  <2>1. OneAttends /\ OutcomeStands /\ LastWord
    BY <1>3 DEF RolloutInv, OneDecides
  <2>2. \A m \in Monitor : pc[m] = "finish" => local[m].result # "inProgress"
    BY DEF RolloutInv, Stages, TypeOK, Local, Outcome
  <2>3. OutcomeStands'
    BY <1>1, <1>2, <2>1, <2>2 DEF OutcomeStands
  <2>4. OneAttends' /\ LastWord'
    BY <1>1, <1>2, <2>1 DEF OneAttends, LastWord
  <2> QED
    BY <2>3, <2>4
<1> QED
  BY <1>1, <1>3 DEF RolloutInv, TypeOK, Stages, ClosedDrains, OneDecides

LEMMA TroubleKeepsInv ==
  ASSUME RolloutInv, NEW m \in Monitor,
         LoseClaim(m) \/ OutlivesClaim(m) \/ Crash(m) \/ BeginDraining(m) \/ CloseBatcher(m)
  PROVE  RolloutInv'
<1> USE DEF RolloutInv
<1>1. CASE LoseClaim(m)
  <2> USE <1>1 DEF LoseClaim, With
  <2>1. Fresh \in Local /\ Fresh.result = "none"
    BY DEF Fresh, Local, Saved
  <2>2. TypeOK'
    BY <2>1 DEF TypeOK, Place, Err
  <2>3. Stages' /\ ClosedDrains'
    BY <2>1 DEF TypeOK, Stages, ClosedDrains
  <2>4. ASSUME ~overtaken'
        PROVE  OneAttends' /\ OutcomeStands' /\ LastWord'
    <3>1. OneAttends /\ LastWord
      BY <2>4 DEF OneDecides
    <3>2. \A n \in Monitor : ~Attends(n)'
      BY <3>1 DEF TypeOK, Attends, Runs, OneAttends
    <3> QED
      BY <3>1, <3>2 DEF LastWord, OneAttends, OutcomeStands
  <2> QED
    BY <2>2, <2>3, <2>4 DEF OneDecides
<1>2. CASE OutlivesClaim(m)
  <2>1. local[m].written \in BOOLEAN
    BY DEF TypeOK, Local
  <2>2. /\ pc[m] \in {"handle", "finish"} /\ UNCHANGED <<row, pc, lost, ends, overtaken>>
        /\ Chosen(m, local[m].written, NoReason)
        /\ late' = late \cup {m} /\ down' = [down EXCEPT ![m] = "up"]
    BY <1>2 DEF OutlivesClaim, history
  <2> QED
    BY <2>1, <2>2, ChoiceKeepsInv
<1>3. CASE Crash(m)
  BY <1>3, EndKeepsInv DEF Crash
<1>4. CASE BeginDraining(m) \/ CloseBatcher(m)
  <2>1. /\ \E d \in {"draining", "closed"} : down' = [down EXCEPT ![m] = d]
        /\ UNCHANGED <<row, pc, err, local, lost, late, ends, overtaken>>
    BY <1>4 DEF BeginDraining, CloseBatcher, claims, history
  <2>2. TypeOK' /\ Stages' /\ ClosedDrains'
    BY <2>1 DEF TypeOK, Stages, ClosedDrains
  <2>3. \A n \in Monitor : (Attends(n)' <=> Attends(n)) /\ Result(n)' = Result(n)
    BY <2>1 DEF Attends, Runs, Result
  <2>4. OneDecides'
    BY <2>1, <2>3 DEF OneDecides, OneAttends, OutcomeStands, LastWord
  <2> QED
    BY <2>2, <2>4
<1> QED
  BY <1>1, <1>2, <1>3, <1>4

LEMMA StepRolloutInv == RolloutInv /\ [Next]_vars => RolloutInv'
<1> SUFFICES ASSUME RolloutInv, [Next]_vars PROVE RolloutInv'
  OBVIOUS
<1>1. CASE WaitForRollout
  BY <1>1, StartKeepsInv, RolloutAssumption
<1>2. ASSUME NEW m \in Monitor, Monitors(m)
      PROVE  RolloutInv'
  BY <1>2, StartKeepsInv, PrepareKeepsInv, PollKeepsInv, DecideKeepsInv, WriteKeepsInv,
     AnnounceKeepsInv DEF Monitors
<1>3. CASE UNCHANGED vars
  <2> USE <1>3 DEF vars, claims, history
  <2>1. \A m \in Monitor : (Attends(m)' <=> Attends(m)) /\ Result(m)' = Result(m)
    BY DEF Attends, Runs, Result
  <2>2. TypeOK' /\ Stages' /\ ClosedDrains'
    BY DEF RolloutInv, TypeOK, Stages, ClosedDrains
  <2>3. OneDecides'
    BY <2>1 DEF RolloutInv, OneDecides, OneAttends, OutcomeStands, LastWord
  <2> QED
    BY <2>2, <2>3 DEF RolloutInv
<1> QED
  BY <1>1, <1>2, <1>3, RowKeepsInv, TroubleKeepsInv DEF Next

-----------------------------------------------------------------------------
(* The invariant makes each property hold in its states *)

LEMMA InvAlways == Spec => []RolloutInv
BY InitRolloutInv, StepRolloutInv, PTL DEF Spec

(* What a monitor announces as recorded is the task's status and remains    *)
(* it, through claims lost before and after the last check, drains, crashes,*)
(* cancellations and the sweep, for as long as no sweep has resumed the     *)
(* rollout while a monitor whose claim lapsed after its last check had yet  *)
(* to record or announce its own end.                                       *)
THEOREM AnnouncementStands == Spec => []AnnouncedOutcome
<1>1. RolloutInv => AnnouncedOutcome
  BY DEF RolloutInv, OneDecides, LastWord, AnnouncedOutcome
<1> QED
  BY <1>1, InvAlways, PTL

(* No resumed rollout is failed by the batcher of a replica that drains.    *)
THEOREM DrainSpares == Spec => []ShutdownFailsNothing
<1>1. RolloutInv => ShutdownFailsNothing
  BY DEF RolloutInv, ClosedDrains, ShutdownFailsNothing
<1> QED
  BY <1>1, InvAlways, PTL

(* No error that only steers the polls reaches the decision, whatever Argo  *)
(* CD answered on the way.                                                  *)
THEOREM SentinelsStay == Spec => []NoSentinelEscapes
<1>1. RolloutInv => NoSentinelEscapes
  BY DEF RolloutInv, TypeOK, Err, NoSentinelEscapes
<1> QED
  BY <1>1, InvAlways, PTL

-----------------------------------------------------------------------------
(* The announcement that is owed *)

(* Another replica is free to resume the rollout.                           *)
Spare == \E n \in Monitor \ {Acceptor} : pc[n] = "idle" /\ down[n] = "up"

(* As long as nothing is announced, some monitor is sure to, or the rollout *)
(* is in progress and a replica is free to resume it, unless it was ended   *)
(* when nobody was sure to announce it: no lost claim, drain or crash, no   *)
(* takeover and no silent end of a monitor leaves a rollout to nobody       *)
(* (waitForRollout, ResumeRollout).                                         *)
OutcomeOwed ==
  ends = <<>> /\ ~orphaned =>
    (\E m \in Monitor : Bound(m)) \/ (row = "inProgress" /\ Spare)

(* A monitor stops for a lost claim or a drain only; and who drains has     *)
(* left somebody to resume.                                                 *)
LostExplained == \A m \in Monitor : err[m] = "lost" => m \in lost \/ Draining(m)
DrainsSpare == \A m \in Monitor : Attends(m) /\ ~Bound(m) => Spare

OwedInv == LostExplained /\ DrainsSpare /\ OutcomeOwed

OthersStay(m) == \A n \in Monitor \ {m} : pc'[n] = pc[n] /\ err'[n] = err[n]

LEMMA SpareIdles ==
  ASSUME RolloutInv, NEW m \in Monitor \ {Acceptor}, pc[m] = "idle"
  PROVE  ~Attends(m)
BY DEF Attends, Runs

(* One that drains before its last check still has its claim.               *)
LEMMA UnboundClaims ==
  ASSUME RolloutInv, NEW m \in Monitor, Attends(m), ~Bound(m)
  PROVE  Claims(m) /\ Draining(m) /\ pc[m] \notin {"handle", "finish"}
BY DEF RolloutInv, Stages, Attends, Bound, Claims

(* The monitor m takes a step and goes on.                                  *)
Continues(m) ==
  /\ (Attends(m) \/ Unattended(m)) /\ m \notin lost
  /\ pc'[m] \notin {"idle", "done"}
  /\ pc[m] \in {"handle", "finish"} => pc'[m] \in {"handle", "finish"}
  /\ err'[m] = "lost" => Draining(m)
  /\ row' = row \/ pc'[m] = "finish"
  /\ OthersStay(m)
  /\ UNCHANGED <<down, lost, ends, orphaned>>

LEMMA ContinuesOwed ==
  ASSUME RolloutInv, OwedInv, NEW m \in Monitor, Continues(m)
  PROVE  OwedInv'
<1>1. /\ \A n \in Monitor : Draining(n)' <=> Draining(n)
      /\ \A n \in Monitor \ {m} : (Attends(n)' <=> Attends(n)) /\ (Bound(n)' <=> Bound(n))
  BY DEF Continues, OthersStay, Draining, Attends, Runs, Bound
<1>2. Attends(m)' /\ (Bound(m)' <=> ~Draining(m) \/ pc'[m] \in {"handle", "finish"})
  BY <1>1 DEF Continues, Attends, Runs, Bound
<1>3. LostExplained'
  BY <1>1 DEF OwedInv, LostExplained, Continues, OthersStay
<1>4. Attends(m) /\ Spare => Spare'
  BY SpareIdles DEF Spare, Continues, OthersStay
<1>5. Draining(m) => Attends(m)
  BY DEF Continues, Unattended, Draining
<1>6. DrainsSpare'
  <2> SUFFICES ASSUME NEW n \in Monitor, Attends(n)', ~Bound(n)' PROVE Spare'
    BY DEF DrainsSpare
  <2>1. Attends(n) /\ ~Bound(n)
    <3>1. CASE n = m
      BY <1>2, <1>5, <3>1 DEF Continues, Bound
    <3> QED
      BY <1>1, <3>1
  <2>2. Attends(m)
    BY <2>1, UnboundClaims DEF Continues, Unattended
  <2> QED
    BY <1>4, <2>1, <2>2 DEF OwedInv, DrainsSpare
<1>7. OutcomeOwed'
  <2>1. CASE Bound(m)'
    BY <2>1 DEF OutcomeOwed
  <2>2. CASE ~Bound(m)'
    <3>1. Draining(m) /\ Attends(m) /\ ~Bound(m) /\ row' = row
      BY <1>2, <1>5, <2>2 DEF Continues, Bound
    <3> QED
      BY <1>1, <1>4, <3>1 DEF OwedInv, OutcomeOwed, Continues
  <2> QED
    BY <2>1, <2>2
<1> QED
  BY <1>3, <1>6, <1>7 DEF OwedInv

(* The monitor m ends.                                                      *)
Leaves(m) ==
  /\ pc'[m] = "done" /\ err'[m] = "none"
  /\ lost' = lost \ {m} /\ down' = [down EXCEPT ![m] = "up"]
  /\ OthersStay(m) /\ UNCHANGED row

LEMMA LeavesOwed ==
  ASSUME RolloutInv, OwedInv, NEW m \in Monitor, Leaves(m), pc[m] # "idle" \/ m = Acceptor,
         \/ ends' # <<>>
         \/ Spare /\ NoteOrphaned /\ UNCHANGED ends
         \/ ~Bound(m) /\ UNCHANGED <<ends, orphaned>>
  PROVE  OwedInv'
<1>0. down \in [Monitor -> {"up", "draining", "closed"}]
  BY DEF RolloutInv, TypeOK
<1>1. /\ ~Attends(m)' /\ ~Bound(m)'
      /\ \A n \in Monitor \ {m} : /\ Attends(n)' <=> Attends(n)
                                  /\ Draining(n)' <=> Draining(n)
                                  /\ Bound(n)' <=> Bound(n)
  BY <1>0 DEF Leaves, OthersStay, Attends, Runs, Draining, Bound
<1>2. Spare => Spare'
  <2> SUFFICES ASSUME NEW n \in Monitor \ {Acceptor}, pc[n] = "idle", down[n] = "up" PROVE Spare'
    BY DEF Spare
  <2> QED
    BY <1>0 DEF Spare, Leaves, OthersStay
<1>3. LostExplained'
  BY <1>1 DEF OwedInv, LostExplained, Leaves, OthersStay
<1>4. DrainsSpare'
  BY <1>1, <1>2 DEF OwedInv, DrainsSpare
<1>5. OutcomeOwed'
  <2>1. CASE ends' # <<>>
    BY <2>1 DEF OutcomeOwed
  <2>2. CASE Spare /\ NoteOrphaned
    BY <1>2, <2>2 DEF NoteOrphaned, OutcomeOwed
  <2>3. CASE ~Bound(m) /\ UNCHANGED <<ends, orphaned>>
    BY <1>1, <1>2, <2>3 DEF OwedInv, OutcomeOwed, Leaves
  <2> QED
    BY <2>1, <2>2, <2>3
<1> QED
  BY <1>3, <1>4, <1>5 DEF OwedInv

(* The polls go on, or return to the last check.                            *)
LEMMA PollContinues ==
  ASSUME RolloutInv, NEW m \in Monitor,
         Poll(m) \/ validateDesiredImages(m) \/ Deadline(m)
  PROVE  Continues(m)
<1>0. /\ pc \in [Monitor -> Place] /\ err \in [Monitor -> Err]
      /\ Attends(m) /\ m \notin lost /\ err[m] = "none" /\ pc[m] \in {"poll", "validate"}
      /\ UNCHANGED <<row, down, lost, ends, orphaned>>
  BY Running, Before
  DEF RolloutInv, TypeOK, Poll, validateDesiredImages, Deadline, claims, history
<1> DEFINE Onwards == /\ pc'[m] \in {"poll", "validate", "decide"} /\ OthersStay(m)
                      /\ err'[m] = "lost" => Draining(m)
<1>1. ASSUME NEW l, NEW e, e = "lost" => Draining(m), Returns(m, pc[m], l, e)
      PROVE  Onwards
  <2>1. pc' = [pc EXCEPT ![m] = "decide"]
    BY <1>1 DEF Returns, Goes
  <2>2. /\ \A n \in Monitor \ {m} : err'[n] = err[n]
        /\ err'[m] \in {"none", e}
    BY <1>0, <1>1 DEF Returns, With
  <2> QED
    BY <1>0, <1>1, <2>1, <2>2 DEF OthersStay
<1>2. ASSUME NEW l, NEW e, e # "lost", Iterated(m, pc[m], l, e)
      PROVE  Onwards
  <2>1. CASE Returns(m, pc[m], l, e)
    BY <1>1, <1>2, <2>1
  <2>2. CASE Goes(m, pc[m], "poll") /\ UNCHANGED err
    BY <1>0, <2>2 DEF Goes, OthersStay
  <2> QED
    BY <1>2, <2>1, <2>2 DEF Iterated
<1>3. ASSUME Poll(m) PROVE Onwards
  <2>0. pc[m] = "poll"
    BY <1>3 DEF Poll
  <2>1. CASE \/ Returns(m, "poll", local[m], "superseded")
             \/ Abandoned(m) /\ Returns(m, "poll", local[m], "lost")
    <3>1. Abandoned(m) => Draining(m)
      BY <1>0 DEF Abandoned
    <3>2. \/ Returns(m, pc[m], local[m], "superseded")
          \/ Draining(m) /\ Returns(m, pc[m], local[m], "lost")
      BY <2>0, <2>1, <3>1
    <3> QED
      BY <1>1, <3>2
  <2>2. ASSUME NEW e \in FetchError, Iterated(m, "poll", local[m], e)
        PROVE  Onwards
    BY <1>2, <2>0, <2>2 DEF FetchError
  <2>3. ASSUME NEW app \in Apps, NEW l, Evaluate(m, app, l)
        PROVE  Onwards
    <3>1. checkRolloutStatus(app, l.saved) # "lost"
      BY DEF checkRolloutStatus
    <3>2. CASE Iterated(m, "poll", l, checkRolloutStatus(app, l.saved))
      BY <1>2, <2>0, <3>1, <3>2
    <3>3. CASE Goes(m, "poll", "validate") /\ UNCHANGED err
      BY <1>0, <3>3 DEF Goes, OthersStay
    <3> QED
      BY <2>3, <3>2, <3>3 DEF Evaluate
  <2> QED
    BY <1>3, <2>1, <2>2, <2>3 DEF Poll
<1>4. ASSUME validateDesiredImages(m) PROVE Onwards
  <2>1. pc[m] = "validate" /\ \E e \in {"image", "force"} : Iterated(m, "validate", local[m], e)
    BY <1>4 DEF validateDesiredImages
  <2> QED
    BY <1>2, <2>1
<1>5. ASSUME Deadline(m) PROVE Onwards
  <2>1. Returns(m, pc[m], local[m], "deadline")
    BY <1>5 DEF Deadline
  <2> QED
    BY <1>1, <2>1
<1> QED
  <2>1. Onwards
    BY <1>3, <1>4, <1>5
  <2> QED
    BY <1>0, <2>1 DEF Continues

LEMMA MonitorContinues ==
  ASSUME RolloutInv, OwedInv, NEW m \in Monitor,
         \/ m = Acceptor /\ WaitForRollout
         \/ ResumeRollout(m) \/ Check(m) \/ ConfirmApplication(m) \/ UpdateIfNeeded(m)
         \/ SetTaskStatus(m)
  PROVE  Continues(m)
<1> USE DEF Goes, With, Continues, OthersStay, claims, history
<1>0. pc \in [Monitor -> Place] /\ err \in [Monitor -> Err]
  BY DEF RolloutInv, TypeOK
<1>1. CASE m = Acceptor /\ WaitForRollout
  <2>1. Attends(m) /\ m \notin lost /\ err[m] = "none"
    BY <1>1, Before DEF WaitForRollout, Attends, Runs
  <2> QED
    BY <1>0, <1>1, <2>1 DEF WaitForRollout
<1>2. CASE ResumeRollout(m)
  <2>1. Unattended(m) /\ pc[m] = "idle" /\ m \notin lost /\ err[m] = "none"
    BY <1>2, Before DEF ResumeRollout
  <2> QED
    BY <1>0, <1>2, <2>1 DEF ResumeRollout
<1>3. CASE Check(m)
  <2>1. pc[m] = "check" /\ Attends(m) /\ m \notin lost /\ err[m] = "none"
    BY <1>3, Running, Before DEF Check
  <2> QED
    BY <1>0, <1>3, <2>1 DEF Check
<1>4. CASE ConfirmApplication(m)
  <2>1. pc[m] = "confirm" /\ Attends(m) /\ m \notin lost /\ err[m] = "none"
    BY <1>4, Running, Before DEF ConfirmApplication
  <2> QED
    BY <1>0, <1>4, <2>1 DEF ConfirmApplication, FetchError
<1>5. CASE UpdateIfNeeded(m)
  <2>1. pc[m] = "writeBack" /\ Attends(m) /\ m \notin lost /\ err[m] = "none"
    BY <1>5, Running, Before DEF UpdateIfNeeded
  <2> QED
    BY <1>0, <1>5, <2>1 DEF UpdateIfNeeded, Abandoned
<1>6. CASE SetTaskStatus(m)
  <2>1. pc[m] = "handle" /\ Attends(m) /\ m \notin lost
    BY <1>6, Running DEF SetTaskStatus
  <2>2. err' = [err EXCEPT ![m] = "none"]
    BY <1>6 DEF SetTaskStatus, Chosen
  <2> QED
    BY <1>0, <1>6, <2>1, <2>2 DEF SetTaskStatus
<1> QED
  BY <1>1, <1>2, <1>3, <1>4, <1>5, <1>6

LEMMA DecideOwed ==
  ASSUME RolloutInv, OwedInv, NEW m \in Monitor, Decide(m)
  PROVE  OwedInv'
<1>0. /\ pc \in [Monitor -> Place] /\ err \in [Monitor -> Err] /\ pc[m] = "decide"
      /\ UNCHANGED <<row, ends, orphaned>>
  BY DEF RolloutInv, TypeOK, Decide, Goes, history
<1> DEFINE silent == m \in lost \/ (err[m] # "superseded" /\ (Draining(m) \/ err[m] = "lost"))
<1>1. CASE silent /\ Goes(m, "decide", "done") /\ Ended(m)
  <2>1. Leaves(m)
    BY <1>0, <1>1 DEF Leaves, Goes, Ended, With, OthersStay
  <2>2. m \in lost \/ Draining(m)
    BY <1>1 DEF OwedInv, LostExplained
  <2>3. ~Bound(m)
    BY <1>0, <2>2 DEF Bound, Attends
  <2> QED
    BY <1>0, <2>1, <2>3, LeavesOwed
<1>2. CASE ~silent /\ Goes(m, "decide", "handle") /\ UNCHANGED <<err, local, down, claims>>
  <2>1. Attends(m) /\ m \notin lost
    BY <1>0, <1>2 DEF Attends, Runs
  <2>2. err[m] = "lost" => Draining(m)
    BY <2>1 DEF OwedInv, LostExplained
  <2>3. Continues(m)
    BY <1>0, <1>2, <2>1, <2>2 DEF Continues, Goes, OthersStay, claims
  <2> QED
    BY <2>3, ContinuesOwed
<1> QED
  BY <1>1, <1>2 DEF Decide

LEMMA EndsOwed ==
  ASSUME RolloutInv, OwedInv, NEW m \in Monitor, Announce(m) \/ Crash(m)
  PROVE  OwedInv'
<1>0. pc \in [Monitor -> Place] /\ err \in [Monitor -> Err] /\ UNCHANGED row
  BY DEF RolloutInv, TypeOK, Announce, Crash
<1>1. CASE Announce(m)
  <2>1. Leaves(m) /\ pc[m] # "idle"
    BY <1>0, <1>1 DEF Announce, Leaves, Goes, Ended, With, OthersStay
  <2>2. ends' # <<>>
    <3>1. ends \in Seq([status : Outcome, written : BOOLEAN])
      BY DEF RolloutInv, TypeOK
    <3>2. PICK x : ends' = Append(ends, x)
      BY <1>1 DEF Announce
    <3> QED
      BY <3>1, <3>2
  <2> QED
    BY <2>1, <2>2, LeavesOwed
<1>2. CASE Crash(m)
  <2>1. Leaves(m) /\ Attends(m)
    BY <1>0, <1>2 DEF Crash, Leaves, Ended, With, OthersStay
  <2>2. Spare /\ (pc[m] # "idle" \/ m = Acceptor)
    BY <1>2 DEF Crash, Spared, Spare, Attends, Runs
  <2>3. NoteOrphaned /\ UNCHANGED ends
    BY <1>2 DEF Crash
  <2> QED
    BY <2>1, <2>2, <2>3, LeavesOwed
<1> QED
  BY <1>1, <1>2

LEMMA TroubleOwed ==
  ASSUME RolloutInv, OwedInv, NEW m \in Monitor,
         LoseClaim(m) \/ OutlivesClaim(m) \/ BeginDraining(m) \/ CloseBatcher(m)
  PROVE  OwedInv'
<1>0. /\ pc \in [Monitor -> Place] /\ err \in [Monitor -> Err]
      /\ down \in [Monitor -> {"up", "draining", "closed"}]
  BY DEF RolloutInv, TypeOK
<1>1. CASE LoseClaim(m) \/ BeginDraining(m)
  <2>1. PICK n \in Monitor \ {m, Acceptor} : pc[n] = "idle" /\ down[n] = "up"
    BY <1>1 DEF LoseClaim, BeginDraining, Spared
  <2>2. pc'[n] = "idle" /\ down'[n] = "up"
    BY <1>0, <1>1, <2>1 DEF LoseClaim, BeginDraining
  <2>3. Spare'
    BY <2>1, <2>2 DEF Spare
  <2>4. LostExplained'
    BY <1>0, <1>1 DEF OwedInv, LostExplained, LoseClaim, BeginDraining, With, Draining, claims
  <2>5. OutcomeOwed'
    BY <1>1, <2>3 DEF LoseClaim, BeginDraining, NoteOrphaned, OutcomeOwed
  <2> QED
    BY <2>3, <2>4, <2>5 DEF OwedInv, DrainsSpare
<1>2. CASE OutlivesClaim(m)
  <2>1. /\ UNCHANGED <<row, pc, lost, ends, orphaned>> /\ down' = [down EXCEPT ![m] = "up"]
        /\ err' = [err EXCEPT ![m] = "none"] /\ pc[m] \in {"handle", "finish"}
    BY <1>2 DEF OutlivesClaim, Chosen, With, history
  <2>2. Spare => Spare'
    BY <1>0, <2>1 DEF Spare
  <2>3. \A n \in Monitor : /\ Attends(n)' <=> Attends(n)
                           /\ n # m => (Draining(n)' <=> Draining(n))
    BY <1>0, <2>1 DEF Attends, Runs, Draining
  <2>4. \A n \in Monitor : Bound(n)' <=> Bound(n)
    BY <2>1, <2>3 DEF Bound
  <2>5. LostExplained'
    BY <1>0, <2>1, <2>3 DEF OwedInv, LostExplained
  <2> QED
    BY <2>1, <2>2, <2>3, <2>4, <2>5 DEF OwedInv, DrainsSpare, OutcomeOwed
<1>3. CASE CloseBatcher(m)
  <2>1. UNCHANGED <<row, pc, err, lost, ends, orphaned>>
        /\ \A n \in Monitor : (down'[n] = "up" <=> down[n] = "up")
    BY <1>0, <1>3 DEF CloseBatcher, claims, history
  <2>2. \A n \in Monitor : (Attends(n)' <=> Attends(n)) /\ (Draining(n)' <=> Draining(n))
    BY <2>1 DEF Attends, Runs, Draining
  <2>3. Spare' <=> Spare
    BY <2>1 DEF Spare
  <2>4. \A n \in Monitor : Bound(n)' <=> Bound(n)
    BY <2>1, <2>2 DEF Bound
  <2> QED
    BY <2>1, <2>2, <2>3, <2>4 DEF OwedInv, LostExplained, DrainsSpare, OutcomeOwed
<1> QED
  BY <1>1, <1>2, <1>3

LEMMA RowOwed ==
  ASSUME OwedInv, Supersede \/ ProcessObsoleteTasks \/ UNCHANGED vars
  PROVE  OwedInv'
<1>1. UNCHANGED <<pc, err, down, lost, ends>>
  BY DEF Supersede, ProcessObsoleteTasks, vars, claims
<1>2. /\ \A n \in Monitor : (Attends(n)' <=> Attends(n)) /\ (Draining(n)' <=> Draining(n))
      /\ \A n \in Monitor : Bound(n)' <=> Bound(n)
      /\ Spare' <=> Spare
  BY <1>1 DEF Attends, Runs, Draining, Bound, Spare
<1>3. OutcomeOwed'
  <2>1. CASE Supersede \/ ProcessObsoleteTasks
    BY <1>1, <2>1 DEF Supersede, ProcessObsoleteTasks, NoteOrphaned, OutcomeOwed
  <2>2. CASE UNCHANGED vars
    BY <1>1, <1>2, <2>2 DEF vars, history, OwedInv, OutcomeOwed
  <2> QED
    BY <2>1, <2>2
<1> QED
  BY <1>1, <1>2, <1>3 DEF OwedInv, LostExplained, DrainsSpare

LEMMA StepOwed ==
  ASSUME RolloutInv, OwedInv, [Next]_vars
  PROVE  OwedInv'
<1>1. CASE WaitForRollout
  BY <1>1, MonitorContinues, ContinuesOwed, RolloutAssumption
<1>2. ASSUME NEW m \in Monitor, Monitors(m)
      PROVE  OwedInv'
  BY <1>2, MonitorContinues, PollContinues, ContinuesOwed, DecideOwed, EndsOwed DEF Monitors
<1>3. ASSUME NEW m \in Monitor,
             \/ LoseClaim(m) \/ OutlivesClaim(m) \/ Crash(m)
             \/ BeginDraining(m) \/ CloseBatcher(m)
      PROVE  OwedInv'
  BY <1>3, TroubleOwed, EndsOwed
<1>4. CASE Supersede \/ ProcessObsoleteTasks \/ UNCHANGED vars
  BY <1>4, RowOwed
<1> QED
  BY <1>1, <1>2, <1>3, <1>4 DEF Next

(* For any number of monitors and polls, through claims lost and overtaken, *)
(* drains, crashes, cancellations and failing reads and writes, the         *)
(* announcement of a rollout is owed until it comes.                        *)
THEOREM AnnouncementIsOwed == Spec => []OutcomeOwed
<1>1. Init => OwedInv
  <2> SUFFICES ASSUME Init PROVE OwedInv
    OBVIOUS
  <2>1. Attends(Acceptor) /\ ~Draining(Acceptor)
    BY RolloutAssumption DEF Init, Attends, Runs, Draining
  <2> QED
    BY <2>1, RolloutAssumption
    DEF Init, OwedInv, LostExplained, DrainsSpare, OutcomeOwed, Bound, Draining
<1>2. OwedInv => OutcomeOwed
  BY DEF OwedInv
<1>3. RolloutInv /\ OwedInv /\ [Next]_vars => OwedInv'
  BY StepOwed
<1> QED
  BY <1>1, <1>2, <1>3, InvAlways, PTL DEF Spec

-----------------------------------------------------------------------------
(* Reports *)

Trees == {Tree(d) : d \in Details} \cup {NoTree}

LEMMA ReportShape ==
  ASSUME RolloutInv, NEW m \in Monitor, Reported(m)
  PROVE  \E app \in Apps \cup {NoApp}, d \in Details, tree \in Trees :
           Reason(m) = ReportOf(app, d, tree)
<1>1. Reason(m) \in Report
  BY DEF RolloutInv, TypeOK, Local, Reported, Reason
<1> QED
  BY <1>1 DEF Report, ReportsOn, Trees

(* A known tree's problem nodes are in every report, and the nodes still    *)
(* progressing in the report of an application that progresses.             *)
LEMMA CauseListed ==
  ASSUME NEW app, NEW d, NEW tree, tree.known, NEW n \in tree.nodes,
         \/ isProblemHealthStatus(n.health)
         \/ /\ n.health = "Progressing" /\ app.health = "Progressing"
            /\ GetRolloutStatus(app) # "notSynced"
  PROVE  \E line \in GetRolloutMessage(app, d, tree) : line[2] = n.name /\ line[3] = n.health
<1>1. CASE isProblemHealthStatus(n.health)
  <2> DEFINE line == <<"unhealthyResources", n.name, n.health>>
  <2>1. line \in Problems(tree.nodes)
    BY <1>1 DEF Problems, Lines, Health
  <2>2. line \in GetRolloutMessage(app, d, tree)
    BY <2>1 DEF GetRolloutMessage, buildFailureDiagnostics, problemResourceLines, buildSyncFailureReport
  <2> QED
    BY <2>2
<1>2. CASE /\ n.health = "Progressing" /\ app.health = "Progressing"
           /\ GetRolloutStatus(app) # "notSynced"
  <2> DEFINE line == <<"stillProgressing", n.name, n.health>>
  <2>1. line \in ListProgressingNodes(tree)
    BY <1>2 DEF ListProgressingNodes, Lines, Health
  <2>2. line \in GetRolloutMessage(app, d, tree)
    BY <1>2, <2>1 DEF GetRolloutMessage, buildFailureDiagnostics
  <2> QED
    BY <2>2
<1> QED
  BY <1>1, <1>2

(* For every state of an application and every tree, the report of a        *)
(* failed rollout names its cause.                                          *)
THEOREM CausesAreReported == Spec => []CauseReported
<1>1. ASSUME RolloutInv, NEW m \in Monitor, Reported(m), Reason(m).tree.known,
             NEW n \in Reason(m).tree.nodes,
             \/ isProblemHealthStatus(n.health)
             \/ /\ n.health = "Progressing" /\ Reason(m).app.health = "Progressing"
                /\ GetRolloutStatus(Reason(m).app) # "notSynced"
      PROVE  \E line \in Reason(m).lines : line[2] = n.name /\ line[3] = n.health
  <2>1. PICK app \in Apps \cup {NoApp}, d \in Details, tree \in Trees :
          Reason(m) = ReportOf(app, d, tree)
    BY <1>1, ReportShape
  <2>2. /\ Reason(m).app = app /\ Reason(m).tree = tree
        /\ Reason(m).lines = GetRolloutMessage(app, d, tree)
    BY <2>1 DEF ReportOf
  <2> QED
    BY <1>1, <2>2, CauseListed
<1>2. RolloutInv => CauseReported
  BY <1>1 DEF CauseReported
<1> QED
  BY <1>2, InvAlways, PTL

(* newRevisions recovers the revisions from either encoding.                *)
LEMMA RevisionsDecoded ==
  ASSUME NEW r, NEW s, Encodes(r, s)
  PROVE  newRevisions(r) = s
<1>0. s \in Seq(STRING)
  BY Zenon DEF Encodes
<1>1. CASE r.list = s /\ r.revision = "none"
  BY <1>1 DEF newRevisions
<1>2. CASE r.list = s /\ Len(s) > 1
  <2>1. ~(Len(r.list) <= 1)
    BY <1>0, <1>2
  <2> QED
    BY <1>2, <2>1, Zenon DEF newRevisions
<1>3. CASE Len(s) = 1 /\ r.revision = s[1] /\ s[1] # "none" /\ r.list = <<>>
  <2>1. Len(<<>>) = 0
    OBVIOUS
  <2>2. Len(r.list) = 0
    BY <1>3, <2>1, Zenon
  <2>3. Len(r.list) <= 1
    BY <2>2
  <2>4. newRevisions(r) = <<s[1]>>
    BY <1>3, <2>3, Zenon DEF newRevisions
  <2>5. s = <<s[1]>>
    BY <1>0, <1>3
  <2> QED
    BY <2>4, <2>5
<1> QED
  BY <1>1, <1>2, <1>3, Zenon DEF Encodes

(* A line belongs to the section it was listed in.                          *)
LEMMA HealthSection ==
  ASSUME NEW section, NEW S, NEW line \in Lines(section, S, Health)
  PROVE  line[1] = section /\ \E r \in S : line[2] = r.name
BY DEF Lines

LEMMA StatusSection ==
  ASSUME NEW section, NEW S, NEW line \in Lines(section, S, Status)
  PROVE  line[1] = section
BY DEF Lines

LEMMA OutcomeSection ==
  ASSUME NEW section, NEW S, NEW line \in Lines(section, S, syncResultOutcome)
  PROVE  line[1] = section
BY DEF Lines

(* What each part of a report lists.                                        *)
LEMMA Sections ==
  ASSUME NEW d, NEW tree, NEW line
  PROVE  /\ line \in ListUnhealthyResources(d) => line[1] = "resources"
         /\ line \in listOutOfSyncResources(d) => line[1] = "outOfSyncResources"
         /\ line \in listFailedSyncResultResources(d) => line[1] = "failedResources"
         /\ line \in Problems(tree.nodes) => line[1] = "unhealthyResources"
         /\ line \in Problems(d.resources) => line[1] = "unhealthyResources"
         /\ line \in ListProgressingNodes(tree) => line[1] = "stillProgressing"
         /\ line \in Operation(d) => line[1] = "syncOperation"
         /\ line \in buildDriftExplanation(d) => line[1] = "drift"
<1>1. line \in ListUnhealthyResources(d) => line[1] = "resources"
  BY HealthSection DEF ListUnhealthyResources
<1>2. line \in listOutOfSyncResources(d) => line[1] = "outOfSyncResources"
  BY StatusSection DEF listOutOfSyncResources
<1>3. line \in listFailedSyncResultResources(d) => line[1] = "failedResources"
  BY OutcomeSection DEF listFailedSyncResultResources
<1>4. /\ line \in Problems(tree.nodes) => line[1] = "unhealthyResources"
      /\ line \in Problems(d.resources) => line[1] = "unhealthyResources"
  BY HealthSection DEF Problems
<1>5. line \in ListProgressingNodes(tree) => line[1] = "stillProgressing"
  BY HealthSection DEF ListProgressingNodes
<1>6. line \in Operation(d) => line[1] = "syncOperation"
  BY DEF Operation
<1>7. line \in buildDriftExplanation(d) => line[1] = "drift"
  BY DEF buildDriftExplanation
<1> QED
  BY <1>1, <1>2, <1>3, <1>4, <1>5, <1>6, <1>7

LEMMA DiagnosticsLines ==
  ASSUME NEW app, NEW d, NEW tree, NEW fallBack \in BOOLEAN,
         NEW line \in buildFailureDiagnostics(app, d, tree, fallBack)
  PROVE  \/ line \in Operation(d)
         \/ line \in listFailedSyncResultResources(d)
         \/ tree.known /\ line \in Problems(tree.nodes)
         \/ ~tree.known /\ fallBack /\ line \in Problems(d.resources)
         \/ line \in ListProgressingNodes(tree)
BY Zenon DEF buildFailureDiagnostics, problemResourceLines

LEMMA SyncFailureLines ==
  ASSUME NEW d, NEW tree, NEW line \in buildSyncFailureReport(d, tree)
  PROVE  \/ line \in buildDriftExplanation(d)
         \/ line[1] = "syncErrors"
         \/ line \in Problems(tree.nodes)
         \/ line \in listOutOfSyncResources(d)
         \/ line \in listFailedSyncResultResources(d)
         \/ line \in Operation(d)
<1>1. line \in {<<"syncErrors", e, "condition">> : e \in d.errors} => line[1] = "syncErrors"
  OBVIOUS
<1> QED
  BY <1>1, Zenon DEF buildSyncFailureReport

(* Where a line of a report comes from                                      *)
LEMMA ReportLines ==
  ASSUME NEW app, NEW d, NEW tree, NEW line \in GetRolloutMessage(app, d, tree)
  PROVE  \/ \E fallBack \in BOOLEAN :
              /\ line \in buildFailureDiagnostics(app, d, tree, fallBack)
              /\ GetRolloutStatus(app) = "notAvailable" <=> fallBack
         \/ GetRolloutStatus(app) = "notSynced" /\ line \in buildSyncFailureReport(d, tree)
         \/ /\ GetRolloutStatus(app) \notin {"notAvailable", "notSynced"}
            /\ line \in ListUnhealthyResources(d)
<1>1. CASE GetRolloutStatus(app) = "notAvailable"
  BY <1>1 DEF GetRolloutMessage
<1>2. CASE GetRolloutStatus(app) = "notSynced"
  BY <1>2 DEF GetRolloutMessage
<1>3. CASE GetRolloutStatus(app) \notin {"notAvailable", "notSynced"}
  BY <1>3 DEF GetRolloutMessage
<1> QED
  BY <1>1, <1>2, <1>3

LEMMA DriftLine ==
  ASSUME NEW app, NEW d, NEW tree,
         NEW line \in GetRolloutMessage(app, d, tree), line[1] = "drift"
  PROVE  line \in buildDriftExplanation(d)
<1>1. \A fallBack \in BOOLEAN : line \notin buildFailureDiagnostics(app, d, tree, fallBack)
  BY DiagnosticsLines, Sections
<1>2. line \notin ListUnhealthyResources(d)
  BY Sections
<1>3. line \in buildSyncFailureReport(d, tree)
  BY <1>1, <1>2, ReportLines
<1> QED
  BY <1>3, SyncFailureLines, Sections

(* The explanation of a drift is true for any revisions of any number of    *)
(* sources, however Argo CD reports them.                                   *)
THEOREM DriftsAreReal == Spec => []DriftIsReal
<1>1. ASSUME RolloutInv, NEW m \in Monitor, Reported(m),
             NEW line \in Reason(m).lines, line[1] = "drift"
      PROVE  line[3] = "notConverged" <=> Reason(m).d.appliedAt = Reason(m).d.comparedAt
  <2>1. PICK app \in Apps \cup {NoApp}, d \in Details, tree \in Trees :
          Reason(m) = ReportOf(app, d, tree)
    BY <1>1, ReportShape
  <2>2. Reason(m).d = d /\ Reason(m).lines = GetRolloutMessage(app, d, tree)
    BY <2>1 DEF ReportOf
  <2>3. line \in buildDriftExplanation(d)
    BY <1>1, <2>2, DriftLine
  <2>4. newRevisions(d.applied) = d.appliedAt /\ newRevisions(d.compared) = d.comparedAt
    BY ReportAssumption, RevisionsDecoded
  <2>5. line[3] = IF d.appliedAt = d.comparedAt THEN "notConverged" ELSE "moved"
    BY <2>3, <2>4 DEF buildDriftExplanation
  <2> QED
    BY <2>2, <2>5
<1>2. RolloutInv => DriftIsReal
  BY <1>1 DEF DriftIsReal
<1> QED
  BY <1>2, InvAlways, PTL

(* The outcome shown for a failed resource is the failure, not the word of  *)
(* whichever of the sync and the hook succeeded.                            *)
LEMMA FailureShown ==
  ASSUME NEW d \in Details, NEW line \in listFailedSyncResultResources(d)
  PROVE  line[3] \notin {"none", "Synced", "Running", "Succeeded"}
<1>1. PICK r \in d.results :
        /\ line = <<"failedResources", r.name, syncResultOutcome(r)>>
        /\ isTerminalFailurePhase(r.hookPhase) \/ r.status = "SyncFailed"
  BY DEF listFailedSyncResultResources, Lines
<1>2. /\ r.status \in {"none", "Synced", "SyncFailed", "Pruned", "PruneSkipped"}
      /\ isTerminalFailurePhase(r.hookPhase) \/ r.status = "SyncFailed"
  BY <1>1, ReportAssumption
<1>3. CASE r.status \notin {"none", "Synced"}
  BY <1>1, <1>2, <1>3 DEF syncResultOutcome
<1>4. CASE r.status \in {"none", "Synced"}
  <2>1. isTerminalFailurePhase(r.hookPhase)
    BY <1>2, <1>4
  <2>2. syncResultOutcome(r) = r.hookPhase
    BY <1>4, <2>1 DEF syncResultOutcome, isTerminalFailurePhase
  <2>3. line[3] = r.hookPhase
    BY <1>1, <2>2
  <2> QED
    BY <2>1, <2>3, Zenon DEF isTerminalFailurePhase
<1> QED
  BY <1>3, <1>4

(* Every report is consistent, whatever the resources, the results and the  *)
(* application's state: the fallback to the top-level resources is taken    *)
(* only where they are not listed anyway.                                   *)
THEOREM ReportsAreConsistent == Spec => []ReportConsistent
<1>1. ASSUME RolloutInv, NEW m \in Monitor, Reported(m)
      PROVE  /\ ~Reason(m).tree.known =>
                  \A r \in Reason(m).d.resources :
                    ~({"resources", "unhealthyResources"} \subseteq
                        {line[1] : line \in {l \in Reason(m).lines : l[2] = r.name}})
             /\ \A line \in Reason(m).lines :
                  line[1] = "failedResources" =>
                    line[3] \notin {"none", "Synced", "Running", "Succeeded"}
  <2>1. PICK app \in Apps \cup {NoApp}, d \in Details, tree \in Trees :
          Reason(m) = ReportOf(app, d, tree)
    BY <1>1, ReportShape
  <2>2. /\ Reason(m).tree = tree /\ Reason(m).d = d
        /\ Reason(m).lines = GetRolloutMessage(app, d, tree)
    BY <2>1 DEF ReportOf
  <2>3. ASSUME ~tree.known, NEW l \in GetRolloutMessage(app, d, tree), l[1] = "resources",
               NEW k \in GetRolloutMessage(app, d, tree), k[1] = "unhealthyResources"
        PROVE  FALSE
    <3>1. tree.nodes = {}
      BY <2>3 DEF Trees, Tree, NoTree
    <3>2. k \notin Problems(tree.nodes)
      BY <3>1, HealthSection DEF Problems
    <3>3. GetRolloutStatus(app) \notin {"notAvailable", "notSynced"}
      BY <2>3, ReportLines, DiagnosticsLines, SyncFailureLines, Sections
    <3> QED
      BY <2>3, <3>2, <3>3, ReportLines, DiagnosticsLines, Sections
  <2>4. ASSUME NEW line \in GetRolloutMessage(app, d, tree), line[1] = "failedResources"
        PROVE  line \in listFailedSyncResultResources(d)
    BY <2>4, ReportLines, DiagnosticsLines, SyncFailureLines, Sections
  <2> QED
    BY <2>2, <2>3, <2>4, FailureShown
<1>2. RolloutInv => ReportConsistent
  BY <1>1 DEF ReportConsistent
<1> QED
  BY <1>2, InvAlways, PTL
=============================================================================
