-------------------------- MODULE Playback_proofs --------------------------
(***************************************************************************)
(* Proofs about the player: for queues of any length, any number of queue  *)
(* edits, and every interleaving of commands, reports of the pipeline,     *)
(* failing writes, shutdowns and crashes.                                  *)
(*                                                                         *)
(* A handler is an operator on worlds, so the invariant (Sound) is one of  *)
(* worlds, and every operator of PlaybackOwner has a lemma: from a sound   *)
(* world it leads to a sound one by a step that may be taken (Step). Most  *)
(* operators write nothing and stay where they are (Near), which is all    *)
(* there is to say of them.                                                *)
(***************************************************************************)
EXTENDS PlaybackSystem, PlaybackStore_proofs, FiniteSetTheorems

SessionFields == {"cur", "pos", "rev", "st"}
PlanFields == {"occ", "to", "status", "err", "keep", "resolve"}
PipeFields == {"live", "ep", "op", "occ", "pos", "opened", "said", "next"}
WorldFields == {"db", "ses", "pv", "play", "plan", "inn", "gate", "pipe", "task", "effect",
                "late", "mail", "ing", "ok"}

-----------------------------------------------------------------------------
(* The session in memory. It is empty while the disk could not be read;    *)
(* then nothing is done with it.                                           *)
Alive(w) == w.ses.cur # NoOcc \/ w.pv # NoPreview
Shape(w) ==
  /\ DOMAIN w = WorldFields
  /\ DOMAIN w.ses = SessionFields
  /\ DOMAIN w.inn = {"dirty", "ret", "chk", "restore"} /\ w.inn.restore \in {"ok", "error"}
  /\ DOMAIN w.ing = {"occ", "pos", "pend"}
  /\ w.pipe = NoPipe \/ DOMAIN w.pipe = PipeFields
  /\ w.pv = NoPreview \/ Audition(w.pv)
Session(w) ==
  /\ w.ses.rev \in Nat
  /\ IF w.ses.cur = NoOcc THEN w.ses.st = "idle" /\ w.ses.pos = 0 ELSE w.ses.st \in Stirring
Agrees(w) ==
  w.inn.restore = "ok" \/ w.ses.cur # NoOcc => w.db.cur = w.ses.cur /\ w.db.rev = w.ses.rev

(* The preview in memory is the one on the disk.                           *)
Previewed(w) ==
  IF w.pv = NoPreview THEN w.inn.restore = "ok" => w.db.aud = NoAud
  ELSE /\ w.inn.restore = "ok"
       /\ w.db.aud # NoAud /\ w.db.aud.id = w.pv.id /\ w.db.aud.saved = w.pv.saved
       /\ w.pv.saved.cur = w.ses.cur

(* A departure that waits leads to a row that exists, and from the row the *)
(* main session is on. If it closes no attempt, none is open.              *)
IsPlan(d, p) ==
  /\ DOMAIN p = PlanFields /\ DOMAIN p.to = SessionFields
  /\ p.occ # NoOcc /\ p.to.cur \in ToSet(d.ord) /\ p.to.st \in Stirring
  /\ p.keep => d.act = NoOcc /\ p.occ \in d.out
Here(w, p) == w.pv = NoPreview /\ p.occ = w.ses.cur /\ p.to.rev = w.ses.rev
Waiting(w) == w.plan # NoPlan => IsPlan(w.db, w.plan) /\ Here(w, w.plan)

(* The successor that a boundary was claimed for is still there.           *)
Claimed(w) ==
  w.pipe # NoPipe /\ w.pipe.next # "none" =>
    /\ w.pv = NoPreview /\ w.pipe.occ = w.ses.cur
    /\ w.ses.cur # NoOcc /\ Successor(w.db, w.ses.cur) # NoOcc

(* Where there is nothing to play, nothing runs or reports.                *)
Silent(w) ==
  /\ w.pipe = NoPipe /\ w.task = NoTask /\ w.effect = NoTask /\ ~w.late
  /\ w.mail = <<>> /\ ~w.ing.pend
Quiet(w) == Alive(w) \/ (Silent(w) /\ w.plan = NoPlan)

Sound(w) ==
  /\ Shape(w) /\ Stored(w.db) /\ Session(w) /\ Agrees(w)
  /\ Previewed(w) /\ Waiting(w) /\ Claimed(w) /\ Quiet(w)

-----------------------------------------------------------------------------
(* What a step may do.                                                     *)
Departs(w, v) ==
  w.pv = NoPreview /\ v.pv = NoPreview /\ v.ses.rev = w.ses.rev
  /\ w.ses.cur # NoOcc /\ v.ses.cur # w.ses.cur
  => w.ses.cur \in v.db.done /\ v.db.act # w.ses.cur
Spares(w, v) ==
  w.pv # NoPreview /\ v.ses.rev = w.ses.rev =>
    IF v.pv # NoPreview THEN v.ses = w.ses /\ v.pv.saved = w.pv.saved
    ELSE v.ses.cur = w.pv.saved.cur /\ v.ses.pos = w.pv.saved.pos
Trusts(w, v) ==
  /\ v.inn.restore = "error" => w.inn.restore = "error" /\ v.db.aud = w.db.aud
  /\ v.pv # NoPreview => w.pv # NoPreview \/ "preview" \in Commands
Step(w, v) == Departs(w, v) /\ Spares(w, v) /\ Trusts(w, v)
Leads(w, v) == Sound(v) /\ Step(w, v)

(* A step that stays where it is, and changes nothing another would undo.  *)
Follows(w, v) ==
  /\ v.ses.cur = w.ses.cur /\ v.ses.rev = w.ses.rev
  /\ v.db.done = w.db.done /\ v.db.act = w.db.act
  /\ v.inn.restore = w.inn.restore /\ (v.inn.restore = "error" => v.db.aud = w.db.aud)
  /\ IF w.pv = NoPreview THEN v.pv = NoPreview
     ELSE v.ses = w.ses /\ v.pv # NoPreview /\ v.pv.saved = w.pv.saved

(* What most operators do: the disk stays as it is and the session where   *)
(* it is, audio is given up or goes on, and what is silent stays so.       *)
Near(w, v) ==
  /\ Shape(v) /\ Session(v)
  /\ v.db = w.db /\ v.inn.restore = w.inn.restore
  /\ v.ses.cur = w.ses.cur /\ v.ses.rev = w.ses.rev
  /\ IF w.pv = NoPreview THEN v.pv = NoPreview
     ELSE v.ses = w.ses /\ v.pv # NoPreview /\ v.pv.id = w.pv.id /\ v.pv.saved = w.pv.saved
  /\ v.plan = w.plan \/ v.plan = NoPlan
  /\ v.pipe # NoPipe /\ v.pipe.next # "none" =>
       w.pipe # NoPipe /\ w.pipe.next # "none" /\ v.pipe.occ = w.pipe.occ
  /\ Alive(w) \/ (Silent(w) => Silent(v))

-----------------------------------------------------------------------------
(* The relations.                                                          *)
LEMMA FollowsStep == ASSUME NEW w, NEW v, Follows(w, v) PROVE Step(w, v)
BY DEF Follows, Step, Departs, Spares, Trusts

LEMMA FollowsThenStep ==
  ASSUME NEW w, NEW u, NEW v, Follows(w, u), Step(u, v) PROVE Step(w, v)
<1>1. Departs(w, v)
  BY DEF Follows, Step, Departs
<1>2. Spares(w, v)
  BY DEF Follows, Step, Spares
<1>3. Trusts(w, v)
  BY DEF Follows, Step, Trusts
<1> QED BY <1>1, <1>2, <1>3 DEF Step

LEMMA StepThenFollows ==
  ASSUME NEW w, NEW u, NEW v, Step(w, u), Follows(u, v), w.pv = NoPreview \/ v.ses = u.ses
  PROVE  Step(w, v)
<1>1. Departs(w, v)
  BY DEF Follows, Step, Departs
<1>2. Spares(w, v)
  BY DEF Follows, Step, Spares
<1>3. Trusts(w, v)
  BY DEF Follows, Step, Trusts
<1> QED BY <1>1, <1>2, <1>3 DEF Step

(* What is near to a sound world is sound.                                 *)
LEMMA NearSound ==
  ASSUME NEW w, NEW v, Sound(w), Near(w, v) PROVE Sound(v) /\ Follows(w, v)
<1>1. Shape(v) /\ Stored(v.db) /\ Session(v) /\ Agrees(v)
  BY DEF Sound, Near, Agrees
<1>2. Alive(v) = Alive(w)
  BY DEF Near, Alive
<1>3. Previewed(v)
  BY DEF Sound, Near, Previewed
<1>4. Waiting(v)
  BY DEF Sound, Near, Waiting, IsPlan, Here
<1>5. Claimed(v)
  BY DEF Sound, Near, Claimed
<1>6. Quiet(v)
  BY <1>2 DEF Sound, Near, Quiet
<1>7. Follows(w, v)
  BY DEF Near, Follows
<1> QED BY <1>1, <1>3, <1>4, <1>5, <1>6, <1>7 DEF Sound

LEMMA NearTwice ==
  ASSUME NEW w, NEW u, NEW v, Near(w, u), Near(u, v) PROVE Near(w, v)
<1>1. Alive(u) = Alive(w)
  BY DEF Near, Alive
<1>2. IF w.pv = NoPreview THEN v.pv = NoPreview
      ELSE v.ses = w.ses /\ v.pv # NoPreview /\ v.pv.id = w.pv.id /\ v.pv.saved = w.pv.saved
  BY DEF Near
<1>3. /\ v.plan = w.plan \/ v.plan = NoPlan
      /\ v.pipe # NoPipe /\ v.pipe.next # "none" =>
           w.pipe # NoPipe /\ w.pipe.next # "none" /\ v.pipe.occ = w.pipe.occ
      /\ Alive(w) \/ (Silent(w) => Silent(v))
  BY <1>1 DEF Near
<1> QED BY <1>2, <1>3 DEF Near

LEMMA NearLeads ==
  ASSUME NEW w, NEW u, NEW v, Sound(w), Near(w, u), Leads(u, v) PROVE Leads(w, v)
BY NearSound, FollowsThenStep DEF Leads

LEMMA LeadsNear ==
  ASSUME NEW w, NEW u, NEW v, Leads(w, u), Near(u, v), w.pv = NoPreview \/ v.ses = u.ses
  PROVE  Leads(w, v)
BY NearSound, StepThenFollows DEF Leads

LEMMA NearIsStep == ASSUME NEW w, NEW v, Sound(w), Near(w, v) PROVE Leads(w, v)
BY NearSound, FollowsStep DEF Leads

LEMMA NearItself == ASSUME NEW w, Sound(w) PROVE Near(w, w)
BY DEF Sound, Near

-----------------------------------------------------------------------------
(* The operators that are near.                                            *)
(* Those that leave the session alone altogether.                          *)
Calm(w, v) ==
  /\ Shape(v) /\ v.db = w.db /\ v.ses = w.ses /\ v.pv = w.pv
  /\ v.inn.restore = w.inn.restore
  /\ v.plan = w.plan \/ v.plan = NoPlan
  /\ v.pipe # NoPipe /\ v.pipe.next # "none" =>
       w.pipe # NoPipe /\ w.pipe.next # "none" /\ v.pipe.occ = w.pipe.occ
  /\ Alive(w) \/ (Silent(w) => Silent(v))

LEMMA CalmNear ==
  ASSUME NEW w, NEW v, Sound(w), Calm(w, v) PROVE Near(w, v) /\ v.ses = w.ses
BY DEF Sound, Session, Calm, Near

LEMMA CalmIsStep == ASSUME NEW w, NEW v, Sound(w), Calm(w, v) PROVE Leads(w, v)
BY CalmNear, NearIsStep

LEMMA LeadsCalm ==
  ASSUME NEW w, NEW u, NEW v, Leads(w, u), Calm(u, v) PROVE Leads(w, v)
<1>1. Near(u, v) /\ v.ses = u.ses
  BY CalmNear DEF Leads
<1> QED BY <1>1, LeadsNear

LEMMA CalmTwice ==
  ASSUME NEW w, NEW u, NEW v, Calm(w, u), Calm(u, v) PROVE Calm(w, v)
<1>1. Alive(u) = Alive(w)
  BY DEF Calm, Alive
<1> QED BY <1>1 DEF Calm

LEMMA CalmItself == ASSUME NEW w, Shape(w) PROVE Calm(w, w)
BY DEF Calm

LEMMA ErrCalm == ASSUME NEW w, Shape(w) PROVE Calm(w, Err(w))
BY DEF Calm, Shape, WorldFields, Silent, Err

LEMMA AdvanceParts ==
  ASSUME NEW w, Shape(w), NEW v, v = Advance(w)
  PROVE  /\ Shape(v) /\ v.db = w.db /\ v.ses = w.ses /\ v.pv = w.pv /\ v.inn = w.inn
         /\ v.plan = w.plan
         /\ v.pipe # NoPipe /\ v.pipe.next # "none" =>
              w.pipe # NoPipe /\ w.pipe.next # "none" /\ v.pipe.occ = w.pipe.occ
<1> DEFINE u == AdvanceKeepingMail(w)
<1>1. /\ DOMAIN u = WorldFields /\ u.db = w.db /\ u.ses = w.ses /\ u.pv = w.pv
      /\ u.plan = w.plan /\ u.inn = w.inn /\ u.ing = w.ing
      /\ u.pipe = (IF w.pipe = NoPipe THEN w.pipe ELSE [w.pipe EXCEPT !.ep = "old"])
  BY DEF Shape, WorldFields, AdvanceKeepingMail
<1> HIDE DEF u
<1>2. /\ DOMAIN v = WorldFields /\ v.db = u.db /\ v.ses = u.ses /\ v.pv = u.pv
      /\ v.plan = u.plan /\ v.inn = u.inn /\ v.ing = u.ing /\ v.pipe = u.pipe
  BY <1>1 DEF WorldFields, Advance, u
<1>3. w.pipe # NoPipe =>
        DOMAIN u.pipe = PipeFields /\ u.pipe.next = w.pipe.next /\ u.pipe.occ = w.pipe.occ
  BY <1>1 DEF Shape, PipeFields
<1> QED BY <1>1, <1>2, <1>3 DEF Shape

LEMMA AdvanceCalm == ASSUME NEW w, Shape(w), Alive(w) PROVE Calm(w, Advance(w))
BY AdvanceParts DEF Calm

LEMMA NewGenerationCalm ==
  ASSUME NEW w, Shape(w)
  PROVE  /\ Calm(w, NewGeneration(w)) /\ Silent(NewGeneration(w))
         /\ NewGeneration(w).plan = NoPlan
BY DEF Calm, Shape, WorldFields, Silent, NewGeneration, NewGenerationKeepingMail

LEMMA RotateCalm ==
  ASSUME NEW w, Shape(w)
  PROVE  Calm(w, Rotate(w)) /\ Silent(Rotate(w)) /\ Rotate(w).plan = NoPlan
<1> DEFINE u == Advance(w)
<1>1. Shape(u) /\ u.db = w.db /\ u.ses = w.ses /\ u.pv = w.pv /\ u.inn = w.inn
  BY AdvanceParts
<1> HIDE DEF u
<1>2. Calm(u, NewGeneration(u)) /\ Silent(NewGeneration(u)) /\ NewGeneration(u).plan = NoPlan
  BY <1>1, NewGenerationCalm
<1> QED BY <1>1, <1>2 DEF Rotate, Calm, Silent, u

LEMMA StopAudioCalm == ASSUME NEW w, Shape(w) PROVE Calm(w, StopAudio(w))
BY DEF Calm, Shape, WorldFields, PipeFields, Silent, StopAudio

LEMMA PauseAudioCalm == ASSUME NEW w, Shape(w) PROVE Calm(w, PauseAudio(w))
BY DEF Calm, Shape, WorldFields, PipeFields, Silent, PauseAudio

LEMMA PauseAudioKeeps ==
  ASSUME NEW w, Shape(w), NEW v, v = PauseAudio(w)
  PROVE  /\ v.pipe # NoPipe => w.pipe # NoPipe
         /\ v.pipe # NoPipe /\ v.pipe.next = "heard" =>
              w.pipe.next = "heard" /\ v.pipe.occ = w.pipe.occ
<1>1. CASE w.pipe = NoPipe
  BY <1>1 DEF PauseAudio
<1>2. CASE w.pipe # NoPipe /\ w.pipe.next = "none"
  <2>1. v.pipe = w.pipe
    BY <1>2 DEF Shape, WorldFields, PauseAudio
  <2> QED BY <1>2, <2>1
<1>3. CASE w.pipe # NoPipe /\ w.pipe.next = "heard"
  BY <1>3 DEF Shape, WorldFields, PipeFields, PauseAudio
<1>4. CASE w.pipe # NoPipe /\ w.pipe.next \notin {"none", "heard"}
  <2>1. v.pipe.next = "none"
    BY <1>4 DEF Shape, WorldFields, PipeFields, PauseAudio
  <2> QED BY <1>4, <2>1
<1> QED BY <1>1, <1>2, <1>3, <1>4

LEMMA RetainCalm == ASSUME NEW w, Shape(w) PROVE Calm(w, Retain(w))
BY DEF Calm, Shape, WorldFields, PipeFields, Silent, Retain

LEMMA ReopenCalm == ASSUME NEW w, Shape(w) PROVE Calm(w, Reopen(w))
<1>1. Calm(w, Retain(w))
  BY RetainCalm
<1>2. Calm(Retain(w), Reopen(w))
  BY <1>1 DEF Calm, Shape, WorldFields, Silent, Reopen
<1> QED BY <1>1, <1>2, CalmTwice

LEMMA ResetCalm == ASSUME NEW w, Shape(w) PROVE Calm(w, Reset(w))
BY DEF Calm, Shape, WorldFields, Silent, Reset

LEMMA RefreshCalm == ASSUME NEW w, Shape(w) PROVE Calm(w, Refresh(w))
BY ResetCalm, CalmItself DEF Refresh

LEMMA PrepareCalm ==
  ASSUME NEW w, Shape(w), Alive(w), NEW op, NEW pos, NEW audible
  PROVE  Calm(w, Prepare(w, op, pos, audible))
BY DEF Calm, Shape, WorldFields, Prepare

LEMMA EnqueueCalm ==
  ASSUME NEW w, Shape(w), Alive(w), NEW e, NEW ep PROVE Calm(w, Enqueue(w, e, ep))
BY DEF Calm, Shape, WorldFields, Enqueue

(* What a session needs for its cursor and its state to be moved.          *)
Fit(w) == Shape(w) /\ Session(w) /\ Alive(w)

LEMMA NearFit == ASSUME NEW w, NEW v, Alive(w), Near(w, v) PROVE Fit(v)
BY DEF Fit, Near, Alive

LEMMA CalmFit == ASSUME NEW w, NEW v, Fit(w), Calm(w, v) PROVE Fit(v) /\ Near(w, v)
BY DEF Fit, Calm, Near, Alive, Session

LEMMA AtNear == ASSUME NEW w, NEW pos, Fit(w) PROVE Near(w, At(w, pos))
<1>1. CASE InPreview(w)
  <2> DEFINE v == [w EXCEPT !.pv.pos = pos]
  <2>1. /\ DOMAIN v = WorldFields /\ v.db = w.db /\ v.ses = w.ses /\ v.plan = w.plan
        /\ v.inn = w.inn /\ v.pipe = w.pipe /\ v.ing = w.ing
        /\ v.pv = [w.pv EXCEPT !.pos = pos]
    BY DEF Fit, Shape, WorldFields
  <2>2. Audition(w.pv) /\ w.pv # NoPreview
    BY <1>1 DEF Fit, Shape, InPreview
  <2>3. Audition(v.pv) /\ v.pv.id = w.pv.id /\ v.pv.saved = w.pv.saved
    BY <2>1, <2>2 DEF Audition, AuditionFields
  <2>4. v.pv # NoPreview
    BY <2>3 DEF Audition, NoPreview
  <2>5. v = At(w, pos)
    BY <1>1 DEF At
  <2> HIDE DEF v
  <2> QED BY <2>1, <2>2, <2>3, <2>4, <2>5 DEF Fit, Shape, Session, Near
<1>2. CASE ~InPreview(w)
  <2>1. w.pv = NoPreview /\ w.ses.cur # NoOcc
    BY <1>2 DEF InPreview, Fit, Alive
  <2> DEFINE v == [w EXCEPT !.ses.pos = pos]
  <2>2. /\ DOMAIN v = WorldFields /\ v.db = w.db /\ v.pv = w.pv /\ v.plan = w.plan
        /\ v.inn = w.inn /\ v.pipe = w.pipe /\ v.ing = w.ing
        /\ v.ses = [w.ses EXCEPT !.pos = pos]
    BY DEF Fit, Shape, WorldFields
  <2>3. /\ DOMAIN v.ses = SessionFields /\ v.ses.cur = w.ses.cur /\ v.ses.rev = w.ses.rev
        /\ v.ses.st = w.ses.st
    BY <2>2 DEF Fit, Shape, SessionFields
  <2>4. v = At(w, pos)
    BY <1>2 DEF At
  <2> HIDE DEF v
  <2> QED BY <2>1, <2>2, <2>3, <2>4 DEF Fit, Shape, Session, Alive, Near
<1> QED BY <1>1, <1>2

LEMMA InNear == ASSUME NEW w, NEW st \in Stirring, Fit(w) PROVE Near(w, In(w, st))
<1>1. CASE InPreview(w)
  <2> DEFINE v == [w EXCEPT !.pv.st = st]
  <2>1. /\ DOMAIN v = WorldFields /\ v.db = w.db /\ v.ses = w.ses /\ v.plan = w.plan
        /\ v.inn = w.inn /\ v.pipe = w.pipe /\ v.ing = w.ing
        /\ v.pv = [w.pv EXCEPT !.st = st]
    BY DEF Fit, Shape, WorldFields
  <2>2. Audition(w.pv) /\ w.pv # NoPreview
    BY <1>1 DEF Fit, Shape, InPreview
  <2>3. Audition(v.pv) /\ v.pv.id = w.pv.id /\ v.pv.saved = w.pv.saved
    BY <2>1, <2>2 DEF Audition, AuditionFields
  <2>4. v.pv # NoPreview
    BY <2>3 DEF Audition, NoPreview
  <2>5. v = In(w, st)
    BY <1>1 DEF In
  <2> HIDE DEF v
  <2> QED BY <2>1, <2>2, <2>3, <2>4, <2>5 DEF Fit, Shape, Session, Near
<1>2. CASE ~InPreview(w)
  <2>1. w.pv = NoPreview /\ w.ses.cur # NoOcc
    BY <1>2 DEF InPreview, Fit, Alive
  <2> DEFINE v == [w EXCEPT !.ses.st = st]
  <2>2. /\ DOMAIN v = WorldFields /\ v.db = w.db /\ v.pv = w.pv /\ v.plan = w.plan
        /\ v.inn = w.inn /\ v.pipe = w.pipe /\ v.ing = w.ing
        /\ v.ses = [w.ses EXCEPT !.st = st]
    BY DEF Fit, Shape, WorldFields
  <2>3. /\ DOMAIN v.ses = SessionFields /\ v.ses.cur = w.ses.cur /\ v.ses.rev = w.ses.rev
        /\ v.ses.st = st
    BY <2>2 DEF Fit, Shape, SessionFields
  <2>4. v = In(w, st)
    BY <1>2 DEF In
  <2> HIDE DEF v
  <2> QED BY <2>1, <2>2, <2>3, <2>4 DEF Fit, Shape, Session, Alive, Near
<1> QED BY <1>1, <1>2

LEMMA CapturedNear == ASSUME NEW w, Fit(w) PROVE Near(w, Captured(w))
<1>1. Near(w, w)
  BY DEF Fit, Near, Session
<1> QED BY <1>1, AtNear DEF Captured

LEMMA SampleNear ==
  ASSUME NEW w, Shape(w), Session(w), Alive(w) \/ ~w.ing.pend PROVE Near(w, Sample(w))
<1> DEFINE taken == [w EXCEPT !.ing.pend = FALSE]
           there == At(taken, w.ing.pos)
<1>1. Calm(w, taken)
  BY DEF Calm, Shape, WorldFields, Silent
<1>2. Near(w, taken)
  BY <1>1 DEF Calm, Near, Session
<1> HIDE DEF taken
<1>3. ASSUME Alive(w) PROVE Near(w, [there EXCEPT !.inn.dirty = TRUE])
  <2>1. Fit(taken)
    BY <1>2, <1>3, NearFit
  <2>2. Near(taken, there)
    BY <2>1, AtNear
  <2>3. Fit(there)
    BY <2>1, <2>2, NearFit DEF Fit
  <2> HIDE DEF there
  <2>4. Calm(there, [there EXCEPT !.inn.dirty = TRUE])
    BY <2>3 DEF Fit, Calm, Shape, WorldFields, Silent
  <2> QED BY <1>2, <2>2, <2>3, <2>4, CalmFit, NearTwice
<1> QED BY <1>2, <1>3 DEF Sample, taken

(* A failure shows; a rewind, a seek or a Back that has landed.            *)
LEMMA FailingNear == ASSUME NEW w, Fit(w) PROVE Near(w, Failing(w))
<1> DEFINE u == [w EXCEPT !.gate = FALSE, !.play.status = "error", !.play.err = TRUE]
<1>1. Calm(w, u)
  BY DEF Fit, Calm, Shape, WorldFields, Silent
<1> HIDE DEF u
<1>2. Fit(u) /\ Near(w, u)
  BY <1>1, CalmFit
<1>3. Near(u, In(u, "paused"))
  BY <1>2, InNear DEF Stirring
<1> QED BY <1>2, <1>3, NearTwice DEF Failing, u

LEMMA RewoundNear == ASSUME NEW w, NEW q, Fit(w) PROVE Near(w, Rewound(w, q))
<1> DEFINE u == At(w, 0)
<1>1. Near(w, u) /\ Fit(u)
  BY AtNear, NearFit DEF Fit
<1> HIDE DEF u
<1>2. Calm(u, [u EXCEPT !.inn.dirty = TRUE])
  BY <1>1 DEF Fit, Calm, Shape, WorldFields, Silent
<1>3. Near(w, [u EXCEPT !.inn.dirty = TRUE])
  BY <1>1, <1>2, CalmFit, NearTwice
<1>4. Near(w, w)
  BY DEF Fit, Near, Session
<1> QED BY <1>3, <1>4 DEF Rewound, u

LEMMA SeekCommittedNear == ASSUME NEW w, NEW pos, Fit(w) PROVE Near(w, SeekCommitted(w, pos))
<1> DEFINE resume == w.play.seek = "resume"
           u == At(w, pos)
           st == IF resume THEN "playing" ELSE "paused"
           t == In(u, st)
           v == [t EXCEPT !.gate = resume, !.inn.dirty = TRUE,
                          !.play.status = IF resume THEN "active" ELSE "paused",
                          !.play.seek = "no", !.play.sought = TRUE]
<1>1. Near(w, u) /\ Fit(u)
  BY AtNear, NearFit DEF Fit
<1>2. Near(u, t) /\ Fit(t)
  <2>1. st \in Stirring
    BY DEF Stirring
  <2> HIDE DEF u, st
  <2> QED BY <1>1, <2>1, InNear, NearFit DEF Fit
<1>3. v = SeekCommitted(w, pos)
  BY DEF SeekCommitted
<1> HIDE DEF t, resume
<1>4. Calm(t, v)
  BY <1>2 DEF Fit, Calm, Shape, WorldFields, Silent
<1> HIDE DEF u, v
<1> QED BY <1>1, <1>2, <1>3, <1>4, CalmFit, NearTwice

LEMMA BackCommittedNear == ASSUME NEW w, Fit(w) PROVE Near(w, BackCommitted(w))
<1> DEFINE t == In(w, IF w.gate THEN "playing" ELSE "paused")
           v == [t EXCEPT !.play.status = IF w.gate THEN "active" ELSE "paused",
                          !.play.back = FALSE, !.inn.dirty = TRUE]
<1>1. Near(w, t) /\ Fit(t)
  BY InNear, NearFit DEF Fit, Stirring
<1>2. v = BackCommitted(w)
  BY DEF BackCommitted
<1> HIDE DEF t
<1>3. Calm(t, v)
  BY <1>1 DEF Fit, Calm, Shape, WorldFields, Silent
<1> HIDE DEF v
<1> QED BY <1>1, <1>2, <1>3, CalmFit, NearTwice

LEMMA ThenCalm ==
  ASSUME NEW w, NEW u, NEW v, Fit(w), Near(w, u), Calm(u, v) PROVE Near(w, v) /\ Fit(v)
<1>1. Fit(u)
  BY NearFit DEF Fit
<1> QED BY <1>1, CalmFit, NearTwice

LEMMA FitItself == ASSUME NEW w, Fit(w) PROVE Near(w, w)
BY DEF Fit, Near, Session

(* The main session as a handler leaves it, on the same occurrence.        *)
LEMMA SetNear ==
  ASSUME NEW w, Fit(w), w.pv = NoPreview, NEW v, Shape(v),
         v.db = w.db, v.pv = w.pv, v.plan = w.plan, v.pipe = w.pipe,
         v.inn.restore = w.inn.restore, v.ses.cur = w.ses.cur, v.ses.rev = w.ses.rev,
         v.ses.st \in Stirring
  PROVE  Near(w, v) /\ Fit(v)
BY DEF Fit, Alive, Near, Session

LEMMA AbsorbedNear ==
  ASSUME NEW w, NEW k, NEW pos, Fit(w) PROVE Near(w, Absorbed(w, k, pos))
<1>1. Near(w, w)
  BY FitItself
<1>2. ASSUME NEW q, NEW b PROVE Near(w, [Rewound(w, q) EXCEPT !.play.seekable = b])
  <2> DEFINE u == Rewound(w, q)
  <2>1. Near(w, u) /\ Fit(u)
    BY RewoundNear, NearFit DEF Fit
  <2> HIDE DEF u
  <2>2. Calm(u, [u EXCEPT !.play.seekable = b])
    BY <2>1 DEF Fit, Calm, Shape, WorldFields, Silent
  <2> QED BY <2>1, <2>2, ThenCalm DEF u
<1>3. ASSUME NEW st \in Stirring, NEW x PROVE Near(w, [In(w, st) EXCEPT !.play.status = x])
  <2> DEFINE u == In(w, st)
  <2>1. Near(w, u) /\ Fit(u)
    BY InNear, NearFit DEF Fit
  <2> HIDE DEF u
  <2>2. Calm(u, [u EXCEPT !.play.status = x])
    BY <2>1 DEF Fit, Calm, Shape, WorldFields, Silent
  <2> QED BY <2>1, <2>2, ThenCalm DEF u
<1>4. Near(w, [Failing(w) EXCEPT !.play.seek = "no"])
  <2> DEFINE u == Failing(w)
  <2>1. Near(w, u) /\ Fit(u)
    BY FailingNear, NearFit DEF Fit
  <2> HIDE DEF u
  <2>2. Calm(u, [u EXCEPT !.play.seek = "no"])
    BY <2>1 DEF Fit, Calm, Shape, WorldFields, Silent
  <2> QED BY <2>1, <2>2, ThenCalm DEF u
<1>5. Near(w, [In(w, "playing") EXCEPT !.play.status = "active"])
  BY <1>3 DEF Stirring
<1>6. Near(w, [In(w, "buffering") EXCEPT !.play.status = "loading"])
  BY <1>3 DEF Stirring
<1>7. Near(w, [Rewound(w, ~Seekable) EXCEPT !.play.seekable = FALSE])
  BY <1>2
<1>8. Near(w, [Rewound(w, TRUE) EXCEPT !.play.seekable = TRUE])
  BY <1>2
<1>9. Near(w, SeekCommitted(w, pos)) /\ Near(w, BackCommitted(w)) /\ Near(w, Failing(w))
  BY SeekCommittedNear, BackCommittedNear, FailingNear
<1> QED BY <1>1, <1>4, <1>5, <1>6, <1>7, <1>8, <1>9 DEF Absorbed

(* Loading in the current generation, pausing, resuming, stopping.         *)
LEMMA BufferNear == ASSUME NEW w, Fit(w) PROVE Near(w, Buffer(w)) /\ Fit(Buffer(w))
<1> DEFINE u == In(w, "buffering")
           t == [u EXCEPT !.gate = TRUE, !.play.status = "loading", !.play.err = FALSE]
<1>1. Near(w, u) /\ Fit(u)
  BY InNear, NearFit DEF Fit, Stirring
<1> HIDE DEF u
<1>2. Calm(u, t)
  BY <1>1 DEF Fit, Calm, Shape, WorldFields, Silent
<1> HIDE DEF t
<1>3. Near(w, t) /\ Fit(t)
  BY <1>1, <1>2, ThenCalm
<1>4. Calm(t, Prepare(t, "play", ActivePos(w), TRUE))
  BY <1>3, PrepareCalm DEF Fit
<1>5. Buffer(w) = Prepare(t, "play", ActivePos(w), TRUE)
  BY DEF Buffer, t, u
<1> QED BY <1>3, <1>4, <1>5, ThenCalm

LEMMA IntendNear ==
  ASSUME NEW w, Fit(w), w.pv = NoPreview, NEW a
  PROVE  Near(w, Intend(w, a)) /\ Fit(Intend(w, a))
<1> DEFINE v == Intend(w, a)
<1>1. /\ DOMAIN v = WorldFields /\ v.db = w.db /\ v.pv = w.pv /\ v.plan = w.plan
      /\ v.pipe = w.pipe /\ v.inn = w.inn /\ v.ing = w.ing
      /\ v.ses = [w.ses EXCEPT !.st = IF a = "resume" THEN "buffering" ELSE "paused"]
  BY DEF Fit, Shape, WorldFields, Intend
<1>2. /\ DOMAIN v.ses = SessionFields /\ v.ses.cur = w.ses.cur /\ v.ses.rev = w.ses.rev
      /\ v.ses.st \in Stirring
  BY <1>1 DEF Fit, Shape, SessionFields, Stirring
<1> HIDE DEF v
<1>3. Shape(v)
  BY <1>1, <1>2 DEF Fit, Shape
<1> QED BY <1>1, <1>2, <1>3, SetNear DEF v

LEMMA PauseNear ==
  ASSUME NEW w, Fit(w), w.pv = NoPreview, ~Presented(w), NEW f
  PROVE  Near(w, Pause(w, f)) /\ Fit(Pause(w, f))
<1> DEFINE u == PauseAudio(w)
           h == Captured(u)
           r == Retain(Advance(h))
           v == [r EXCEPT !.inn.ret = FALSE, !.gate = FALSE, !.ses.st = "paused",
                          !.play.status = "paused"]
<1>1. Calm(w, u) /\ Near(w, u) /\ Fit(u)
  BY PauseAudioCalm, CalmFit DEF Fit
<1>2. ~Presented(u)
  <2>1. u.ses = w.ses /\ u.plan = w.plan
    BY DEF PauseAudio, Fit, Shape, WorldFields
  <2>2. /\ u.pipe # NoPipe => w.pipe # NoPipe
        /\ u.pipe # NoPipe /\ u.pipe.next = "heard" =>
             w.pipe.next = "heard" /\ u.pipe.occ = w.pipe.occ
    BY PauseAudioKeeps DEF Fit
  <2> HIDE DEF u
  <2> QED BY <2>1, <2>2 DEF Presented
<1>3. Reconcile(u, f.later) = u
  BY <1>2 DEF Reconcile
<1>4. u.ses.cur = w.ses.cur
  BY <1>1 DEF Near
<1>5. IF u.ok THEN Pause(w, f) = v ELSE Pause(w, f) = u
  BY <1>3, <1>4 DEF Pause
<1> HIDE DEF u
<1>6. Near(w, h) /\ Fit(h)
  BY <1>1, CapturedNear, NearTwice, NearFit DEF Fit
<1> HIDE DEF h
<1>7. Near(w, r) /\ Fit(r)
  <2>1. Calm(h, Advance(h)) /\ Near(w, Advance(h)) /\ Fit(Advance(h))
    BY <1>6, AdvanceCalm, ThenCalm DEF Fit
  <2>2. Calm(Advance(h), r)
    BY <2>1, RetainCalm DEF Fit
  <2> QED BY <2>1, <2>2, ThenCalm, CalmFit, NearTwice
<1> HIDE DEF r
<1>8. Near(w, v) /\ Fit(v)
  <2>1. r.pv = NoPreview
    BY <1>7 DEF Near
  <2>2. /\ DOMAIN v = WorldFields /\ v.db = r.db /\ v.pv = r.pv /\ v.plan = r.plan
        /\ v.pipe = r.pipe /\ v.inn = [r.inn EXCEPT !.ret = FALSE] /\ v.ing = r.ing
        /\ v.ses = [r.ses EXCEPT !.st = "paused"]
    BY <1>7 DEF Fit, Shape, WorldFields
  <2>3. /\ DOMAIN v.ses = SessionFields /\ v.ses.cur = r.ses.cur /\ v.ses.rev = r.ses.rev
        /\ v.ses.st \in Stirring
        /\ DOMAIN v.inn = DOMAIN r.inn /\ v.inn.restore = r.inn.restore
    BY <1>7, <2>2 DEF Fit, Shape, SessionFields, Stirring
  <2> HIDE DEF v
  <2>4. Shape(v)
    BY <1>7, <2>2, <2>3 DEF Fit, Shape
  <2>5. Near(r, v) /\ Fit(v)
    BY <1>7, <2>1, <2>2, <2>3, <2>4, SetNear
  <2> QED BY <1>7, <2>5, NearTwice
<1> QED BY <1>1, <1>5, <1>8

LEMMA ResumeNear ==
  ASSUME NEW w, Fit(w), w.pv = NoPreview PROVE Near(w, Resume(w)) /\ Fit(Resume(w))
<1> DEFINE v == Retain(Advance(w))
<1>1. Near(w, v) /\ Fit(v)
  <2>1. Near(w, Advance(w)) /\ Fit(Advance(w))
    BY AdvanceCalm, CalmFit DEF Fit
  <2>2. Calm(Advance(w), v)
    BY <2>1, RetainCalm DEF Fit
  <2> QED BY <2>1, <2>2, ThenCalm
<1> HIDE DEF v
<1>2. ASSUME NEW pos PROVE Near(w, NewGeneration([v EXCEPT !.ses.pos = pos]))
                           /\ Fit(NewGeneration([v EXCEPT !.ses.pos = pos]))
  <2> DEFINE x == [v EXCEPT !.ses.pos = pos]
  <2>1. v.pv = NoPreview
    BY <1>1 DEF Near
  <2>2. /\ DOMAIN x = WorldFields /\ x.db = v.db /\ x.pv = v.pv /\ x.plan = v.plan
        /\ x.pipe = v.pipe /\ x.inn = v.inn /\ x.ing = v.ing
        /\ x.ses = [v.ses EXCEPT !.pos = pos]
    BY <1>1 DEF Fit, Shape, WorldFields
  <2>3. v.ses.st \in Stirring
    BY <1>1, <2>1 DEF Fit, Alive, Session
  <2>4. /\ DOMAIN x.ses = SessionFields /\ x.ses.cur = v.ses.cur /\ x.ses.rev = v.ses.rev
        /\ x.ses.st \in Stirring
    BY <1>1, <2>2, <2>3 DEF Fit, Shape, SessionFields
  <2> HIDE DEF x
  <2>5. Shape(x)
    BY <1>1, <2>2, <2>4 DEF Fit, Shape
  <2>6. Near(v, x) /\ Fit(x)
    BY <1>1, <2>1, <2>2, <2>4, <2>5, SetNear
  <2>7. Near(w, x)
    BY <1>1, <2>6, NearTwice
  <2>8. Calm(x, NewGeneration(x))
    BY <2>5, NewGenerationCalm
  <2> QED BY <2>6, <2>7, <2>8, ThenCalm DEF x
<1> DEFINE n == NewGeneration([v EXCEPT !.ses.pos =
                                 IF w.play.status = "completed" THEN 0 ELSE @])
<1>3. Near(w, n) /\ Fit(n)
  BY <1>2
<1>4. \/ Resume(w) = Buffer(n)
      \/ Resume(w) = Buffer(v)
  BY DEF Resume, v
<1> HIDE DEF n
<1> QED BY <1>1, <1>3, <1>4, BufferNear, NearTwice

-----------------------------------------------------------------------------
(* The operators that write.                                               *)

(* The disk is written and everything stays where it is.                   *)
LEMMA Rewritten ==
  ASSUME NEW w, Sound(w), NEW v, Shape(v), Stored(v.db), v.ses = w.ses,
         v.db.cur = w.db.cur, v.db.rev = w.db.rev, v.db.ord = w.db.ord,
         v.db.act = w.db.act, v.db.done = w.db.done, v.db.out = w.db.out,
         v.inn.restore = w.inn.restore, v.inn.restore = "error" => v.db.aud = w.db.aud,
         v.plan = w.plan \/ v.plan = NoPlan, v.pipe = w.pipe,
         Alive(w) \/ (Silent(w) => Silent(v)),
         IF w.pv = NoPreview THEN v.pv = NoPreview /\ v.db.aud = w.db.aud
         ELSE /\ v.pv # NoPreview /\ v.pv.saved = w.pv.saved
              /\ v.db.aud # NoAud /\ v.db.aud.id = v.pv.id /\ v.db.aud.saved = v.pv.saved
  PROVE  Sound(v) /\ Follows(w, v)
<1>1. Session(v) /\ Agrees(v)
  BY DEF Sound, Session, Agrees
<1>2. Alive(v) = Alive(w)
  BY DEF Alive
<1>3. Previewed(v)
  BY DEF Sound, Previewed
<1>4. Waiting(v)
  BY DEF Sound, Waiting, IsPlan, Here
<1>5. Claimed(v)
  BY SuccessorRows DEF Sound, Claimed
<1>6. Quiet(v)
  BY <1>2 DEF Sound, Quiet
<1>7. Follows(w, v)
  BY DEF Follows
<1> QED BY <1>1, <1>3, <1>4, <1>5, <1>6, <1>7 DEF Sound

LEMMA CheckpointedSound ==
  ASSUME NEW w, Sound(w), NEW ok, NEW v, v = Checkpointed(w, ok)
  PROVE  Sound(v) /\ Follows(w, v) /\ v.ses = w.ses
<1>1. Sound(w) /\ Follows(w, w) /\ Sound(Err(w)) /\ Follows(w, Err(w)) /\ Err(w).ses = w.ses
  BY NearItself, NearSound, ErrCalm, CalmNear DEF Sound
<1>2. ASSUME w.inn.restore # "error", w.pv # NoPreview,
             CheckpointAudition(w.db, w.pv) # Refused,
             v = [w EXCEPT !.db = CheckpointAudition(w.db, w.pv), !.inn.dirty = FALSE]
      PROVE  Sound(v) /\ Follows(w, v) /\ v.ses = w.ses
  <2> DEFINE d == CheckpointAudition(w.db, w.pv)
  <2>1. Stored(w.db) /\ Audition(w.pv) /\ w.db.aud # NoAud
    BY <1>2 DEF Sound, Shape, Previewed
  <2>2. /\ Holds(d, w.db) /\ d.ord = w.db.ord /\ d.done = w.db.done /\ d.out = w.db.out
        /\ d.act = w.db.act /\ d.aud # NoAud /\ d.aud.id = w.pv.id /\ d.aud.saved = w.db.aud.saved
    BY <1>2, <2>1, CheckpointAuditionStores
  <2> HIDE DEF d
  <2>3. /\ Shape(v) /\ v.db = d /\ v.ses = w.ses /\ v.pv = w.pv /\ v.plan = w.plan
        /\ v.pipe = w.pipe /\ v.inn.restore = w.inn.restore
    BY <1>2 DEF Sound, Shape, WorldFields, d
  <2>4. d.aud.saved = w.pv.saved /\ Alive(w)
    BY <1>2, <2>2 DEF Sound, Previewed, Alive
  <2>5. Stored(v.db) /\ v.db.cur = w.db.cur /\ v.db.rev = w.db.rev
    BY <2>2, <2>3 DEF Holds
  <2> QED BY <1>2, <2>2, <2>3, <2>4, <2>5, Rewritten
<1>3. ASSUME w.inn.restore # "error", w.pv = NoPreview,
             v = [w EXCEPT !.db = Checkpoint(@, w.ses), !.inn.dirty = FALSE,
                           !.inn.chk = w.ses.pos]
      PROVE  Sound(v) /\ Follows(w, v) /\ v.ses = w.ses
  <2> DEFINE d == Checkpoint(w.db, w.ses)
  <2>1. w.db.cur = NoOcc => w.ses.pos = 0
    BY <1>3 DEF Sound, Shape, Agrees, Session
  <2>2. /\ Holds(d, w.db) /\ d.ord = w.db.ord /\ d.done = w.db.done /\ d.out = w.db.out
        /\ d.act = w.db.act /\ d.aud = w.db.aud
    BY <2>1, CheckpointStores DEF Sound
  <2> HIDE DEF d
  <2>3. /\ Shape(v) /\ v.db = d /\ v.ses = w.ses /\ v.pv = w.pv /\ v.plan = w.plan
        /\ v.pipe = w.pipe /\ v.inn.restore = w.inn.restore
    <3>1. /\ DOMAIN v = WorldFields /\ v.db = d /\ v.ses = w.ses /\ v.pv = w.pv
          /\ v.plan = w.plan /\ v.pipe = w.pipe /\ v.ing = w.ing
          /\ v.inn = [w.inn EXCEPT !.dirty = FALSE, !.chk = w.ses.pos]
      BY <1>3 DEF Sound, Shape, WorldFields, d
    <3>2. DOMAIN v.inn = DOMAIN w.inn /\ v.inn.restore = w.inn.restore
      BY <3>1 DEF Sound, Shape
    <3> QED BY <3>1, <3>2 DEF Sound, Shape
  <2>4. Silent(w) => Silent(v)
    BY <1>3 DEF Sound, Shape, WorldFields, Silent
  <2> QED BY <1>3, <2>2, <2>3, <2>4, Rewritten DEF Holds
<1>4. \/ v = w \/ v = Err(w)
      \/ /\ w.inn.restore # "error" /\ w.pv # NoPreview
         /\ CheckpointAudition(w.db, w.pv) # Refused
         /\ v = [w EXCEPT !.db = CheckpointAudition(w.db, w.pv), !.inn.dirty = FALSE]
      \/ /\ w.inn.restore # "error" /\ w.pv = NoPreview
         /\ v = [w EXCEPT !.db = Checkpoint(@, w.ses), !.inn.dirty = FALSE,
                          !.inn.chk = w.ses.pos]
  BY DEF Checkpointed, InPreview
<1> QED BY <1>1, <1>2, <1>3, <1>4

LEMMA LeadsCheckpointed ==
  ASSUME NEW w, NEW u, Leads(w, u), NEW ok PROVE Leads(w, Checkpointed(u, ok))
BY CheckpointedSound, StepThenFollows DEF Leads

LEMMA StopLeads ==
  ASSUME NEW w, Sound(w), w.pv = NoPreview, w.ses.cur # NoOcc, NEW f,
         NEW v, v = Stop(w, f)
  PROVE  Sound(v) /\ Follows(w, v)
<1> DEFINE n == NewGeneration(Advance(w))
           u == [n EXCEPT !.inn.ret = FALSE, !.inn.dirty = TRUE, !.play.seek = "no",
                 !.gate = FALSE, !.ses.st = "paused",
                 !.ses.pos = IF w.inn.ret THEN @ ELSE 0,
                 !.play.status = IF w.inn.ret THEN "paused" ELSE "stopped"]
<1>1. Fit(w)
  BY DEF Sound, Fit, Alive
<1>2. Near(w, n) /\ Fit(n)
  BY <1>1, RotateCalm, CalmFit DEF Rotate, Fit
<1>3. v = Checkpointed(u, f.write)
  BY DEF Stop
<1> HIDE DEF n
<1>4. n.pv = NoPreview
  BY <1>2 DEF Near
<1>5. /\ DOMAIN u = WorldFields /\ u.db = n.db /\ u.pv = n.pv /\ u.plan = n.plan
      /\ u.pipe = n.pipe /\ u.inn = [n.inn EXCEPT !.ret = FALSE, !.dirty = TRUE]
      /\ u.ing = n.ing
      /\ u.ses = [n.ses EXCEPT !.st = "paused", !.pos = IF w.inn.ret THEN @ ELSE 0]
  BY <1>2 DEF Fit, Shape, WorldFields
<1>6. /\ DOMAIN u.ses = SessionFields /\ u.ses.cur = n.ses.cur /\ u.ses.rev = n.ses.rev
      /\ u.ses.st \in Stirring
      /\ DOMAIN u.inn = DOMAIN n.inn /\ u.inn.restore = n.inn.restore
  <2> HIDE DEF u
  <2>1. /\ DOMAIN u.ses = SessionFields /\ u.ses.cur = n.ses.cur /\ u.ses.rev = n.ses.rev
        /\ u.ses.st = "paused"
    BY <1>2, <1>5 DEF Fit, Shape, SessionFields
  <2>2. DOMAIN u.inn = DOMAIN n.inn /\ u.inn.restore = n.inn.restore
    BY <1>2, <1>5 DEF Fit, Shape
  <2> QED BY <2>1, <2>2 DEF Stirring
<1> HIDE DEF u
<1>7. Shape(u)
  BY <1>2, <1>5, <1>6 DEF Fit, Shape
<1>8. Near(n, u)
  BY <1>2, <1>4, <1>5, <1>6, <1>7, SetNear
<1>9. Sound(u) /\ Follows(w, u) /\ u.pv = NoPreview
  BY <1>2, <1>4, <1>8, NearTwice, NearSound DEF Near
<1>10. Sound(v) /\ Follows(u, v)
  BY <1>3, <1>9, CheckpointedSound
<1> QED BY <1>9, <1>10 DEF Follows

-----------------------------------------------------------------------------
(* Departures.                                                             *)
LEMMA FreezeLeads ==
  ASSUME NEW w, Sound(w), w.ses.cur # NoOcc, NEW p, IsPlan(w.db, p), Here(w, p),
         NEW v, v = Freeze(w, p)
  PROVE  /\ Leads(w, v) /\ v.ses.cur = w.ses.cur /\ v.ses.rev = w.ses.rev
         /\ v.pv = NoPreview /\ v.db = w.db /\ v.plan = p /\ ~v.ok
<1> DEFINE a == StopAudio(Advance(w))
           u == [a EXCEPT !.plan = p, !.ses.st = "paused", !.play.status = "error",
                          !.play.err = TRUE]
<1>1. Fit(w) /\ w.pv = NoPreview
  BY DEF Sound, Fit, Alive, Here
<1>2. Calm(w, a)
  <2>1. Calm(w, Advance(w)) /\ Shape(Advance(w))
    BY <1>1, AdvanceCalm DEF Fit, Calm
  <2> QED BY <2>1, StopAudioCalm, CalmTwice
<1>3. v = [u EXCEPT !.ok = FALSE]
  BY DEF Freeze, Err
<1> HIDE DEF a
<1>4. /\ DOMAIN u = WorldFields /\ u.db = a.db /\ u.pv = a.pv /\ u.plan = p
      /\ u.pipe = a.pipe /\ u.inn = a.inn /\ u.ing = a.ing
      /\ u.ses = [a.ses EXCEPT !.st = "paused"]
  BY <1>2 DEF Calm, Shape, WorldFields
<1>5. /\ DOMAIN u.ses = SessionFields /\ u.ses.cur = w.ses.cur /\ u.ses.rev = w.ses.rev
      /\ u.ses.st = "paused"
  BY <1>1, <1>2, <1>4 DEF Calm, Fit, Shape, SessionFields
<1> HIDE DEF u
<1>6. /\ DOMAIN v = WorldFields /\ v.db = w.db /\ v.pv = NoPreview /\ v.plan = p
      /\ v.pipe = a.pipe /\ v.inn = a.inn /\ v.ing = a.ing /\ v.ses = u.ses /\ ~v.ok
  BY <1>1, <1>2, <1>3, <1>4 DEF WorldFields, Calm
<1>7. Shape(v) /\ v.inn.restore = w.inn.restore
  BY <1>2, <1>5, <1>6 DEF Calm, Shape
<1>8. Stored(v.db) /\ Session(v) /\ Agrees(v) /\ Previewed(v) /\ Waiting(v)
  BY <1>1, <1>5, <1>6, <1>7
     DEF Sound, Session, Agrees, Previewed, Waiting, Here, Stirring
<1>9. Claimed(v)
  BY <1>2, <1>5, <1>6 DEF Calm, Sound, Claimed
<1>10. Quiet(v)
  BY <1>5, <1>6 DEF Quiet, Alive
<1>11. Step(w, v)
  BY <1>1, <1>5, <1>6, <1>7 DEF Step, Departs, Spares, Trusts
<1> QED BY <1>5, <1>6, <1>7, <1>8, <1>9, <1>10, <1>11 DEF Sound, Leads

(* Carrying a plan out: its destination is a row, still.                   *)
LEMMA RecoveredPlan ==
  ASSUME NEW d, NEW p, IsPlan(d, p), NEW q, q = Recovered(p)
  PROVE  IsPlan(d, q) /\ q.occ = p.occ /\ q.to.rev = p.to.rev
BY DEF IsPlan, PlanFields, SessionFields, Recovered, Stirring

LEMMA ResolvedPlan ==
  ASSUME NEW w, Stored(w.db), NEW p, IsPlan(w.db, p), NEW q, q = Resolved(w, p)
  PROVE  IsPlan(w.db, q) /\ q.occ = p.occ /\ q.to.rev = p.to.rev
<1> DEFINE next == Successor(w.db, p.occ)
<1>1. next # NoOcc => next \in ToSet(w.db.ord)
  BY SuccessorIn DEF Stored, ValidSession
<1> HIDE DEF next
<1> QED BY <1>1 DEF IsPlan, PlanFields, SessionFields, Resolved, next

LEMMA CommitLeads ==
  ASSUME NEW w, Sound(w), w.pv = NoPreview, w.ses.cur # NoOcc, NEW p0, IsPlan(w.db, p0),
         NEW recovery, NEW ok, NEW v, v = Commit(w, p0, recovery, ok)
  PROVE  Leads(w, v) /\ v.ses.cur # NoOcc /\ v.pv = NoPreview
<1> DEFINE p == IF recovery THEN Recovered(Resolved(w, p0)) ELSE Resolved(w, p0)
           d == IF p.keep THEN Departure(w.db, p.to, p.occ) ELSE Terminal(w.db, p.to, p.occ)
           changed == p.to.cur # w.ses.cur
           x == IF changed \/ recovery THEN Rotate(w) ELSE w
           u == [w EXCEPT !.plan = NoPlan]
           y == [x EXCEPT !.db = d, !.ses = p.to, !.plan = NoPlan,
                    !.play = [(IF changed THEN Fresh("idle") ELSE @)
                               EXCEPT !.status = p.status, !.err = p.err],
                    !.gate = p.to.st = "buffering",
                    !.inn.dirty = FALSE, !.inn.chk = p.to.pos]
<1>1. IsPlan(w.db, p)
  BY ResolvedPlan, RecoveredPlan DEF Sound
<1>2. \/ v = Err(u)
      \/ v = Freeze(w, p) /\ Here(w, p)
      \/ v = y /\ d # Refused /\ p.occ = w.ses.cur /\ p.to.rev = w.ses.rev
  BY DEF Commit, Here
<1> HIDE DEF p
<1>3. ASSUME v = Err(u) PROVE Leads(w, v) /\ v.ses.cur # NoOcc /\ v.pv = NoPreview
  <2>1. Calm(w, u)
    BY DEF Sound, Calm, Shape, WorldFields, Silent
  <2> HIDE DEF u
  <2>2. Calm(w, v)
    BY <1>3, <2>1, ErrCalm, CalmTwice DEF Calm
  <2> QED BY <2>2, CalmIsStep DEF Calm
<1>4. ASSUME v = Freeze(w, p), Here(w, p) PROVE Leads(w, v) /\ v.ses.cur # NoOcc /\ v.pv = NoPreview
  BY <1>1, <1>4, FreezeLeads
<1>5. ASSUME v = y, d # Refused, p.occ = w.ses.cur, p.to.rev = w.ses.rev
      PROVE  Leads(w, v) /\ v.ses.cur # NoOcc /\ v.pv = NoPreview
  <2>1. w.db.cur = w.ses.cur /\ w.db.rev = w.ses.rev /\ w.db.ord # <<>> /\ p.to.cur # NoOcc
    <3>1. w.db.cur = w.ses.cur /\ w.db.rev = w.ses.rev
      BY DEF Sound, Agrees
    <3>2. \A e \in ToSet(w.db.ord) : e # NoOcc
      BY Elements DEF Sound, Stored
    <3> QED BY <1>1, <3>1, <3>2 DEF Sound, Stored, ValidSession, IsPlan
  <2>2. Stands(p.to, w.db.ord)
    BY <1>1, <1>5, <2>1 DEF Stands, IsPlan, Sound, Stored
  <2>3. /\ Holds(d, p.to) /\ d.ord = w.db.ord /\ d.aud = w.db.aud
        /\ p.occ \in d.done /\ (p.to.cur # p.occ => d.act = p.to.cur)
    <3>1. CASE p.keep
      <4>1. w.db.act = NoOcc /\ p.occ \in w.db.out
        BY <1>1, <3>1 DEF IsPlan
      <4> QED BY <1>5, <2>1, <2>2, <3>1, <4>1, DepartureStores DEF Sound
    <3>2. CASE ~p.keep
      BY <1>5, <2>2, <3>2, TerminalStores DEF Sound
    <3> QED BY <3>1, <3>2
  <2> HIDE DEF d
  <2>4. /\ Shape(x) /\ x.pv = NoPreview /\ x.inn.restore = w.inn.restore
        /\ x.pipe = NoPipe \/ (x.pipe = w.pipe /\ ~changed)
    BY RotateCalm DEF Sound, Calm, Silent
  <2> HIDE DEF x, changed
  <2>5. /\ DOMAIN v = WorldFields /\ v.db = d /\ v.ses = p.to /\ v.plan = NoPlan
        /\ v.pv = x.pv /\ v.pipe = x.pipe /\ v.ing = x.ing
        /\ v.inn = [x.inn EXCEPT !.dirty = FALSE, !.chk = p.to.pos]
    BY <1>5, <2>4 DEF Shape, WorldFields
  <2>6. DOMAIN v.inn = DOMAIN x.inn /\ v.inn.restore = w.inn.restore
    BY <2>4, <2>5 DEF Shape
  <2>7. Shape(v)
    BY <1>1, <2>4, <2>5, <2>6 DEF Shape, IsPlan
  <2>8. Stored(v.db) /\ Session(v) /\ Agrees(v)
    BY <1>1, <2>1, <2>2, <2>3, <2>5 DEF Holds, Session, Agrees, Stands, IsPlan
  <2>9. Previewed(v) /\ Waiting(v) /\ Quiet(v)
    BY <2>1, <2>3, <2>4, <2>5, <2>6 DEF Sound, Previewed, Waiting, Quiet, Alive
  <2>10. Claimed(v)
    BY <2>1, <2>3, <2>4, <2>5, SuccessorRows DEF Sound, Claimed, changed
  <2>11. Step(w, v)
    BY <1>5, <2>3, <2>4, <2>5, <2>6 DEF Step, Departs, Spares, Trusts
  <2> QED BY <2>1, <2>4, <2>5, <2>7, <2>8, <2>9, <2>10, <2>11 DEF Leads, Sound
<1> QED BY <1>2, <1>3, <1>4, <1>5

(* A boundary that was heard: the successor is there, as it was claimed.   *)
LEMMA AdoptLeads ==
  ASSUME NEW w, Sound(w), Presented(w), NEW ok, NEW v, v = Adopt(w, ok)
  PROVE  /\ Leads(w, v) /\ w.pv = NoPreview /\ v.pv = NoPreview
         /\ w.ses.cur # NoOcc /\ v.ses.cur # NoOcc /\ v.ses.rev = w.ses.rev
         /\ v.inn.restore = w.inn.restore
         /\ v.ok => v.plan = NoPlan /\ v.db.ord = w.db.ord /\ ~Presented(v)
                    /\ v.ses.cur # w.ses.cur
<1> DEFINE next == Successor(w.db, w.ses.cur)
           to == [w.ses EXCEPT !.cur = next, !.pos = 0,
                               !.st = IF w.gate THEN "playing" ELSE "paused"]
           p == PlanTo(w, to, "paused")
           d == Terminal(w.db, to, w.ses.cur)
           y == [w EXCEPT !.db = d, !.ses = to,
                    !.play = [Fresh(IF w.gate THEN "active" ELSE "paused")
                               EXCEPT !.seekable = Seekable],
                    !.inn.dirty = FALSE, !.inn.chk = 0,
                    !.pipe.occ = next, !.pipe.pos = 0, !.pipe.next = "none"]
<1>1. /\ w.pipe # NoPipe /\ w.plan = NoPlan /\ w.pv = NoPreview
      /\ w.ses.cur # NoOcc /\ next # NoOcc /\ DOMAIN w.pipe = PipeFields
  BY DEF Presented, Sound, Claimed, Shape
<1>2. /\ w.db.cur = w.ses.cur /\ w.db.rev = w.ses.rev /\ w.db.rev > 0 /\ w.db.ord # <<>>
      /\ w.db.ord \in Seq(Nat \ {NoOcc}) /\ IsInjective(w.db.ord)
  BY <1>1 DEF Sound, Agrees, Stored, ValidSession
<1>3. next \in ToSet(w.db.ord) /\ next # w.ses.cur
  BY <1>1, <1>2, SuccessorIn
<1>4. v = Err(w) \/ v = Freeze(w, p) \/ (v = y /\ d # Refused)
  BY DEF Adopt
<1> HIDE DEF next
<1>5. /\ DOMAIN to = SessionFields /\ to.cur = next /\ to.rev = w.ses.rev
      /\ to.st \in Stirring
  BY DEF Sound, Shape, SessionFields, Stirring
<1> HIDE DEF to
<1>6. ASSUME v = Err(w)
      PROVE  Leads(w, v) /\ v.pv = NoPreview /\ v.ses.cur # NoOcc /\ v.ses.rev = w.ses.rev
             /\ v.inn.restore = w.inn.restore /\ ~v.ok
  <2>1. Calm(w, v) /\ ~v.ok
    BY <1>6, ErrCalm DEF Sound, Shape, WorldFields, Err
  <2> QED BY <1>1, <2>1, CalmIsStep DEF Calm
<1>7. ASSUME v = Freeze(w, p)
      PROVE  Leads(w, v) /\ v.pv = NoPreview /\ v.ses.cur # NoOcc /\ v.ses.rev = w.ses.rev
             /\ v.inn.restore = w.inn.restore /\ ~v.ok
  <2>1. IsPlan(w.db, p) /\ Here(w, p)
    BY <1>1, <1>3, <1>5 DEF IsPlan, Here, PlanFields, PlanTo
  <2> HIDE DEF p
  <2>2. Leads(w, v) /\ v.ses.cur = w.ses.cur /\ v.ses.rev = w.ses.rev /\ v.pv = NoPreview /\ ~v.ok
    BY <1>1, <1>7, <2>1, FreezeLeads
  <2>3. v.inn.restore = w.inn.restore
    <3>1. Calm(w, StopAudio(Advance(w)))
      BY <1>1, AdvanceCalm, StopAudioCalm, CalmTwice DEF Sound, Calm, Alive
    <3> QED BY <1>7, <3>1 DEF Freeze, Err, Calm, Shape, WorldFields
  <2> QED BY <1>1, <2>2, <2>3
<1>8. ASSUME v = y, d # Refused
      PROVE  Leads(w, v) /\ v.pv = NoPreview /\ v.ses.cur = next /\ v.ses.rev = w.ses.rev
             /\ v.inn.restore = w.inn.restore
             /\ v.plan = NoPlan /\ v.db.ord = w.db.ord /\ ~Presented(v)
  <2>1. Stands(to, w.db.ord)
    BY <1>1, <1>2, <1>3, <1>5 DEF Stands, Sound, Session
  <2>2. /\ Holds(d, to) /\ d.ord = w.db.ord /\ d.aud = w.db.aud
        /\ w.ses.cur \in d.done /\ d.act = next
    BY <1>1, <1>3, <1>5, <1>8, <2>1, TerminalStores DEF Sound
  <2> HIDE DEF d
  <2>3. /\ DOMAIN v = WorldFields /\ v.db = d /\ v.ses = to /\ v.plan = NoPlan
        /\ v.pv = NoPreview /\ v.ing = w.ing
        /\ v.inn = [w.inn EXCEPT !.dirty = FALSE, !.chk = 0]
        /\ v.pipe = [w.pipe EXCEPT !.occ = next, !.pos = 0, !.next = "none"]
    BY <1>1, <1>8 DEF Sound, Shape, WorldFields
  <2>4. DOMAIN v.inn = DOMAIN w.inn /\ v.inn.restore = w.inn.restore
    BY <2>3 DEF Sound, Shape
  <2>5. DOMAIN v.pipe = PipeFields /\ v.pipe.next = "none"
    BY <1>1, <2>3 DEF PipeFields
  <2>6. Shape(v)
    BY <1>5, <2>3, <2>4, <2>5 DEF Sound, Shape
  <2>7. Stored(v.db) /\ Session(v) /\ Agrees(v)
    BY <1>1, <1>5, <2>1, <2>2, <2>3 DEF Holds, Session, Agrees, Stands
  <2>8. Previewed(v) /\ Waiting(v) /\ Quiet(v) /\ Claimed(v)
    BY <1>1, <1>5, <2>2, <2>3, <2>4, <2>5
       DEF Sound, Previewed, Waiting, Quiet, Alive, Claimed
  <2>9. Step(w, v)
    BY <1>1, <1>3, <1>5, <2>2, <2>3, <2>4 DEF Step, Departs, Spares, Trusts
  <2> QED BY <1>5, <2>2, <2>3, <2>4, <2>5, <2>6, <2>7, <2>8, <2>9 DEF Leads, Sound, Presented
<1> QED BY <1>1, <1>3, <1>4, <1>6, <1>7, <1>8

LEMMA ReconcileLeads ==
  ASSUME NEW w, Sound(w), NEW ok, NEW v, v = Reconcile(w, ok)
  PROVE  /\ Leads(w, v) /\ v.ses.rev = w.ses.rev /\ v.inn.restore = w.inn.restore
         /\ v # w => w.pv = NoPreview /\ w.ses.cur # NoOcc
         /\ v.pv = w.pv
         /\ w.ses.cur # NoOcc => v.ses.cur # NoOcc
         /\ v.ok => v.plan = w.plan /\ v.db.ord = w.db.ord /\ ~Presented(v)
                    /\ (v.ses.cur = w.ses.cur => v = w)
<1>1. CASE Presented(w)
  <2>1. v = Adopt(w, ok) /\ w.plan = NoPlan
    BY <1>1 DEF Reconcile, Presented
  <2> QED BY <1>1, <2>1, AdoptLeads
<1>2. CASE ~Presented(w)
  <2>1. v = w
    BY <1>2 DEF Reconcile
  <2> QED BY <1>2, <2>1, NearItself, NearIsStep
<1> QED BY <1>1, <1>2

(* A world whose audio starts anew.                                        *)
LEMMA AnewSound ==
  ASSUME NEW v, Shape(v), Stored(v.db), Session(v), Agrees(v), Previewed(v),
         v.plan = NoPlan, v.pipe = NoPipe, Alive(v) \/ Silent(v)
  PROVE  Sound(v)
BY DEF Sound, Waiting, Claimed, Quiet

-----------------------------------------------------------------------------
(* Transport on the main queue.                                            *)
LEMMA ReattemptedLeads ==
  ASSUME NEW w, Sound(w), w.pv = NoPreview, w.ses.cur # NoOcc, w.plan = NoPlan,
         NEW a, NEW ok, NEW v, v = Reattempted(w, a, ok)
  PROVE  /\ Leads(w, v) /\ v.pv = NoPreview /\ v.ses.cur = w.ses.cur /\ v.plan = NoPlan
         /\ a \notin {"retry", "resume"} => v = w
<1> DEFINE to == [w.ses EXCEPT
                   !.pos = IF a = "resume" /\ w.play.status = "completed" THEN 0 ELSE @]
           d == StartAttempt(w.db, to, FALSE)
           y == [w EXCEPT !.db = d, !.ses = to, !.inn.chk = to.pos, !.inn.dirty = FALSE]
<1>1. v = w \/ v = Err(w) \/ (v = y /\ d # Refused)
  BY DEF Reattempted
<1>2. a \notin {"retry", "resume"} => v = w
  BY DEF Reattempted, NeedsAttempt
<1>3. ASSUME v = w \/ v = Err(w)
      PROVE  Leads(w, v) /\ v.pv = NoPreview /\ v.ses.cur = w.ses.cur /\ v.plan = NoPlan
  <2>1. Calm(w, v)
    BY <1>3, CalmItself, ErrCalm DEF Sound
  <2> QED BY <2>1, CalmIsStep DEF Calm
<1>4. /\ DOMAIN to = SessionFields /\ to.cur = w.ses.cur /\ to.rev = w.ses.rev
      /\ to.st = w.ses.st
  BY DEF Sound, Shape, SessionFields
<1> HIDE DEF to
<1>5. ASSUME v = y, d # Refused
      PROVE  Leads(w, v) /\ v.pv = NoPreview /\ v.ses.cur = w.ses.cur /\ v.plan = NoPlan
  <2>1. w.db.cur = w.ses.cur /\ w.db.rev = w.ses.rev
    BY DEF Sound, Agrees
  <2>2. Stands(to, w.db.ord)
    BY <1>4, <2>1 DEF Stands, Sound, Session, Stored, ValidSession
  <2>3. Holds(d, to) /\ d.ord = w.db.ord /\ d.aud = w.db.aud
    <3>1. \A r, e : e = StartAttempt(w.db, to, r) /\ e # Refused =>
            Holds(e, to) /\ e.ord = w.db.ord /\ e.aud = w.db.aud
      BY <2>2, AttemptStores DEF Sound
    <3> QED BY <1>5, <3>1
  <2> HIDE DEF d
  <2>4. /\ DOMAIN v = WorldFields /\ v.db = d /\ v.ses = to /\ v.plan = NoPlan
        /\ v.pv = NoPreview /\ v.pipe = w.pipe /\ v.ing = w.ing
        /\ v.inn = [w.inn EXCEPT !.chk = to.pos, !.dirty = FALSE]
    BY <1>5 DEF Sound, Shape, WorldFields
  <2>5. DOMAIN v.inn = DOMAIN w.inn /\ v.inn.restore = w.inn.restore
    BY <2>4 DEF Sound, Shape
  <2>6. Shape(v)
    BY <1>4, <2>4, <2>5 DEF Sound, Shape
  <2>7. Stored(v.db) /\ Session(v) /\ Agrees(v)
    BY <1>4, <2>3, <2>4 DEF Sound, Holds, Session, Agrees
  <2>8. Previewed(v) /\ Waiting(v) /\ Quiet(v) /\ Claimed(v)
    BY <1>4, <2>3, <2>4, <2>5, SuccessorRows
       DEF Sound, Previewed, Waiting, Quiet, Alive, Claimed
  <2>9. Step(w, v)
    BY <1>4, <2>3, <2>4, <2>5 DEF Step, Departs, Spares, Trusts
  <2> QED BY <1>4, <2>4, <2>6, <2>7, <2>8, <2>9 DEF Leads, Sound
<1> QED BY <1>1, <1>2, <1>3, <1>5

LEMMA NextLeads ==
  ASSUME NEW w, Sound(w), w.pv = NoPreview, w.ses.cur # NoOcc,
         Successor(w.db, w.ses.cur) # NoOcc, NEW f
  PROVE  Leads(w, Next_(w, f))
<1> DEFINE resume == w.ses.st \in Audible \/ w.play.status \in {"active", "loading"}
           to == [w.ses EXCEPT !.cur = Successor(w.db, w.ses.cur), !.pos = 0,
                               !.st = IF resume THEN "buffering" ELSE "paused"]
           status == IF resume THEN "loading"
                     ELSE IF w.play.status \in {"stopped", "completed"} THEN "stopped"
                     ELSE "paused"
           p == [PlanTo(w, to, status) EXCEPT
                  !.keep = w.ses.cur \in w.db.out /\ w.db.act = NoOcc]
           a == Advance(w)
           left == Commit(a, p, FALSE, f.write)
<1>1. \/ Next_(w, f) = left
      \/ Next_(w, f) = Prepare(left, "play", 0, TRUE)
  BY DEF Next_
<1>2. Near(w, a) /\ Sound(a) /\ a.pv = NoPreview /\ a.ses.cur # NoOcc /\ a.db = w.db
  <2>1. Calm(w, a)
    BY AdvanceCalm DEF Sound, Alive
  <2> QED BY <2>1, CalmNear, NearSound DEF Calm
<1>3. Successor(w.db, w.ses.cur) \in ToSet(w.db.ord)
  BY SuccessorIn DEF Sound, Stored, ValidSession
<1>4. /\ DOMAIN to = SessionFields /\ to.cur = Successor(w.db, w.ses.cur)
      /\ to.st \in Stirring
  BY DEF Sound, Shape, SessionFields, Stirring
<1> HIDE DEF to, status
<1>5. IsPlan(a.db, p)
  BY <1>2, <1>3, <1>4 DEF IsPlan, PlanFields, PlanTo
<1> HIDE DEF p, a
<1>6. Leads(a, left) /\ left.ses.cur # NoOcc
  <2>1. \A r : Leads(a, Commit(a, p, r, f.write)) /\ Commit(a, p, r, f.write).ses.cur # NoOcc
    BY <1>2, <1>5, CommitLeads
  <2> QED BY <2>1
<1> HIDE DEF left
<1>7. Leads(w, left)
  BY <1>2, <1>6, NearLeads
<1>8. Calm(left, Prepare(left, "play", 0, TRUE))
  BY <1>6, PrepareCalm DEF Leads, Sound, Alive
<1> QED BY <1>1, <1>7, <1>8, LeadsCalm

LEMMA TransportLeads ==
  ASSUME NEW w, Sound(w), w.pv = NoPreview, w.ses.cur # NoOcc, w.plan = NoPlan,
         NEW a \in Transports \ {"back"}, a = "pause" => ~Presented(w), NEW f,
         NEW x, x = Transport(w, a, f)
  PROVE  Leads(w, x) /\ (a \in {"pause", "stop"} => Follows(w, x))
<1> DEFINE v == Reattempted(w, a, f.write)
           u == [v EXCEPT !.play.back = FALSE]
<1>1. /\ Leads(w, v) /\ v.pv = NoPreview /\ v.ses.cur = w.ses.cur
      /\ a \notin {"retry", "resume"} => v = w
  BY ReattemptedLeads
<1>2. x \in {w, Intend(w, a), Err(w)}
      \/ (~Unavailable(w, a) /\
          x = CASE a = "pause" -> Pause(u, f)
            [] a = "resume" -> Resume(u)
            [] a = "retry" -> Buffer(NewGeneration(Advance(u)))
            [] a = "next" -> Next_(u, f)
            [] a = "stop" -> Stop(u, f)
            [] a = "return" -> Err(Advance(u)))
  BY DEF Transport
<1> HIDE DEF v
<1>3. Calm(v, u)
  BY <1>1 DEF Leads, Sound, Calm, Shape, WorldFields, Silent
<1> HIDE DEF u
<1>4. /\ Leads(w, u) /\ Fit(u) /\ u.pv = NoPreview /\ u.ses.cur # NoOcc
      /\ u.ses = v.ses /\ u.db = v.db
  <2>1. Leads(w, u)
    BY <1>1, <1>3, LeadsCalm
  <2> QED BY <1>1, <1>3, <2>1 DEF Calm, Leads, Sound, Fit, Alive
<1>5. Fit(w)
  BY DEF Sound, Fit, Alive
<1>6. CASE x \in {w, Intend(w, a), Err(w)}
  <2>1. Near(w, w) /\ Near(w, Intend(w, a)) /\ Near(w, Err(w))
    BY <1>5, FitItself, IntendNear, ErrCalm, CalmFit DEF Fit
  <2>2. Near(w, x)
    BY <1>6, <2>1
  <2> QED BY <2>2, NearSound, NearIsStep
<1>7. CASE a = "pause" /\ x = Pause(u, f)
  <2>1. ~Presented(w)
    BY <1>7
  <2>2. Near(w, u) /\ ~Presented(u)
    <3>1. u = [w EXCEPT !.play.back = FALSE]
      BY <1>1, <1>7 DEF u
    <3>2. Calm(w, u)
      BY <1>1, <1>3, <1>7
    <3>3. u.plan = w.plan /\ u.pipe = w.pipe /\ u.ses = w.ses
      BY <3>1 DEF Sound, Shape, WorldFields
    <3> QED BY <2>1, <3>2, <3>3, CalmNear DEF Presented
  <2>3. Near(w, x)
    BY <1>4, <1>7, <2>2, PauseNear, NearTwice
  <2> QED BY <2>3, NearSound, NearIsStep
<1>8. CASE a = "resume" /\ x = Resume(u)
  <2>1. Near(u, x)
    BY <1>4, <1>8, ResumeNear
  <2> QED BY <1>4, <1>8, <2>1, LeadsNear
<1>9. CASE a = "retry" /\ x = Buffer(NewGeneration(Advance(u)))
  <2> DEFINE n == NewGeneration(Advance(u))
  <2>1. Near(u, n) /\ Fit(n)
    BY <1>4, RotateCalm, CalmFit DEF Rotate, Fit
  <2> HIDE DEF n
  <2>2. Near(u, Buffer(n))
    BY <2>1, BufferNear, NearTwice
  <2> QED BY <1>4, <1>9, <2>2, LeadsNear DEF n
<1>10. CASE a = "next" /\ x = Next_(u, f) /\ ~Unavailable(w, a)
  <2>1. v = w
    BY <1>1, <1>10
  <2>2. Successor(u.db, u.ses.cur) # NoOcc
    BY <1>4, <1>10, <2>1 DEF Unavailable
  <2>3. Near(w, u) /\ Sound(u)
    BY <1>3, <2>1, CalmNear, NearSound
  <2>4. Leads(u, x)
    BY <1>4, <1>10, <2>2, <2>3, NextLeads
  <2> QED BY <1>10, <2>3, <2>4, NearLeads
<1>11. CASE a = "stop" /\ x = Stop(u, f)
  <2>1. v = w
    BY <1>1, <1>11
  <2>2. Near(w, u) /\ Sound(u) /\ Follows(w, u)
    BY <1>3, <2>1, CalmNear, NearSound
  <2>3. Sound(x) /\ Follows(u, x)
    BY <1>4, <1>11, <2>2, StopLeads
  <2>4. Follows(w, x)
    BY <1>4, <2>2, <2>3 DEF Follows
  <2> QED BY <2>3, <2>4, FollowsStep DEF Leads
<1>12. CASE a = "return" /\ x = Err(Advance(u))
  <2>1. Calm(u, x)
    BY <1>4, <1>12, AdvanceCalm, ErrCalm, CalmTwice DEF Fit, Calm
  <2> QED BY <1>4, <1>12, <2>1, LeadsCalm
<1> QED BY <1>2, <1>6, <1>7, <1>8, <1>9, <1>10, <1>11, <1>12 DEF Transports

LEMMA BackLeads ==
  ASSUME NEW w, Sound(w), w.pv = NoPreview, w.ses.cur # NoOcc, w.plan = NoPlan,
         NEW f, NEW v, v = Back(w, f)
  PROVE  Leads(w, v)
<1> DEFINE at == Captured(w)
           near == at.ses.pos <= BackThreshold /\ Predecessor(w.db, w.ses.cur) # NoOcc
           audible == w.ses.st \in Audible
           to == [at.ses EXCEPT !.cur = IF near THEN Predecessor(w.db, @) ELSE @,
                                !.pos = 0,
                                !.st = IF audible THEN "buffering" ELSE "paused"]
           again == w.db.act # NoOcc
           d == StartAttempt(w.db, to, again)
           a == StopAudio(Advance(w))
           i == [a EXCEPT !.ses.pos = w.inn.chk, !.ses.st = "paused",
                          !.play.back = FALSE, !.play.status = "error", !.play.err = TRUE]
           r == Rotate(w)
           y == [r EXCEPT !.db = d, !.ses = to, !.inn.chk = 0, !.inn.dirty = FALSE,
                 !.gate = audible,
                 !.play = [(IF near THEN Fresh("loading") ELSE @) EXCEPT
                            !.status = "loading", !.err = FALSE, !.seek = "no",
                            !.sought = FALSE, !.back = TRUE]]
<1>1. v = Err(i) \/ (v = Prepare(y, "back", 0, audible) /\ d # Refused)
  BY DEF Back
<1>2. Fit(w)
  BY DEF Sound, Fit, Alive
<1>3. ASSUME v = Err(i) PROVE Leads(w, v)
  <2>1. Calm(w, a)
    <3>1. Calm(w, Advance(w)) /\ Shape(Advance(w))
      BY <1>2, AdvanceCalm DEF Fit, Calm
    <3> QED BY <3>1, StopAudioCalm, CalmTwice
  <2>2. Near(w, a) /\ Fit(a) /\ a.pv = NoPreview
    BY <1>2, <2>1, CalmFit DEF Calm
  <2> HIDE DEF a
  <2>3. /\ DOMAIN i = WorldFields /\ i.db = a.db /\ i.pv = a.pv /\ i.plan = a.plan
        /\ i.pipe = a.pipe /\ i.inn = a.inn /\ i.ing = a.ing
        /\ i.ses = [a.ses EXCEPT !.pos = w.inn.chk, !.st = "paused"]
    BY <2>2 DEF Fit, Shape, WorldFields
  <2>4. /\ DOMAIN i.ses = SessionFields /\ i.ses.cur = a.ses.cur /\ i.ses.rev = a.ses.rev
        /\ i.ses.st \in Stirring
    BY ZenonT(30), <2>2, <2>3 DEF Fit, Shape, SessionFields, Stirring
  <2> HIDE DEF i
  <2>5. Shape(i)
    BY <2>2, <2>3, <2>4 DEF Fit, Shape
  <2>6. Near(a, i) /\ Fit(i)
    BY <2>2, <2>3, <2>4, <2>5, SetNear
  <2>7. Near(w, i)
    BY <2>2, <2>6, NearTwice
  <2>8. Near(w, Err(i))
    BY <1>2, <2>7, <2>6, ErrCalm, ThenCalm DEF Fit
  <2> QED BY <1>3, <2>8, NearIsStep
<1>4. Near(w, at) /\ Fit(at)
  BY <1>2, CapturedNear, NearFit DEF Fit
<1> HIDE DEF at
<1>5. at.ses.cur = w.ses.cur /\ at.ses.rev = w.ses.rev /\ DOMAIN at.ses = SessionFields
  BY <1>4 DEF Near, Fit, Shape
<1>6. /\ DOMAIN to = SessionFields /\ to.rev = w.ses.rev /\ to.st \in Stirring
      /\ to.cur = IF near THEN Predecessor(w.db, w.ses.cur) ELSE w.ses.cur
  BY <1>5 DEF SessionFields, Stirring
<1> HIDE DEF to
<1>7. /\ w.db.cur = w.ses.cur /\ w.db.rev = w.ses.rev /\ w.db.rev > 0 /\ w.db.ord # <<>>
      /\ w.db.ord \in Seq(Nat \ {NoOcc}) /\ w.db.cur \in ToSet(w.db.ord)
  BY DEF Sound, Agrees, Stored, ValidSession
<1>8. to.cur \in ToSet(w.db.ord) /\ to.cur # NoOcc
  <2>1. \A e \in ToSet(w.db.ord) : e # NoOcc
    BY <1>7, Elements
  <2>2. near => Predecessor(w.db, w.ses.cur) \in ToSet(w.db.ord)
    BY <1>7, PredecessorIn
  <2> QED BY <1>6, <1>7, <2>1, <2>2
<1> HIDE DEF near, audible, again
<1>9. Stands(to, w.db.ord)
  BY <1>6, <1>7, <1>8 DEF Stands, Sound, Stored
<1>10. ASSUME d # Refused PROVE Leads(w, y)
  <2>1. /\ Holds(d, to) /\ d.ord = w.db.ord /\ d.aud = w.db.aud /\ d.act = to.cur
        /\ w.ses.cur \in d.done
    BY <1>7, <1>9, <1>10, AttemptStores DEF Sound
  <2> HIDE DEF d
  <2>2. Calm(w, r) /\ Silent(r) /\ r.plan = NoPlan
    BY <1>2, RotateCalm DEF Fit
  <2> HIDE DEF r
  <2>3. /\ DOMAIN y = WorldFields /\ y.db = d /\ y.ses = to /\ y.plan = NoPlan
        /\ y.pv = NoPreview /\ y.pipe = NoPipe /\ y.ing = r.ing
        /\ y.inn = [r.inn EXCEPT !.chk = 0, !.dirty = FALSE]
    BY <2>2 DEF Calm, Silent, Shape, WorldFields
  <2> HIDE DEF y
  <2>4. DOMAIN y.inn = DOMAIN r.inn /\ y.inn.restore = w.inn.restore
    <3>1. r.inn.restore = w.inn.restore /\ DOMAIN r.inn = {"dirty", "ret", "chk", "restore"}
      BY <2>2 DEF Calm, Shape
    <3> QED BY <2>3, <3>1
  <2>5. Shape(y)
    BY <1>6, <2>2, <2>3, <2>4 DEF Calm, Shape
  <2>6. Stored(y.db) /\ Session(y) /\ Agrees(y) /\ Alive(y)
    BY <1>6, <1>8, <1>9, <2>1, <2>3 DEF Holds, Session, Agrees, Stands, Alive
  <2>7. Previewed(y)
    BY <2>1, <2>3, <2>4 DEF Sound, Previewed
  <2>8. Sound(y)
    BY <2>3, <2>5, <2>6, <2>7, AnewSound
  <2>9. Step(w, y)
    BY <1>6, <2>1, <2>3, <2>4 DEF Step, Departs, Spares, Trusts
  <2> QED BY <2>8, <2>9 DEF Leads
<1>11. ASSUME v = Prepare(y, "back", 0, audible), d # Refused PROVE Leads(w, v)
  <2>1. Leads(w, y) /\ Shape(y)
    BY <1>10, <1>11 DEF Leads, Sound
  <2>2. y.ses.cur # NoOcc
    <3>1. y.ses = to
      BY <1>2, RotateCalm DEF Fit, Calm, Shape, WorldFields
    <3> QED BY <1>8, <3>1
  <2> HIDE DEF y
  <2>3. Calm(y, v)
    BY <1>11, <2>1, <2>2, PrepareCalm DEF Alive
  <2> QED BY <2>1, <2>3, LeadsCalm
<1> QED BY <1>1, <1>3, <1>11

LEMMA ControlLeads ==
  ASSUME NEW w0, Sound(w0), w0.pv = NoPreview, NEW a \in Transports, NEW f,
         NEW v, v = Control(w0, a, f)
  PROVE  Leads(w0, v)
<1> DEFINE w == Reconcile(w0, f.early)
           u == [w EXCEPT !.plan = NoPlan]
<1>1. /\ Leads(w0, w) /\ w.pv = NoPreview
      /\ w.ok => w.plan = w0.plan /\ ~Presented(w) /\ (w.ses.cur = w0.ses.cur => w = w0)
  BY ReconcileLeads
<1>2. \/ v = w \/ v = Err(w)
      \/ /\ w.ok /\ w.ses.cur # NoOcc
         /\ w.ses.cur = w0.ses.cur \/ a \in {"pause", "stop"}
         /\ \/ w.plan # NoPlan /\ a = "retry" /\ v = Commit(w, w.plan, TRUE, f.write)
            \/ /\ w.plan = NoPlan \/ a = "stop"
               /\ \/ a = "back" /\ v = Back(w, f)
                  \/ a # "back" /\ v = Transport(u, a, f)
  BY DEF Control
<1> HIDE DEF w
<1>3. CASE v = w \/ v = Err(w)
  <2>1. Calm(w, v)
    BY <1>1, <1>3, CalmItself, ErrCalm DEF Leads, Sound
  <2> QED BY <1>1, <2>1, LeadsCalm
<1>4. CASE /\ w.ok /\ w.ses.cur # NoOcc
           /\ w.ses.cur = w0.ses.cur \/ a \in {"pause", "stop"}
           /\ w.plan # NoPlan /\ a = "retry" /\ v = Commit(w, w.plan, TRUE, f.write)
  <2>1. w = w0
    BY <1>1, <1>4
  <2>2. IsPlan(w.db, w.plan)
    BY <1>4, <2>1 DEF Sound, Waiting
  <2>3. \A r : Leads(w, Commit(w, w.plan, r, f.write))
    BY <1>1, <1>4, <2>2, CommitLeads DEF Leads
  <2> QED BY <1>4, <2>1, <2>3
<1>5. CASE /\ w.ok /\ w.ses.cur # NoOcc
           /\ w.ses.cur = w0.ses.cur \/ a \in {"pause", "stop"}
           /\ w.plan = NoPlan \/ a = "stop"
           /\ a = "back" /\ v = Back(w, f)
  <2>1. w = w0 /\ w.plan = NoPlan
    BY <1>1, <1>5
  <2> QED BY <1>1, <1>5, <2>1, BackLeads
<1>6. CASE /\ w.ok /\ w.ses.cur # NoOcc
           /\ w.ses.cur = w0.ses.cur \/ a \in {"pause", "stop"}
           /\ w.plan = NoPlan \/ a = "stop"
           /\ a # "back" /\ v = Transport(u, a, f)
  <2>1. Calm(w, u) /\ u.plan = NoPlan /\ u.ses = w.ses /\ u.pv = NoPreview /\ u.pipe = w.pipe
    BY <1>1 DEF Leads, Sound, Calm, Shape, WorldFields, Silent
  <2> HIDE DEF u
  <2>2. Near(w, u) /\ Sound(u) /\ Follows(w, u)
    BY <1>1, <2>1, CalmNear, NearSound DEF Leads
  <2>3. a = "pause" => ~Presented(u)
    BY <1>1, <1>6, <2>1 DEF Presented
  <2>4. Leads(u, v) /\ (a \in {"pause", "stop"} => Follows(u, v))
    <3>1. a \in Transports \ {"back"} /\ u.ses.cur # NoOcc
      BY <1>6, <2>1
    <3> QED BY <1>6, <2>1, <2>2, <2>3, <3>1, TransportLeads
  <2>5. CASE a \in {"pause", "stop"}
    <3>1. Step(w0, u)
      BY <1>1, <2>2, StepThenFollows DEF Leads
    <3> QED BY <2>4, <2>5, <3>1, StepThenFollows DEF Leads
  <2>6. CASE a \notin {"pause", "stop"}
    BY <1>1, <1>6, <2>2, <2>4, <2>6, NearLeads
  <2> QED BY <2>5, <2>6
<1> QED BY <1>2, <1>3, <1>4, <1>5, <1>6

LEMMA SeekLeads ==
  ASSUME NEW w0, Sound(w0), NEW to, NEW f, NEW x, x = Seek(w0, to, f)
  PROVE  Leads(w0, x)
<1> DEFINE w == Reconcile(w0, f.early)
           resume == \/ ActiveState(w) \in Audible
                     \/ w.play.status \in {"active", "loading"}
           yes == TRUE
           r == Rotate(w)
           v == [r EXCEPT !.gate = FALSE, !.play.back = FALSE,
                          !.play.sought = FALSE, !.play.err = FALSE]
           s == At(v, Duration)
           t == In(s, "paused")
           e == [t EXCEPT !.play.status = "completed", !.play.seek = "no",
                          !.play.sought = TRUE, !.inn.dirty = TRUE]
           i == In(v, IF resume THEN "buffering" ELSE "paused")
           g == [i EXCEPT !.play.status = IF resume THEN "loading" ELSE "paused",
                          !.play.seek = IF resume THEN "resume" ELSE "stay"]
<1>1. /\ Leads(w0, w)
      /\ w.ok /\ w.ses.cur = w0.ses.cur => w = w0
  BY ReconcileLeads
<1>2. \/ x = w \/ x = Err(w)
      \/ /\ w.ok /\ w.ses.cur = w0.ses.cur /\ Active(w) # NoOcc
         /\ x = Checkpointed(e, f.write) \/ x = Prepare(g, "seek", to, yes)
  BY DEF Seek
<1> HIDE DEF w, resume, yes
<1>3. CASE x = w \/ x = Err(w)
  <2>1. Calm(w, x)
    BY <1>1, <1>3, CalmItself, ErrCalm DEF Leads, Sound
  <2> QED BY <1>1, <2>1, LeadsCalm
<1>4. CASE /\ w.ok /\ w.ses.cur = w0.ses.cur /\ Active(w) # NoOcc
           /\ x = Checkpointed(e, f.write) \/ x = Prepare(g, "seek", to, yes)
  <2>1. w = w0
    BY <1>1, <1>4
  <2>2. Fit(w)
    BY <1>4, <2>1 DEF Sound, Fit, Alive, Active, InPreview
  <2>3. Near(w, v) /\ Fit(v)
    <3>1. Near(w, r) /\ Fit(r)
      BY <2>2, RotateCalm, CalmFit DEF Fit
    <3> HIDE DEF r
    <3>2. Calm(r, v)
      BY <3>1 DEF Fit, Calm, Shape, WorldFields, Silent
    <3> QED BY <2>2, <3>1, <3>2, ThenCalm
  <2> HIDE DEF v
  <2>4. CASE x = Checkpointed(e, f.write)
    <3>1. Near(w, s) /\ Fit(s)
      BY <2>3, AtNear, NearTwice, NearFit DEF Fit
    <3> HIDE DEF s
    <3>2. Near(w, t) /\ Fit(t)
      BY <3>1, InNear, NearTwice, NearFit DEF Fit, Stirring
    <3> HIDE DEF t
    <3>3. Calm(t, e)
      BY <3>2 DEF Fit, Calm, Shape, WorldFields, Silent
    <3> HIDE DEF e
    <3>4. Leads(w, e)
      BY <2>1, <2>2, <3>2, <3>3, ThenCalm, NearIsStep
    <3> QED BY <2>1, <2>4, <3>4, LeadsCheckpointed
  <2>5. CASE x = Prepare(g, "seek", to, yes)
    <3>1. Near(w, i) /\ Fit(i)
      BY <2>3, InNear, NearTwice, NearFit DEF Fit, Stirring
    <3> HIDE DEF i
    <3>2. Calm(i, g)
      BY <3>1 DEF Fit, Calm, Shape, WorldFields, Silent
    <3> HIDE DEF g
    <3>3. Near(w, g) /\ Fit(g)
      BY <2>2, <3>1, <3>2, ThenCalm
    <3>4. Calm(g, x)
      BY <2>5, <3>3, PrepareCalm DEF Fit
    <3> QED BY <2>1, <2>2, <3>3, <3>4, ThenCalm, NearIsStep
  <2> QED BY <1>4, <2>4, <2>5
<1> QED BY <1>2, <1>3, <1>4

-----------------------------------------------------------------------------
(* The preview.                                                            *)
LEMMA FreshAudId == ASSUME NEW id PROVE FreshAud(id) \in Nat \ {NoOcc}
<1> DEFINE top == CHOOSE m \in Occs : \A n \in Occs : n <= m
<1>1. top \in Nat
  BY StartAssumption
<1>2. AudIds = {top + 1, top + 2}
  BY DEF AudIds
<1> HIDE DEF top
<1>3. \E a \in AudIds : a # id
  BY <1>1, <1>2
<1>4. FreshAud(id) \in AudIds
  BY <1>3 DEF FreshAud
<1> QED BY <1>1, <1>2, <1>4 DEF NoOcc

(* The row of the preview is written, and the promise it keeps stays.      *)
LEMMA AuditionRewritten ==
  ASSUME NEW w, Sound(w), w.pv # NoPreview, NEW a, Audition(a), a.saved = w.pv.saved,
         NEW d, \/ d = Auditioned(w.db, w.ses, a)
                \/ d = CheckpointAudition(w.db, a) /\ d # Refused,
         NEW v, Shape(v), v.db = d, v.pv = a, v.ses = w.ses,
         v.plan = w.plan \/ v.plan = NoPlan, v.pipe = w.pipe,
         v.inn.restore = w.inn.restore
  PROVE  Sound(v) /\ Follows(w, v)
<1>1. /\ w.inn.restore = "ok" /\ w.db.aud # NoAud /\ w.db.aud.saved = w.pv.saved
      /\ w.db.cur = w.ses.cur /\ w.db.rev = w.ses.rev
  BY DEF Sound, Previewed, Agrees
<1>2. a # NoPreview /\ a # NoAud
  BY DEF Audition, AuditionFields, NoPreview, NoAud
<1>3. /\ Stored(d) /\ d.cur = w.db.cur /\ d.rev = w.db.rev /\ d.ord = w.db.ord
      /\ d.act = w.db.act /\ d.done = w.db.done /\ d.out = w.db.out
      /\ d.aud # NoAud /\ d.aud.id = a.id /\ d.aud.saved = a.saved
  <2>1. CASE d = Auditioned(w.db, w.ses, a)
    <3>1. /\ Stored(w.db)
          /\ w.ses.cur # NoOcc => w.ses.st \in Stirring
          /\ w.ses.cur = NoOcc => w.ses.st = "idle" /\ w.ses.pos = 0
      BY DEF Sound, Session
    <3>2. w.ses.cur = w.db.cur /\ w.ses.rev = w.db.rev /\ (a = NoAud \/ Audition(a))
      BY <1>1
    <3>3. /\ Holds(d, w.ses) /\ d.ord = w.db.ord /\ d.aud = a
          /\ d.done = w.db.done /\ d.out = w.db.out /\ d.act = w.db.act
      BY <2>1, <3>1, <3>2, AuditionStores
    <3> QED BY <1>1, <1>2, <3>3 DEF Holds
  <2>2. CASE d = CheckpointAudition(w.db, a) /\ d # Refused
    <3>1. /\ Holds(d, w.db) /\ d.ord = w.db.ord /\ d.done = w.db.done /\ d.out = w.db.out
          /\ d.act = w.db.act /\ d.aud # NoAud /\ d.aud.id = a.id /\ d.aud.saved = w.db.aud.saved
      BY <1>1, <2>2, CheckpointAuditionStores DEF Sound
    <3> QED BY <1>1, <3>1 DEF Holds
  <2> QED BY <2>1, <2>2
<1> QED BY <1>1, <1>2, <1>3, Rewritten DEF Alive

LEMMA PreviewResumeLeads ==
  ASSUME NEW w, Sound(w), w.pv # NoPreview, NEW f, NEW x, x = PreviewResume(w, f)
  PROVE  Leads(w, x)
<1> DEFINE again == [w.pv EXCEPT !.id = FreshAud(@), !.st = "buffering"]
           d == ReplaceAudition(w.db, w.ses, w.pv, again)
           failed == w.play.status = "error"
           y == [w EXCEPT !.db = d, !.pv = again]
           v == IF failed THEN Rotate(y) ELSE Advance(w)
           u == [v EXCEPT !.play.back = FALSE]
<1>1. x = Err(w) \/ (x = Buffer(u) /\ (failed => d # Refused))
  BY DEF PreviewResume, Rotate
<1>2. Fit(w)
  BY DEF Sound, Fit, Alive
<1>3. ASSUME x = Err(w) PROVE Leads(w, x)
  BY <1>3, ErrCalm, CalmIsStep DEF Sound
<1>4. ASSUME failed => d # Refused, x = Buffer(u) PROVE Leads(w, x)
  <2>1. Audition(again) /\ again.saved = w.pv.saved
    <3>1. Audition(w.pv)
      BY DEF Sound, Shape
    <3>2. FreshAud(w.pv.id) \in Nat \ {NoOcc}
      BY FreshAudId
    <3> QED BY <3>1, <3>2 DEF Audition, AuditionFields, Stirring
  <2>2. d # Refused => d = Auditioned(w.db, w.ses, again)
    BY DEF ReplaceAudition, Auditioned
  <2> HIDE DEF again, d
  <2>3. ASSUME failed PROVE Sound(y) /\ Follows(w, y) /\ y.pv # NoPreview
    <3>1. /\ DOMAIN y = WorldFields /\ y.db = d /\ y.pv = again /\ y.ses = w.ses
          /\ y.plan = w.plan /\ y.pipe = w.pipe /\ y.inn = w.inn /\ y.ing = w.ing
      BY DEF Sound, Shape, WorldFields
    <3> HIDE DEF y
    <3>2. Shape(y)
      BY <2>1, <3>1 DEF Sound, Shape
    <3>3. again # NoPreview
      BY <2>1 DEF Audition, AuditionFields, NoPreview
    <3> QED BY <1>4, <2>1, <2>2, <2>3, <3>1, <3>2, <3>3, AuditionRewritten
  <2> HIDE DEF y
  <2>4. PICK z : Sound(z) /\ Follows(w, z) /\ Fit(z) /\ Near(z, v) /\ Fit(v)
    <3>1. CASE failed
      <4>1. Fit(y) /\ v = Rotate(y)
        BY <2>3, <3>1 DEF Sound, Fit, Alive
      <4>2. Near(y, v) /\ Fit(v)
        BY <4>1, RotateCalm, CalmFit DEF Fit
      <4> QED BY <2>3, <3>1, <4>1, <4>2
    <3>2. CASE ~failed
      <4>1. v = Advance(w) /\ Follows(w, w)
        BY <3>2, NearItself, NearSound
      <4>2. Near(w, v) /\ Fit(v)
        BY <1>2, <4>1, AdvanceCalm, CalmFit DEF Fit
      <4> QED BY <1>2, <4>1, <4>2
    <3> QED BY <3>1, <3>2
  <2> HIDE DEF v
  <2>5. Calm(v, u)
    BY <2>4 DEF Fit, Calm, Shape, WorldFields, Silent
  <2> HIDE DEF u
  <2>6. Near(z, u) /\ Fit(u)
    BY <2>4, <2>5, ThenCalm
  <2>7. Near(z, x)
    BY <1>4, <2>6, BufferNear, NearTwice
  <2>8. Leads(z, x)
    BY <2>4, <2>7, NearIsStep
  <2> QED BY <2>4, <2>8, FollowsThenStep DEF Leads
<1> QED BY <1>1, <1>3, <1>4

LEMMA PreviewPauseLeads ==
  ASSUME NEW w, Sound(w), w.pv # NoPreview, NEW f, NEW x, x = PreviewPause(w, f)
  PROVE  Leads(w, x)
<1> DEFINE c == Captured(PauseAudio(w))
           r == Retain(Advance(c))
           i == In(r, "paused")
           u == [i EXCEPT !.play.back = FALSE, !.gate = FALSE, !.play.status = "paused",
                          !.inn.dirty = TRUE]
<1>1. x = Checkpointed(u, f.write)
  BY DEF PreviewPause
<1>2. Fit(w)
  BY DEF Sound, Fit, Alive
<1>3. Near(w, c) /\ Fit(c)
  <2>1. Near(w, PauseAudio(w)) /\ Fit(PauseAudio(w))
    BY <1>2, PauseAudioCalm, CalmFit DEF Fit
  <2> QED BY <2>1, CapturedNear, NearTwice, NearFit DEF Fit
<1> HIDE DEF c
<1>4. Near(w, r) /\ Fit(r)
  <2>1. Near(w, Advance(c)) /\ Fit(Advance(c))
    BY <1>2, <1>3, AdvanceCalm, ThenCalm DEF Fit
  <2>2. Calm(Advance(c), r)
    BY <2>1, RetainCalm DEF Fit
  <2> QED BY <1>2, <2>1, <2>2, ThenCalm
<1> HIDE DEF r
<1>5. Near(w, i) /\ Fit(i)
  BY <1>4, InNear, NearTwice, NearFit DEF Fit, Stirring
<1> HIDE DEF i
<1>6. Calm(i, u)
  BY <1>5 DEF Fit, Calm, Shape, WorldFields, Silent
<1> HIDE DEF u
<1>7. Leads(w, u)
  BY <1>2, <1>5, <1>6, ThenCalm, NearIsStep
<1> QED BY <1>1, <1>7, LeadsCheckpointed

LEMMA PreviewBackLeads ==
  ASSUME NEW w, Sound(w), w.pv # NoPreview, NEW f, NEW x, x = PreviewBack(w, f)
  PROVE  Leads(w, x)
<1> DEFINE audible == w.pv.st \in Audible /\ ~w.pv.inhibited
           failed == w.play.status = "error"
           from == [w.pv EXCEPT !.id = IF failed THEN FreshAud(@) ELSE @, !.pos = 0,
                                !.st = IF audible THEN "buffering" ELSE "paused"]
           d == IF failed THEN ReplaceAudition(w.db, w.ses, w.pv, from)
                ELSE CheckpointAudition(w.db, from)
           r == Rotate(w)
           y == [r EXCEPT !.db = d, !.pv = from, !.gate = audible,
                    !.play.status = "loading", !.play.err = FALSE,
                    !.play.seek = "no", !.play.back = TRUE]
<1>1. x = Err(w) \/ (x = Prepare(y, "back", 0, audible) /\ d # Refused)
  BY DEF PreviewBack
<1>2. ASSUME x = Err(w) PROVE Leads(w, x)
  BY <1>2, ErrCalm, CalmIsStep DEF Sound
<1>3. ASSUME d # Refused, x = Prepare(y, "back", 0, audible) PROVE Leads(w, x)
  <2>1. Audition(w.pv)
    BY DEF Sound, Shape
  <2>2. Audition(from) /\ from.saved = w.pv.saved
    BY <2>1, FreshAudId DEF Audition, AuditionFields, Stirring
  <2> HIDE DEF from, audible
  <2>3. d = Auditioned(w.db, w.ses, from) \/ d = CheckpointAudition(w.db, from)
    BY <1>3 DEF ReplaceAudition, Auditioned
  <2> HIDE DEF d
  <2>4. Calm(w, r) /\ Near(w, r) /\ Sound(r) /\ r.plan = NoPlan
    BY RotateCalm, CalmNear, NearSound DEF Sound
  <2> HIDE DEF r
  <2>5. /\ DOMAIN y = WorldFields /\ y.db = d /\ y.pv = from /\ y.ses = r.ses
        /\ y.plan = r.plan /\ y.pipe = r.pipe /\ y.inn = r.inn /\ y.ing = r.ing
    BY <2>4 DEF Calm, Shape, WorldFields
  <2> HIDE DEF y
  <2>6. Shape(y)
    BY <2>2, <2>4, <2>5 DEF Calm, Shape
  <2>7. Sound(y) /\ Follows(r, y)
    <3>1. r.db = w.db /\ r.ses = w.ses /\ r.pv = w.pv
      BY <2>4 DEF Calm
    <3> QED BY <1>3, <2>2, <2>3, <2>4, <2>5, <2>6, <3>1, AuditionRewritten
  <2>8. Leads(w, y)
    BY <2>4, <2>7, FollowsStep, NearLeads DEF Leads
  <2>9. Alive(y)
    BY <2>2, <2>5 DEF Alive, Audition, AuditionFields, NoPreview
  <2>10. Calm(y, x)
    BY <1>3, <2>6, <2>9, PrepareCalm
  <2> QED BY <2>8, <2>10, LeadsCalm
<1> QED BY <1>1, <1>2, <1>3

LEMMA FinishLeads ==
  ASSUME NEW w0, Sound(w0), w0.pv # NoPreview, NEW resume, NEW natural, NEW ok,
         NEW v, v = Finish(w0, resume, natural, ok)
  PROVE  Leads(w0, v)
<1> DEFINE w == PauseAudio(w0)
           c == IF natural THEN w ELSE Captured(w)
           i == In(c, "paused")
           p == i.pv
           plays == /\ resume /\ ~p.inhibited /\ p.saved.st \in Audible
                    /\ p.saved.cur # NoOcc
           to == [w.ses EXCEPT !.cur = p.saved.cur, !.pos = p.saved.pos,
                               !.st = IF plays THEN "buffering"
                                      ELSE RestingState(p.saved.cur)]
           d == FinishAudition(w.db, to, p)
           n == [w EXCEPT !.pv = NoPreview]
           r == Rotate(n)
           back == [r EXCEPT
                     !.db = d, !.ses = to, !.inn.ret = plays, !.gate = plays,
                     !.play = Fresh(IF plays THEN "loading" ELSE to.st),
                     !.inn.dirty = FALSE, !.inn.chk = to.pos]
           e == [w EXCEPT !.pv = p, !.gate = FALSE, !.play.status = "error",
                          !.play.err = TRUE, !.inn.dirty = TRUE]
           yes == TRUE
<1>1. \/ v = Err(e)
      \/ /\ d # Refused
         /\ \/ v = back
            \/ plays /\ v = Prepare(back, "continue", 0, yes)
            \/ plays /\ v = Prepare(back, "play", to.pos, yes)
  <2>1. v = IF ~ok \/ d = Refused THEN Err(e)
            ELSE IF ~plays THEN back
            ELSE IF natural THEN Continue(back) ELSE Prepare(back, "play", to.pos, yes)
    BY Zenon DEF Finish
  <2> HIDE DEF e, d, plays, back, to
  <2>2. Continue(back) = Prepare(back, "continue", 0, yes)
    BY DEF Continue
  <2> HIDE DEF yes
  <2> QED BY <2>1, <2>2
<1> HIDE DEF yes
<1>2. Fit(w0)
  BY DEF Sound, Fit, Alive
<1>3. Calm(w0, w) /\ Near(w0, w) /\ Fit(w) /\ Sound(w)
  BY <1>2, PauseAudioCalm, CalmFit, NearSound DEF Fit
<1>4. /\ w.pv # NoPreview /\ w.pv = w0.pv /\ w.ses = w0.ses /\ w.inn.restore = "ok"
      /\ w0.inn.restore = "ok" /\ w.db = w0.db
      /\ w.pv.saved.cur = w.ses.cur /\ w.db.cur = w.ses.cur /\ w.db.rev = w.ses.rev
      /\ DOMAIN w.ses = SessionFields
  BY <1>3 DEF Calm, Sound, Shape, Previewed, Agrees
<1> HIDE DEF w
<1>5. Near(w, c) /\ Fit(c)
  BY <1>3, CapturedNear, FitItself, NearFit DEF Fit
<1> HIDE DEF c
<1>6. Near(w, i) /\ Fit(i)
  BY <1>5, InNear, NearTwice, NearFit DEF Fit, Stirring
<1> HIDE DEF i
<1>7. Audition(p) /\ p # NoPreview /\ p.id = w.pv.id /\ p.saved = w.pv.saved
  BY <1>4, <1>6 DEF Near, Fit, Shape
<1> HIDE DEF p
<1>8. ASSUME v = Err(e) PROVE Leads(w0, v)
  <2>1. /\ DOMAIN e = WorldFields /\ e.db = w.db /\ e.pv = p /\ e.ses = w.ses
        /\ e.plan = w.plan /\ e.pipe = w.pipe /\ e.inn = [w.inn EXCEPT !.dirty = TRUE]
        /\ e.ing = w.ing
    BY <1>3 DEF Fit, Shape, WorldFields
  <2> HIDE DEF e
  <2>2. DOMAIN e.inn = DOMAIN w.inn /\ e.inn.restore = w.inn.restore
    BY <1>3, <2>1 DEF Fit, Shape
  <2>3. Shape(e)
    BY <1>3, <1>7, <2>1, <2>2 DEF Fit, Shape
  <2>4. Near(w, e)
    BY <1>3, <1>4, <1>7, <2>1, <2>2, <2>3 DEF Near, Fit, Session
  <2>5. Calm(e, v)
    BY <1>8, <2>3, ErrCalm
  <2>6. Near(w, v)
    BY <1>3, <2>4, <2>5, ThenCalm
  <2>7. Near(w0, v)
    BY <1>3, <2>6, NearTwice
  <2> QED BY <2>7, NearIsStep
<1>9. /\ DOMAIN to = SessionFields /\ to.rev = w.ses.rev /\ to.cur = p.saved.cur
      /\ to.pos = p.saved.pos
      /\ to.st = IF plays THEN "buffering" ELSE RestingState(p.saved.cur)
  BY <1>4 DEF SessionFields
<1>10. to.cur = w.ses.cur /\ (plays => to.cur # NoOcc)
  BY <1>4, <1>7, <1>9
<1>11. /\ to.cur # NoOcc => to.st \in Stirring
       /\ to.cur = NoOcc => to.st = "idle" /\ to.pos = 0
  BY <1>7, <1>9 DEF RestingState, Stirring, Audition, SavedOK
<1> HIDE DEF to, plays
<1>12. ASSUME d # Refused PROVE Leads(w0, back) /\ back.ses = to
  <2>1. d = Auditioned(w.db, to, NoAud)
    BY <1>12 DEF FinishAudition, Auditioned
  <2> HIDE DEF d
  <2>2. Holds(d, to) /\ d.ord = w.db.ord /\ d.aud = NoAud
    <3>1. Stored(w.db) /\ to.cur = w.db.cur /\ to.rev = w.db.rev
      BY <1>3, <1>4, <1>9, <1>10 DEF Sound
    <3> QED BY <1>11, <2>1, <3>1, AuditionStores
  <2>3. Shape(n) /\ n.pv = NoPreview /\ n.inn = w.inn
    BY <1>3 DEF Fit, Shape, WorldFields
  <2> HIDE DEF n
  <2>4. /\ Shape(r) /\ r.pv = NoPreview /\ r.inn.restore = "ok" /\ r.plan = NoPlan /\ Silent(r)
    BY <1>4, <2>3, RotateCalm DEF Calm
  <2> HIDE DEF r
  <2>5. /\ DOMAIN back = WorldFields /\ back.db = d /\ back.ses = to /\ back.plan = NoPlan
        /\ back.pv = NoPreview /\ back.pipe = NoPipe /\ back.ing = r.ing
        /\ back.task = r.task /\ back.effect = r.effect /\ back.late = r.late
        /\ back.mail = r.mail
        /\ back.inn = [r.inn EXCEPT !.ret = plays, !.dirty = FALSE, !.chk = to.pos]
    BY <2>4 DEF Silent, Shape, WorldFields
  <2> HIDE DEF back
  <2>6. DOMAIN back.inn = DOMAIN r.inn /\ back.inn.restore = "ok"
    BY <2>4, <2>5 DEF Shape
  <2>7. Shape(back)
    BY <1>9, <2>4, <2>5, <2>6 DEF Shape
  <2>8. Silent(back)
    BY <2>4, <2>5 DEF Silent
  <2>9. Stored(back.db) /\ Session(back) /\ Agrees(back) /\ Previewed(back)
    <3>1. to.rev \in Nat
      BY <1>3, <1>9 DEF Sound, Session
    <3> QED BY <1>11, <2>2, <2>5, <3>1 DEF Holds, Session, Agrees, Previewed
  <2>10. Sound(back)
    BY <2>5, <2>7, <2>8, <2>9, AnewSound
  <2>11. Step(w0, back)
    BY <1>4, <1>7, <1>9, <2>5, <2>6 DEF Step, Departs, Spares, Trusts
  <2> QED BY <2>5, <2>10, <2>11 DEF Leads
<1> HIDE DEF back, d
<1>13. ASSUME d # Refused, NEW op, NEW pos, v = Prepare(back, op, pos, yes), plays
       PROVE  Leads(w0, v)
  <2>1. Leads(w0, back) /\ Shape(back) /\ Alive(back)
    BY <1>10, <1>12, <1>13 DEF Leads, Sound, Alive
  <2>2. Calm(back, v)
    BY <1>13, <2>1, PrepareCalm
  <2> QED BY <2>1, <2>2, LeadsCalm
<1> QED BY <1>1, <1>8, <1>12, <1>13

LEMMA PreviewControlLeads ==
  ASSUME NEW w, Sound(w), w.pv # NoPreview, NEW a \in Transports, NEW f,
         NEW v, v = PreviewControl(w, a, f)
  PROVE  Leads(w, v)
<1> DEFINE yes == TRUE
           no == FALSE
<1>1. \/ v = Err(w) \/ v = Finish(w, no, no, f.write) \/ v = Finish(w, yes, no, f.write)
      \/ v = PreviewPause(w, f) \/ v = PreviewResume(w, f) \/ v = PreviewBack(w, f)
  BY DEF PreviewControl, Transports
<1> HIDE DEF yes, no
<1>2. CASE v = Err(w)
  BY <1>2, ErrCalm, CalmIsStep DEF Sound
<1>3. CASE v = Finish(w, no, no, f.write) \/ v = Finish(w, yes, no, f.write)
  BY <1>3, FinishLeads
<1> QED BY <1>1, <1>2, <1>3, PreviewPauseLeads, PreviewResumeLeads, PreviewBackLeads

-----------------------------------------------------------------------------
(* Events of the pipeline.                                                 *)
LEMMA HerePlan ==
  ASSUME NEW w, Sound(w), w.ses.cur # NoOcc,
         NEW p, DOMAIN p = PlanFields, p.occ = w.ses.cur, ~p.keep,
         DOMAIN p.to = SessionFields, p.to.st \in Stirring,
         p.to.cur = w.ses.cur \/ p.to.cur \in ToSet(w.db.ord)
  PROVE  IsPlan(w.db, p)
<1>1. w.db.cur = w.ses.cur /\ (w.db.cur # NoOcc => w.db.cur \in ToSet(w.db.ord))
  BY DEF Sound, Agrees, Stored, ValidSession
<1> QED BY <1>1 DEF IsPlan

LEMMA PreviewFailedLeads ==
  ASSUME NEW w, Sound(w), w.pv # NoPreview, NEW k, NEW ok, NEW x, x = PreviewFailed(w, k, ok)
  PROVE  Leads(w, x)
<1> DEFINE g == Failing(w)
           v == [g EXCEPT !.pv.inhibited = @ \/ k = "lost", !.inn.dirty = TRUE]
           d == RecordAuditionFailure(v.db, v.ses, v.pv)
           y == [v EXCEPT !.db = d, !.inn.dirty = FALSE]
<1>1. x = w \/ x = Reset(v) \/ (d # Refused /\ x = Reset(y))
  BY DEF PreviewFailed
<1>2. Fit(w)
  BY DEF Sound, Fit, Alive
<1>3. Near(w, g) /\ Fit(g) /\ Audition(g.pv) /\ g.pv # NoPreview
  <2>1. Near(w, g) /\ Fit(g)
    BY <1>2, FailingNear, NearFit DEF Fit
  <2> QED BY <2>1 DEF Near, Fit, Shape
<1> HIDE DEF g
<1>4. /\ DOMAIN v = WorldFields /\ v.db = g.db /\ v.ses = g.ses /\ v.plan = g.plan
      /\ v.pipe = g.pipe /\ v.inn = [g.inn EXCEPT !.dirty = TRUE] /\ v.ing = g.ing
      /\ v.pv = [g.pv EXCEPT !.inhibited = @ \/ k = "lost"]
  BY <1>3 DEF Fit, Shape, WorldFields
<1>5. d # Refused => d = CheckpointAudition(v.db, v.pv)
  BY DEF RecordAuditionFailure
<1> HIDE DEF v
<1>6. /\ DOMAIN v.inn = DOMAIN g.inn /\ v.inn.restore = g.inn.restore
      /\ Audition(v.pv) /\ v.pv.id = g.pv.id /\ v.pv.saved = g.pv.saved
  <2>1. DOMAIN v.inn = DOMAIN g.inn /\ v.inn.restore = g.inn.restore
    BY <1>3, <1>4 DEF Fit, Shape
  <2>2. Audition(v.pv) /\ v.pv.id = g.pv.id /\ v.pv.saved = g.pv.saved
    BY <1>3, <1>4 DEF Audition, AuditionFields
  <2> QED BY <2>1, <2>2
<1>7. Shape(v) /\ v.pv # NoPreview
  BY <1>3, <1>4, <1>6 DEF Fit, Shape, Audition, AuditionFields, NoPreview
<1>8. Near(g, v)
  BY <1>3, <1>4, <1>6, <1>7 DEF Near, Fit, Session, Alive
<1>9. Near(w, v)
  BY <1>3, <1>8, NearTwice
<1>10. Sound(v) /\ Follows(w, v)
  BY <1>9, NearSound
<1>11. Leads(w, v)
  BY <1>10, FollowsStep DEF Leads
<1>12. ASSUME d # Refused PROVE Leads(w, y) /\ Shape(y)
  <2>1. /\ DOMAIN y = WorldFields /\ y.db = d /\ y.pv = v.pv /\ y.ses = v.ses
        /\ y.plan = v.plan /\ y.pipe = v.pipe /\ y.ing = v.ing
        /\ y.inn = [v.inn EXCEPT !.dirty = FALSE]
    BY <1>7 DEF Shape, WorldFields
  <2> HIDE DEF y, d
  <2>2. DOMAIN y.inn = DOMAIN v.inn /\ y.inn.restore = v.inn.restore
    BY <1>7, <2>1 DEF Shape
  <2>3. Shape(y)
    BY <1>7, <2>1, <2>2 DEF Shape
  <2>4. Sound(y) /\ Follows(v, y)
    BY <1>5, <1>6, <1>7, <1>10, <1>12, <2>1, <2>2, <2>3, AuditionRewritten
  <2>5. Step(w, y)
    BY <1>10, <2>4, FollowsStep, FollowsThenStep
  <2> QED BY <2>3, <2>4, <2>5 DEF Leads
<1> HIDE DEF y, d
<1>13. CASE x = w
  BY <1>13, NearItself, NearIsStep
<1>14. CASE x = Reset(v)
  BY <1>7, <1>11, <1>14, ResetCalm, LeadsCalm
<1>15. CASE d # Refused /\ x = Reset(y)
  BY <1>12, <1>15, ResetCalm, LeadsCalm
<1> QED BY <1>1, <1>13, <1>14, <1>15

LEMMA ReturnFailedLeads ==
  ASSUME NEW w, Sound(w), w.pv = NoPreview, w.ses.cur # NoOcc, NEW ok,
         NEW x, x = ReturnFailed(w, ok)
  PROVE  Leads(w, x)
<1> DEFINE g == Failing(w)
           v == [g EXCEPT !.inn.dirty = TRUE]
           d == Update(v.db, v.ses)
           y == [v EXCEPT !.db = d, !.inn.dirty = FALSE, !.inn.chk = v.ses.pos]
<1>1. x = Reset(v) \/ x = Reset(y)
  BY DEF ReturnFailed
<1>2. Fit(w)
  BY DEF Sound, Fit, Alive
<1>3. Near(w, g) /\ Fit(g)
  BY <1>2, FailingNear, NearFit DEF Fit
<1> HIDE DEF g
<1>4. Calm(g, v)
  BY <1>3 DEF Fit, Calm, Shape, WorldFields, Silent
<1> HIDE DEF v
<1>5. Near(w, v) /\ Fit(v) /\ Sound(v) /\ Follows(w, v)
  BY <1>2, <1>3, <1>4, ThenCalm, NearSound
<1>6. Leads(w, v) /\ v.pv = NoPreview /\ v.ses.cur # NoOcc
  BY <1>5, FollowsStep DEF Leads, Near
<1>7. Leads(w, y) /\ Shape(y)
  <2>1. /\ DOMAIN y = WorldFields /\ y.db = d /\ y.pv = v.pv /\ y.ses = v.ses
        /\ y.plan = v.plan /\ y.pipe = v.pipe /\ y.ing = v.ing
        /\ y.inn = [v.inn EXCEPT !.dirty = FALSE, !.chk = v.ses.pos]
    BY <1>5 DEF Fit, Shape, WorldFields
  <2> HIDE DEF y
  <2>2. DOMAIN y.inn = DOMAIN v.inn /\ y.inn.restore = v.inn.restore
    BY <1>5, <2>1 DEF Fit, Shape
  <2>3. Shape(y)
    BY <1>5, <2>1, <2>2 DEF Fit, Shape
  <2>4. /\ Stored(v.db) /\ v.ses.cur = v.db.cur /\ v.ses.rev = v.db.rev
        /\ v.ses.cur # NoOcc => v.ses.st \in Stirring
        /\ v.ses.cur = NoOcc => v.ses.st = "idle" /\ v.ses.pos = 0
    BY <1>5, <1>6 DEF Sound, Agrees, Session
  <2>5. /\ Holds(d, v.ses) /\ d.ord = v.db.ord /\ d.aud = v.db.aud
        /\ d.done = v.db.done /\ d.out = v.db.out /\ d.act = v.db.act
    BY <2>4, UpdateStores
  <2> HIDE DEF d
  <2>6. Sound(y) /\ Follows(v, y)
    <3>1. Stored(y.db) /\ y.db.cur = v.db.cur /\ y.db.rev = v.db.rev
      BY <2>1, <2>4, <2>5 DEF Holds
    <3> QED BY <1>5, <1>6, <2>1, <2>2, <2>3, <2>5, <3>1, Rewritten DEF Alive
  <2>7. Step(w, y)
    BY <1>5, <2>6, FollowsStep, FollowsThenStep
  <2> QED BY <2>3, <2>6, <2>7 DEF Leads
<1> HIDE DEF y
<1>8. CASE x = Reset(v)
  BY <1>6, <1>8, <1>5, ResetCalm, LeadsCalm DEF Fit
<1>9. CASE x = Reset(y)
  BY <1>7, <1>9, ResetCalm, LeadsCalm
<1> QED BY <1>1, <1>8, <1>9

LEMMA TrackFailedLeads ==
  ASSUME NEW w, Sound(w), w.pv = NoPreview, w.ses.cur # NoOcc, NEW f,
         NEW x, x = TrackFailed(w, f)
  PROVE  Leads(w, x)
<1> DEFINE v == Sample(w)
           to == [v.ses EXCEPT !.st = "paused"]
           p == [PlanTo(v, to, "error") EXCEPT !.err = TRUE]
           no == FALSE
           left == Commit(v, p, no, f.write)
<1>1. x = w \/ x = Reset(left) \/ x = Refresh(Failing(left))
  BY DEF TrackFailed
<1>2. Near(w, v) /\ Sound(v) /\ v.pv = NoPreview /\ v.ses.cur # NoOcc
  <2>1. Near(w, v)
    BY SampleNear DEF Sound, Alive
  <2> QED BY <2>1, NearSound DEF Near
<1> HIDE DEF v
<1>3. DOMAIN to = SessionFields /\ to.cur = v.ses.cur /\ to.st \in Stirring
  BY <1>2 DEF Sound, Shape, SessionFields, Stirring
<1> HIDE DEF to
<1>4. DOMAIN p = PlanFields /\ p.occ = v.ses.cur /\ ~p.keep /\ p.to = to
  BY DEF PlanFields, PlanTo
<1> HIDE DEF p, no
<1>5. IsPlan(v.db, p)
  BY <1>2, <1>3, <1>4, HerePlan
<1>6. Leads(v, left) /\ left.pv = NoPreview /\ left.ses.cur # NoOcc
  BY <1>2, <1>5, CommitLeads
<1> HIDE DEF left
<1>7. Leads(w, left) /\ Fit(left)
  BY <1>2, <1>6, NearLeads DEF Leads, Sound, Fit, Alive
<1>8. CASE x = w
  BY <1>8, NearItself, NearIsStep
<1>9. CASE x = Reset(left)
  BY <1>7, <1>9, ResetCalm, LeadsCalm DEF Fit
<1>10. CASE x = Refresh(Failing(left))
  <2>1. Near(left, Failing(left)) /\ Fit(Failing(left))
    BY <1>7, FailingNear, NearFit DEF Fit
  <2>2. Near(left, x)
    BY <1>7, <1>10, <2>1, RefreshCalm, ThenCalm DEF Fit
  <2> QED BY <1>7, <2>2, LeadsNear
<1> QED BY <1>1, <1>8, <1>9, <1>10

LEMMA OutputLostLeads ==
  ASSUME NEW w, Sound(w), w.pv = NoPreview, w.ses.cur # NoOcc, NEW f,
         NEW x, x = OutputLost(w, f)
  PROVE  Leads(w, x)
<1> DEFINE g == [w EXCEPT !.gate = FALSE]
           v == Sample(g)
           at == Captured(v).ses.pos
           pos == IF at > v.ses.pos THEN at ELSE v.ses.pos
           m == [v EXCEPT !.ses.pos = pos, !.play.seek = "no"]
           n == NewGeneration(m)
           d == [n EXCEPT !.inn.dirty = TRUE]
           e == Refresh(Failing(d))
<1>1. x = Checkpointed(e, f.write)
  BY DEF OutputLost
<1>2. Fit(w)
  BY DEF Sound, Fit, Alive
<1>3. Near(w, g) /\ Fit(g)
  <2>1. Calm(w, g)
    BY <1>2 DEF Fit, Calm, Shape, WorldFields, Silent
  <2> QED BY <1>2, <2>1, CalmFit
<1> HIDE DEF g
<1>4. Near(w, v) /\ Fit(v)
  BY <1>3, SampleNear, NearTwice, NearFit DEF Fit
<1> HIDE DEF v, pos
<1>5. Near(w, m) /\ Fit(m)
  <2>1. v.pv = NoPreview
    BY <1>4 DEF Near
  <2>2. v.ses.st \in Stirring
    BY <1>4, <2>1 DEF Fit, Alive, Session
  <2>3. /\ DOMAIN m = WorldFields /\ m.db = v.db /\ m.pv = v.pv /\ m.plan = v.plan
        /\ m.pipe = v.pipe /\ m.inn = v.inn /\ m.ing = v.ing
        /\ m.ses = [v.ses EXCEPT !.pos = pos]
    BY <1>4 DEF Fit, Shape, WorldFields
  <2> HIDE DEF m
  <2>4. /\ DOMAIN m.ses = SessionFields /\ m.ses.cur = v.ses.cur /\ m.ses.rev = v.ses.rev
        /\ m.ses.st \in Stirring
    BY <1>4, <2>2, <2>3 DEF Fit, Shape, SessionFields
  <2>5. Shape(m)
    BY <1>4, <2>3, <2>4 DEF Fit, Shape
  <2>6. Near(v, m) /\ Fit(m)
    BY <1>4, <2>1, <2>3, <2>4, <2>5, SetNear
  <2> QED BY <1>4, <2>6, NearTwice
<1> HIDE DEF m
<1>6. Near(w, n) /\ Fit(n)
  BY <1>2, <1>5, NewGenerationCalm, ThenCalm DEF Fit
<1> HIDE DEF n
<1>7. Near(w, d) /\ Fit(d)
  <2>1. Calm(n, d)
    BY <1>6 DEF Fit, Calm, Shape, WorldFields, Silent
  <2> QED BY <1>2, <1>6, <2>1, ThenCalm
<1> HIDE DEF d
<1>8. Near(w, e)
  <2>1. Near(w, Failing(d)) /\ Fit(Failing(d))
    BY <1>7, FailingNear, NearTwice, NearFit DEF Fit
  <2> QED BY <1>2, <2>1, RefreshCalm, ThenCalm DEF Fit
<1> HIDE DEF e
<1> QED BY <1>1, <1>8, NearIsStep, LeadsCheckpointed

LEMMA TrackCompletedLeads ==
  ASSUME NEW w, Sound(w), w.pv = NoPreview, w.ses.cur # NoOcc, NEW pos, NEW f,
         NEW x, x = TrackCompleted(w, pos, f)
  PROVE  Leads(w, x)
<1> DEFINE next == Successor(w.db, w.ses.cur)
           resume == w.ses.st \in Audible \/ w.play.status \in {"active", "loading"}
           end == [w.ses EXCEPT !.pos = pos, !.st = "paused"]
           to == [end EXCEPT !.cur = next, !.pos = 0,
                        !.st = IF resume THEN "buffering" ELSE "paused"]
           here == [w.ses EXCEPT !.pos = pos]
           unknown == [PlanTo(w, here, "completed") EXCEPT !.resolve = TRUE]
           last == PlanTo(w, end, "completed")
           on == PlanTo(w, to, IF resume THEN "loading" ELSE "paused")
           no == FALSE
           left == IF next = NoOcc THEN Commit(w, last, no, f.write)
                   ELSE Commit(w, on, no, f.write)
<1>1. x = Reset(Freeze(w, unknown)) \/ x = Reset(Continue(left)) \/ x = Reset(left)
  BY DEF TrackCompleted
<1>2. next # NoOcc => next \in ToSet(w.db.ord)
  BY SuccessorIn DEF Sound, Stored, ValidSession
<1> HIDE DEF next, resume
<1>3. /\ DOMAIN here = SessionFields /\ here.cur = w.ses.cur /\ here.st \in Stirring
      /\ here.rev = w.ses.rev
      /\ DOMAIN end = SessionFields /\ end.cur = w.ses.cur /\ end.st \in Stirring
  BY DEF Sound, Shape, Session, SessionFields, Stirring
<1> HIDE DEF here, end
<1>4. DOMAIN to = SessionFields /\ to.cur = next /\ to.st \in Stirring
  BY <1>3 DEF SessionFields, Stirring
<1> HIDE DEF to
<1>5. /\ DOMAIN unknown = PlanFields /\ unknown.occ = w.ses.cur /\ ~unknown.keep
      /\ unknown.to = here
      /\ DOMAIN last = PlanFields /\ last.occ = w.ses.cur /\ ~last.keep /\ last.to = end
      /\ DOMAIN on = PlanFields /\ on.occ = w.ses.cur /\ ~on.keep /\ on.to = to
  BY DEF PlanFields, PlanTo
<1> HIDE DEF unknown, last, on, no
<1>6. IsPlan(w.db, unknown) /\ IsPlan(w.db, last) /\ (next # NoOcc => IsPlan(w.db, on))
  BY <1>2, <1>3, <1>4, <1>5, HerePlan
<1>7. Leads(w, Freeze(w, unknown))
  BY <1>3, <1>5, <1>6, FreezeLeads DEF Here
<1>8. Leads(w, left) /\ left.ses.cur # NoOcc
  BY <1>6, CommitLeads
<1> HIDE DEF left
<1>9. Leads(w, Continue(left))
  <2>1. \A b : Calm(left, Prepare(left, "continue", 0, b))
    BY <1>8, PrepareCalm DEF Leads, Sound, Alive
  <2>2. PICK b : b = TRUE
    OBVIOUS
  <2>3. Continue(left) = Prepare(left, "continue", 0, b)
    BY <2>2, Zenon DEF Continue
  <2> QED BY <1>8, <2>1, <2>3, LeadsCalm
<1>10. ASSUME NEW y, Leads(w, y), x = Reset(y) PROVE Leads(w, x)
  BY <1>10, ResetCalm, LeadsCalm DEF Leads, Sound
<1> QED BY SMTT(30), <1>1, <1>7, <1>8, <1>9, <1>10

LEMMA CompletedLeads ==
  ASSUME NEW w, Sound(w), Alive(w), NEW pos, NEW f, NEW x, x = Completed(w, pos, f)
  PROVE  Leads(w, x)
<1> DEFINE u == [w EXCEPT !.pv.pos = pos]
           yes == TRUE
           y == Finish(u, yes, yes, f.write)
<1>1. \/ x = w
      \/ w.pv # NoPreview /\ x = Reset(y)
      \/ w.pv = NoPreview /\ x = TrackCompleted(w, pos, f)
  BY Zenon DEF Completed, InPreview
<1>2. CASE x = w
  BY <1>2, NearItself, NearIsStep
<1>3. CASE w.pv # NoPreview /\ x = Reset(y)
  <2>1. u = At(w, pos)
    BY <1>3 DEF At, InPreview
  <2> HIDE DEF u, yes
  <2>2. Near(w, u) /\ Sound(u) /\ u.pv # NoPreview
    <3>1. Near(w, u)
      BY <2>1, AtNear DEF Sound, Fit
    <3> QED BY <1>3, <3>1, NearSound DEF Near
  <2>3. Leads(w, y)
    BY <2>2, FinishLeads, NearLeads
  <2> HIDE DEF y
  <2> QED BY <1>3, <2>3, ResetCalm, LeadsCalm DEF Leads, Sound
<1>4. CASE w.pv = NoPreview /\ x = TrackCompleted(w, pos, f)
  BY <1>4, TrackCompletedLeads DEF Alive
<1> QED BY <1>1, <1>2, <1>3, <1>4

LEMMA ShownLeads ==
  ASSUME NEW w, Sound(w), Alive(w), NEW k, NEW pos, NEW f, NEW x, x = Shown(w, k, pos, f)
  PROVE  Leads(w, x)
<1> DEFINE v == Absorbed(w, k, pos)
<1>1. PICK seen \in {Reset(v), Refresh(v)} : x = seen \/ x = Checkpointed(seen, f.write)
  BY DEF Shown
<1>2. Fit(w)
  BY DEF Sound, Fit
<1>3. Near(w, v) /\ Fit(v)
  BY <1>2, AbsorbedNear, NearFit DEF Fit
<1> HIDE DEF v
<1>4. Leads(w, seen)
  BY <1>1, <1>2, <1>3, ResetCalm, RefreshCalm, ThenCalm, NearIsStep DEF Fit
<1> QED BY <1>1, <1>4, LeadsCheckpointed

LEMMA ProcessLeads ==
  ASSUME NEW w0, Sound(w0), Alive(w0), NEW e, NEW f, NEW x, x = Process(w0, e, f)
  PROVE  Leads(w0, x)
<1> DEFINE k == Normalized(w0, e.k)
           w == IF e.k = "backFailed" THEN [w0 EXCEPT !.play.back = FALSE] ELSE w0
           back == [w EXCEPT !.inn.ret = FALSE]
<1>1. \/ x = w0 \/ x = w
      \/ w.pv # NoPreview /\ x = PreviewFailed(w, k, f.write)
      \/ w.pv = NoPreview /\ x = ReturnFailed(w, f.write)
      \/ w.pv = NoPreview /\ x = TrackFailed(w, f)
      \/ x = Completed(w, e.pos, f)
      \/ w.pv = NoPreview /\ x = OutputLost(w, f)
      \/ x = Shown(back, k, e.pos, f) \/ x = Shown(w, k, e.pos, f)
  BY Zenon DEF Process, InPreview
<1> HIDE DEF k
<1>2. Calm(w0, w)
  <2>1. Calm(w0, w0) /\ Calm(w0, [w0 EXCEPT !.play.back = FALSE])
    BY DEF Sound, Calm, Shape, WorldFields, Silent
  <2> QED BY <2>1
<1> HIDE DEF w
<1>3. Calm(w, back)
  BY <1>2 DEF Calm, Shape, WorldFields, Silent
<1> HIDE DEF back
<1>4. Near(w0, w) /\ Sound(w) /\ Alive(w)
  BY <1>2, CalmNear, NearSound DEF Calm, Alive
<1>5. Near(w0, back) /\ Sound(back) /\ Alive(back)
  <2>1. Near(w, back) /\ Sound(back)
    BY <1>3, <1>4, CalmNear, NearSound
  <2> QED BY <1>3, <1>4, <2>1, NearTwice DEF Calm, Alive
<1>6. w.pv = NoPreview => w.ses.cur # NoOcc
  BY <1>4 DEF Alive
<1>7. CASE x = w0 \/ x = w
  BY <1>4, <1>7, NearItself, NearIsStep
<1>8. CASE w.pv # NoPreview /\ x = PreviewFailed(w, k, f.write)
  BY <1>4, <1>8, PreviewFailedLeads, NearLeads
<1>9. CASE w.pv = NoPreview /\ x = ReturnFailed(w, f.write)
  BY <1>4, <1>6, <1>9, ReturnFailedLeads, NearLeads
<1>10. CASE w.pv = NoPreview /\ x = TrackFailed(w, f)
  BY <1>4, <1>6, <1>10, TrackFailedLeads, NearLeads
<1>11. CASE x = Completed(w, e.pos, f)
  BY <1>4, <1>11, CompletedLeads, NearLeads
<1>12. CASE w.pv = NoPreview /\ x = OutputLost(w, f)
  BY <1>4, <1>6, <1>12, OutputLostLeads, NearLeads
<1>13. CASE x = Shown(back, k, e.pos, f)
  BY <1>5, <1>13, ShownLeads, NearLeads
<1>14. CASE x = Shown(w, k, e.pos, f)
  BY <1>4, <1>14, ShownLeads, NearLeads
<1> QED BY <1>1, <1>7, <1>8, <1>9, <1>10, <1>11, <1>12, <1>13, <1>14

-----------------------------------------------------------------------------
(* A preview begins.                                                       *)

(* The player held still: what may be saved is what was reached.           *)
Held(w) ==
  LET rest == IF InPreview(w) THEN "paused" ELSE RestingState(w.ses.cur)
  IN [In(Captured(w), rest) EXCEPT
       !.gate = FALSE, !.play.status = "paused", !.inn.dirty = TRUE]

LEMMA HeldNear == ASSUME NEW w, Sound(w) PROVE Near(w, Held(w))
<1> DEFINE rest == IF InPreview(w) THEN "paused" ELSE RestingState(w.ses.cur)
           i == In(Captured(w), rest)
           v == [i EXCEPT !.gate = FALSE, !.play.status = "paused", !.inn.dirty = TRUE]
<1>1. Near(w, i) /\ Shape(i)
  <2>1. CASE Alive(w)
    <3>1. rest \in Stirring
      BY <2>1 DEF Alive, InPreview, RestingState, Stirring
    <3>2. Near(w, Captured(w)) /\ Fit(Captured(w))
      BY <2>1, CapturedNear, NearFit DEF Sound, Fit
    <3>3. Near(w, i)
      BY <3>1, <3>2, InNear, NearTwice
    <3> QED BY <3>3 DEF Near
  <2>2. CASE ~Alive(w)
    <3>1. /\ w.pv = NoPreview /\ w.ses.cur = NoOcc /\ w.pipe = NoPipe
          /\ w.ses.st = "idle" /\ w.ses.pos = 0 /\ rest = "idle"
      BY <2>2 DEF Sound, Alive, Quiet, Silent, Session, InPreview, RestingState
    <3>2. i = [w EXCEPT !.ses.st = rest]
      BY <3>1 DEF Captured, In, InPreview
    <3>3. /\ DOMAIN i = WorldFields /\ i.db = w.db /\ i.pv = w.pv /\ i.plan = w.plan
          /\ i.pipe = w.pipe /\ i.inn = w.inn /\ i.ing = w.ing /\ i.task = w.task
          /\ i.effect = w.effect /\ i.late = w.late /\ i.mail = w.mail
          /\ i.ses = [w.ses EXCEPT !.st = rest]
      BY <3>2 DEF Sound, Shape, WorldFields
    <3> HIDE DEF i
    <3>4. /\ DOMAIN i.ses = SessionFields /\ i.ses.cur = w.ses.cur /\ i.ses.rev = w.ses.rev
          /\ i.ses.st = "idle" /\ i.ses.pos = 0
      BY <3>1, <3>3 DEF Sound, Shape, SessionFields
    <3>5. Shape(i)
      BY <3>3, <3>4 DEF Sound, Shape
    <3>6. Silent(w) => Silent(i)
      BY <3>3 DEF Silent
    <3>7. Session(i)
      BY <3>1, <3>4 DEF Sound, Session
    <3> QED BY <3>1, <3>3, <3>4, <3>5, <3>6, <3>7 DEF Near
  <2> QED BY <2>1, <2>2
<1>2. v = Held(w)
  BY DEF Held
<1> HIDE DEF i
<1>3. Calm(i, v)
  BY <1>1 DEF Calm, Shape, WorldFields, Silent
<1>4. Near(i, v)
  BY <1>1, <1>3 DEF Calm, Near, Session
<1> QED BY <1>1, <1>2, <1>4, NearTwice

LEMMA PreviewLeads ==
  ASSUME NEW w0, Sound(w0), "preview" \in Commands, NEW f, NEW x, x = Preview(w0, f)
  PROVE  Leads(w0, x)
<1> DEFINE paused == PauseAudio(w0)
           w == IF InPreview(w0) THEN paused ELSE Reconcile(paused, f.early)
           rest == IF InPreview(w) THEN "paused" ELSE RestingState(w.ses.cur)
           held == [In(Captured(w), rest) EXCEPT
                     !.gate = FALSE, !.play.status = "paused", !.inn.dirty = TRUE]
           saved == IF InPreview(w) THEN w.pv.saved
                    ELSE [cur |-> held.ses.cur, pos |-> held.ses.pos, st |-> w0.ses.st]
           new == [id |-> FreshAud(w.pv.id), st |-> "buffering", pos |-> 0,
                   saved |-> saved, inhibited |-> InPreview(w) /\ w.pv.inhibited]
           d == IF InPreview(w) THEN ReplaceAudition(w.db, held.ses, held.pv, new)
                ELSE AdmitAudition(w.db, held.ses, new)
           r == Rotate(held)
           begun == [r EXCEPT
                      !.db = d, !.pv = new, !.inn.ret = FALSE, !.inn.dirty = FALSE,
                      !.gate = TRUE, !.play = Fresh("loading")]
           e == [held EXCEPT !.play.status = "error", !.play.err = TRUE]
           yes == TRUE
<1>1. \/ x = Err(w0) \/ x = w
      \/ /\ w0.inn.restore # "error"
         /\ \/ x = Err(e)
            \/ d # Refused /\ x = Prepare(begun, "play", 0, yes)
  BY Zenon DEF Preview
<1> HIDE DEF yes
<1>2. CASE x = Err(w0)
  BY <1>2, ErrCalm, CalmIsStep DEF Sound
<1>3. Calm(w0, paused) /\ Near(w0, paused) /\ Sound(paused)
  BY PauseAudioCalm, CalmNear, NearSound DEF Sound
<1> HIDE DEF paused
<1>4. /\ Leads(w0, w) /\ w.pv = w0.pv /\ w.inn.restore = w0.inn.restore
      /\ w.ses.rev = w0.ses.rev
      /\ (w0.pv # NoPreview => w.ses = w0.ses)
      /\ (w.ses.cur = NoOcc <=> w0.ses.cur = NoOcc)
  <2>1. CASE InPreview(w0)
    BY <1>3, <2>1, NearIsStep DEF Calm
  <2>2. CASE ~InPreview(w0)
    <3>1. /\ Leads(paused, w) /\ w.ses.rev = paused.ses.rev
          /\ w.inn.restore = paused.inn.restore
          /\ w # paused => paused.ses.cur # NoOcc
          /\ w.pv = paused.pv
          /\ paused.ses.cur # NoOcc => w.ses.cur # NoOcc
      BY <1>3, <2>2, ReconcileLeads
    <3>2. Leads(w0, w)
      BY <1>3, <3>1, NearLeads
    <3> QED BY <1>3, <2>2, <3>1, <3>2 DEF Calm, InPreview
  <2> QED BY <2>1, <2>2
<1>5. CASE x = w
  BY <1>4, <1>5
<1>6. Near(w, held) /\ Sound(held)
  <2>1. held = Held(w)
    BY DEF Held
  <2> HIDE DEF held, w
  <2>2. Near(w, held)
    BY <1>4, <2>1, HeldNear DEF Leads
  <2> QED BY <1>4, <2>2, NearSound DEF Leads
<1> HIDE DEF held, rest, w
<1>7. CASE x = Err(e)
  <2>1. Calm(held, e)
    BY <1>6 DEF Sound, Calm, Shape, WorldFields, Silent
  <2> HIDE DEF e
  <2>2. Calm(held, x)
    BY <1>7, <2>1, ErrCalm, CalmTwice DEF Calm
  <2>3. Near(w, x)
    BY <1>6, <2>2, CalmNear, NearTwice
  <2>4. w0.pv = NoPreview \/ x.ses = w.ses
    BY <1>4, <2>3 DEF Near
  <2> QED BY <1>4, <2>3, <2>4, LeadsNear
<1>8. CASE w0.inn.restore # "error" /\ d # Refused /\ x = Prepare(begun, "play", 0, yes)
  <2>1. /\ held.inn.restore = "ok" /\ held.db = w.db
        /\ held.db.cur = held.ses.cur /\ held.db.rev = held.ses.rev
        /\ held.ses.cur = w.ses.cur /\ held.ses.rev = w.ses.rev
        /\ w.pv = NoPreview => held.pv = NoPreview
        /\ w.pv # NoPreview => held.ses = w.ses /\ held.pv # NoPreview
                               /\ held.pv.saved = w.pv.saved
    <3>1. held.inn.restore = "ok"
      BY <1>4, <1>6, <1>8 DEF Near, Sound, Shape
    <3> QED BY <1>6, <3>1 DEF Near, Sound, Agrees
  <2>2. DOMAIN saved = {"cur", "pos", "st"} /\ SavedOK(saved)
    <3>1. CASE w.pv # NoPreview
      <4>1. saved = w.pv.saved /\ Audition(w.pv)
        BY <1>4, <3>1 DEF InPreview, Leads, Sound, Shape
      <4> QED BY <4>1 DEF Audition
    <3>2. CASE w.pv = NoPreview
      <4>1. saved = [cur |-> held.ses.cur, pos |-> held.ses.pos, st |-> w0.ses.st]
        BY <3>2 DEF InPreview
      <4>2. IF held.ses.cur = NoOcc THEN held.ses.pos = 0 /\ w0.ses.st = "idle"
            ELSE w0.ses.st \in Stirring
        BY <1>4, <1>6, <2>1 DEF Sound, Session
      <4> HIDE DEF saved
      <4> QED BY <4>1, <4>2 DEF SavedOK, Stirring
    <3> QED BY <3>1, <3>2
  <2>3. saved.cur = held.ses.cur /\ (w.pv # NoPreview => saved = w.pv.saved)
    BY <1>4, <2>1 DEF InPreview, Leads, Sound, Previewed
  <2> HIDE DEF saved
  <2>4. Audition(new) /\ new.saved = saved
    BY <2>2, FreshAudId DEF Audition, AuditionFields, Stirring
  <2>5. d = Auditioned(w.db, held.ses, new)
    BY <1>8 DEF ReplaceAudition, AdmitAudition, Auditioned
  <2> HIDE DEF d, new
  <2>6. Holds(d, held.ses) /\ d.aud = new
    <3>1. /\ Stored(w.db) /\ held.ses.cur = w.db.cur /\ held.ses.rev = w.db.rev
          /\ held.ses.cur # NoOcc => held.ses.st \in Stirring
          /\ held.ses.cur = NoOcc => held.ses.st = "idle" /\ held.ses.pos = 0
      BY <1>6, <2>1 DEF Sound, Session
    <3> QED BY <2>4, <2>5, <3>1, AuditionStores
  <2>7. Shape(r) /\ r.plan = NoPlan /\ Silent(r) /\ r.ses = held.ses /\ r.inn.restore = "ok"
    BY <1>6, <2>1, RotateCalm DEF Sound, Calm
  <2> HIDE DEF r
  <2>8. /\ DOMAIN begun = WorldFields /\ begun.db = d /\ begun.pv = new
        /\ begun.ses = held.ses /\ begun.plan = NoPlan /\ begun.pipe = NoPipe
        /\ begun.ing = r.ing /\ begun.inn = [r.inn EXCEPT !.ret = FALSE, !.dirty = FALSE]
    BY <2>7 DEF Shape, Silent, WorldFields
  <2> HIDE DEF begun
  <2>9. DOMAIN begun.inn = DOMAIN r.inn /\ begun.inn.restore = "ok"
    BY <2>7, <2>8 DEF Shape
  <2>10. Shape(begun)
    BY <1>6, <2>4, <2>7, <2>8, <2>9 DEF Sound, Shape
  <2>11. new # NoPreview /\ new # NoAud
    BY <2>4 DEF Audition, AuditionFields, NoPreview, NoAud
  <2>12. Alive(begun)
    BY <2>8, <2>11 DEF Alive
  <2>13. Stored(begun.db) /\ Session(begun) /\ Agrees(begun)
    BY <1>6, <2>6, <2>8 DEF Holds, Sound, Session, Agrees
  <2>14. Previewed(begun)
    BY <2>3, <2>4, <2>6, <2>8, <2>9, <2>11 DEF Previewed
  <2>15. Sound(begun)
    BY <2>8, <2>10, <2>12, <2>13, <2>14, AnewSound
  <2>16. Step(w0, begun)
    BY <1>4, <2>1, <2>3, <2>4, <2>8, <2>9, <2>11 DEF Step, Departs, Spares, Trusts
  <2>17. Leads(w0, begun)
    BY <2>15, <2>16 DEF Leads
  <2>18. Calm(begun, x)
    BY <1>8, <2>10, <2>12, PrepareCalm
  <2> QED BY <2>17, <2>18, LeadsCalm
<1> QED BY <1>1, <1>2, <1>5, <1>7, <1>8

-----------------------------------------------------------------------------
(* Commands on the queue.                                                  *)

(* There is an id for one more row.                                        *)
LEMMA FreshRow ==
  ASSUME NEW S, NEW q \in Seq(S), Len(q) < MaxRows
  PROVE  \E o \in Occs : o \notin ToSet(q)
<1> DEFINE T == ToSet(q)
           I == 1..Len(q)
           J == 1..MaxRows
           g == [i \in I |-> q[i]]
<1>1. Len(q) \in Nat /\ MaxRows \in Nat /\ J \subseteq Occs
  BY StartAssumption
<1>2. \A e : e \in T <=> \E i \in I : q[i] = e
  BY Elements
<1>3. IsFiniteSet(I) /\ Cardinality(I) = Len(q) /\ Cardinality(J) = MaxRows
  <2>1. \A n \in Nat : IsFiniteSet(1..n) /\ Cardinality(1..n) = n
    BY FS_Interval
  <2> QED BY <1>1, <2>1
<1> HIDE DEF T, J
<1>4. g \in Surjection(I, T)
  BY <1>2 DEF Surjection
<1>5. IsFiniteSet(T) /\ Cardinality(T) <= Cardinality(I) /\ Cardinality(T) \in Nat
  BY <1>3, <1>4, FS_Surjection, FS_CardinalityType
<1>6. ASSUME J \subseteq T PROVE FALSE
  <2>1. Cardinality(J) <= Cardinality(T)
    BY <1>5, <1>6, FS_Subset
  <2> QED BY <1>1, <1>3, <1>5, <2>1
<1> QED BY <1>1, <1>6 DEF T

(* What a command on the queue leaves: a disk that holds its session.      *)
Change(to) ==
  /\ Holds(to.db, to.ses) /\ DOMAIN to.ses = SessionFields /\ to.ses.rev \in Nat
  /\ IF to.ses.cur = NoOcc THEN to.ses.st = "idle" /\ to.ses.pos = 0
     ELSE to.ses.st \in Stirring

LEMMA LoadStores ==
  ASSUME NEW w, Sound(w), w.inn.restore = "ok", NEW c, c.n \in Nat \ {0},
         NEW to, to = LoadTo(w, c), to.db # Refused
  PROVE  /\ Change(to) /\ to.ses.rev = w.ses.rev + 1 /\ to.ses.cur # NoOcc
         /\ to.db.aud = NoAud
<1> DEFINE rows == [n \in 1..c.n |-> n]
           s == to.ses
           S == Nat \ {NoOcc}
<1>1. /\ s = [cur |-> 1, pos |-> 0, rev |-> w.ses.rev + 1,
              st |-> IF c.k = "play" THEN "buffering" ELSE "paused"]
      /\ to.db = IF InPreview(w) THEN StructureSuperseding(w.db, s, rows, w.pv)
                 ELSE Structure(w.db, s, rows)
  BY DEF LoadTo
<1> HIDE DEF s
<1>2. /\ DOMAIN s = SessionFields /\ s.cur = 1 /\ s.pos = 0 /\ s.rev = w.ses.rev + 1
      /\ s.st \in Stirring /\ s.rev \in Nat /\ s.rev > 0
  BY <1>1 DEF SessionFields, Stirring, Sound, Session
<1>3. rows \in Seq(S) /\ Len(rows) = c.n /\ \A n \in 1..c.n : rows[n] = n
  BY DEF NoOcc
<1> HIDE DEF rows, S
<1>4. IsInjective(rows) /\ 1 \in ToSet(rows) /\ rows # <<>>
  <2>1. IsInjective(rows)
    BY <1>3, Injective DEF Distinct
  <2>2. 1 \in ToSet(rows)
    BY <1>3, Elements
  <2> QED BY <1>3, <2>1, <2>2
<1>5. Stands(s, rows) /\ s.cur # NoOcc
  BY <1>2, <1>4 DEF Stands, NoOcc
<1>6. Holds(to.db, s) /\ to.db.aud = NoAud
  <2>1. CASE InPreview(w)
    BY <1>1, <1>3, <1>4, <1>5, <2>1, SupersedingStores DEF Sound, S
  <2>2. CASE ~InPreview(w)
    <3>1. w.db.aud = NoAud
      BY <2>2 DEF InPreview, Sound, Previewed
    <3> QED BY <1>1, <1>3, <1>4, <1>5, <2>2, <3>1, StructureStores DEF Sound, S
  <2> QED BY <2>1, <2>2
<1> QED BY <1>2, <1>5, <1>6 DEF Change, s

LEMMA ClearedStores ==
  ASSUME NEW w, Sound(w), w.inn.restore = "ok",
         NEW to, to = ClearTo(w), to.db # Refused
  PROVE  Change(to) /\ to.ses.rev = w.ses.rev + 1 /\ to.db.aud = NoAud
<1> DEFINE s == to.ses
           S == Nat \ {NoOcc}
<1>1. /\ s = [cur |-> NoOcc, pos |-> 0, rev |-> w.ses.rev + 1, st |-> "idle"]
      /\ to.db = IF InPreview(w) THEN StructureSuperseding(w.db, s, <<>>, w.pv)
                 ELSE Clear(w.db, s)
  BY DEF ClearTo
<1> HIDE DEF s
<1>2. /\ DOMAIN s = SessionFields /\ s.cur = NoOcc /\ s.pos = 0 /\ s.rev = w.ses.rev + 1
      /\ s.st = "idle" /\ s.rev \in Nat
  BY <1>1 DEF SessionFields, Sound, Session
<1>3. Stands(s, <<>>)
  BY <1>2 DEF Stands
<1>4. Holds(to.db, s) /\ to.db.aud = NoAud
  <2>1. CASE InPreview(w)
    <3> DEFINE rows == <<>>
    <3>1. rows \in Seq(S) /\ Len(rows) = 0
      OBVIOUS
    <3>2. to.db = StructureSuperseding(w.db, s, rows, w.pv)
      BY <1>1, <2>1
    <3>3. Stands(s, rows)
      BY <1>3
    <3> HIDE DEF rows, S
    <3>4. IsInjective(rows)
      <4>1. \A m, n \in 1..Len(rows) : m = n
        BY ONLY <3>1
      <4>2. \A m, n \in 1..Len(rows) : rows[m] = rows[n] => m = n
        BY ONLY <4>1
      <4> QED BY <3>1, <4>2, Injective DEF Distinct
    <3>5. rows \in Seq(Nat \ {NoOcc})
      BY <3>1 DEF S
    <3>6. Stored(w.db) /\ to.db # Refused
      BY DEF Sound
    <3> QED BY <3>2, <3>3, <3>4, <3>5, <3>6, SupersedingStores
  <2>2. CASE ~InPreview(w)
    <3>1. w.db.aud = NoAud
      BY <2>2 DEF InPreview, Sound, Previewed
    <3> QED BY <1>1, <1>3, <2>2, <3>1, ClearStores DEF Sound
  <2> QED BY <2>1, <2>2
<1> QED BY <1>2, <1>4 DEF Change, s

LEMMA SelectedStores ==
  ASSUME NEW w, Sound(w), w.inn.restore = "ok", w.pv = NoPreview, NEW c,
         NEW to, to = SelectTo(w, c), to.db # Refused
  PROVE  /\ Change(to) /\ to.ses.rev = w.ses.rev /\ to.db.aud = NoAud
         /\ to.db.act = to.ses.cur /\ w.ses.cur \in to.db.done
<1> DEFINE s == to.ses
<1>1. s = [w.ses EXCEPT !.cur = c.occ, !.pos = 0, !.st = "paused"] /\ to.db = Select(w.db, s)
  BY DEF SelectTo
<1> HIDE DEF s
<1>2. /\ DOMAIN s = SessionFields /\ s.cur = c.occ /\ s.rev = w.ses.rev
      /\ s.st \in Stirring /\ s.rev \in Nat
  BY <1>1 DEF SessionFields, Stirring, Sound, Shape, Session
<1>3. /\ w.db.cur = w.ses.cur /\ w.db.rev = w.ses.rev /\ w.db.aud = NoAud
      /\ w.db.ord \in Seq(Nat \ {NoOcc})
  BY DEF Sound, Agrees, Previewed, Stored
<1>4. s.cur \in ToSet(w.db.ord)
  BY <1>1 DEF Select
<1>5. s.cur # NoOcc /\ w.db.ord # <<>>
  BY <1>3, <1>4, Elements
<1>6. Stands(s, w.db.ord)
  BY <1>2, <1>3, <1>4, <1>5 DEF Stands, Sound, Stored, ValidSession
<1>7. Holds(to.db, s) /\ to.db.aud = w.db.aud /\ to.db.act = s.cur /\ w.db.cur \in to.db.done
  <2>1. to.db = Select(w.db, s)
    BY <1>1
  <2> QED BY <1>6, <2>1, SelectStores DEF Sound
<1> QED BY <1>2, <1>3, <1>5, <1>7 DEF Change, s

(* Edits: the row the session stands on stays, if there is one.            *)
EditedTo(w, to) ==
  /\ Change(to) /\ to.ses.rev = w.ses.rev + 1
  /\ w.ses.cur # NoOcc => to.ses.cur = w.ses.cur
  /\ w.pv = NoPreview => to.db.aud = w.db.aud
  /\ w.pv # NoPreview =>
       /\ to.db.aud # NoAud /\ to.db.aud.id = w.pv.id /\ to.db.aud.saved.cur = to.ses.cur
       /\ w.ses.cur # NoOcc => to.db.aud.saved = w.pv.saved

LEMMA AppendedStores ==
  ASSUME NEW w, Sound(w), w.inn.restore = "ok", Len(w.db.ord) < MaxRows,
         NEW to, to = AppendTo(w), to.db # Refused
  PROVE  EditedTo(w, to)
<1> DEFINE s == to.ses
           new == CHOOSE o \in Occs : o \notin ToSet(w.db.ord)
<1>1. /\ s = IF w.ses.cur # NoOcc THEN [w.ses EXCEPT !.rev = @ + 1]
             ELSE [cur |-> new, pos |-> 0, rev |-> w.ses.rev + 1, st |-> "paused"]
      /\ to.db = IF NeedsBaseline(w) THEN AppendWithBaseline(w.db, s, <<new>>)
                 ELSE AppendRows(w.db, s, <<new>>)
  BY DEF AppendTo
<1>2. new \in Nat \ {NoOcc} /\ new \notin ToSet(w.db.ord)
  <2>1. \E o \in Occs : o \notin ToSet(w.db.ord)
    BY FreshRow DEF Sound, Stored
  <2> QED BY <2>1, StartAssumption
<1> HIDE DEF s, new
<1>3. /\ DOMAIN s = SessionFields /\ s.rev = w.ses.rev + 1 /\ s.rev \in Nat /\ s.rev > 0
      /\ s.st \in Stirring
      /\ s.cur = IF w.ses.cur = NoOcc THEN new ELSE w.ses.cur
  BY <1>1 DEF SessionFields, Stirring, Sound, Shape, Session
<1>4. w.db.cur = w.ses.cur /\ s.cur # NoOcc
  BY <1>2, <1>3 DEF Sound, Agrees
<1>5. CASE NeedsBaseline(w)
  <2>1. /\ Holds(to.db, s) /\ to.db.aud # NoAud /\ to.db.aud.id = w.db.aud.id
        /\ to.db.aud.saved = [cur |-> s.cur, pos |-> 0, st |-> "paused"]
    <3>1. to.db = AppendWithBaseline(w.db, s, <<new>>)
      BY <1>1, <1>5
    <3>2. s.cur = (IF w.db.cur = NoOcc THEN new ELSE w.db.cur)
      BY <1>3, <1>4
    <3> QED BY <1>2, <1>3, <3>1, <3>2, BaselineStores DEF Sound
  <2>2. w.pv # NoPreview /\ w.ses.cur = NoOcc /\ w.db.aud.id = w.pv.id
    BY <1>5 DEF NeedsBaseline, InPreview, Sound, Previewed
  <2> QED BY <1>3, <1>4, <2>1, <2>2 DEF EditedTo, Change, s
<1>6. CASE ~NeedsBaseline(w)
  <2>1. Holds(to.db, s) /\ to.db.aud = w.db.aud
    <3>1. to.db = AppendRows(w.db, s, <<new>>)
      BY <1>1, <1>6
    <3>2. s.cur = (IF w.db.cur = NoOcc THEN new ELSE w.db.cur)
      BY <1>3, <1>4
    <3> QED BY <1>2, <1>3, <3>1, <3>2, AppendStores DEF Sound
  <2>2. w.pv # NoPreview =>
          /\ w.ses.cur # NoOcc /\ w.db.aud # NoAud /\ w.db.aud.id = w.pv.id
          /\ w.db.aud.saved = w.pv.saved /\ w.pv.saved.cur = w.ses.cur
    BY <1>6 DEF NeedsBaseline, InPreview, Sound, Previewed
  <2> QED BY <1>3, <1>4, <2>1, <2>2 DEF EditedTo, Change, s
<1> QED BY <1>5, <1>6

LEMMA RearrangedStores ==
  ASSUME NEW w, Sound(w), w.inn.restore = "ok", NEW c,
         NEW to, \/ to = RemoveTo(w, c)
                 \/ to = MoveTo(w, c) /\ c.occ # NoOcc /\ c.before # c.occ,
         to.db # Refused
  PROVE  EditedTo(w, to)
<1> DEFINE s == to.ses
<1>1. /\ s = [w.ses EXCEPT !.rev = @ + 1]
      /\ \/ to.db = RemoveRow(w.db, s, c.occ)
         \/ to.db = MoveRow(w.db, s, c.occ, c.before) /\ c.occ # NoOcc /\ c.before # c.occ
  BY DEF RemoveTo, MoveTo
<1> HIDE DEF s
<1>2. /\ DOMAIN s = SessionFields /\ s.rev = w.ses.rev + 1 /\ s.rev \in Nat
      /\ s.cur = w.ses.cur /\ s.st = w.ses.st /\ s.pos = w.ses.pos
  BY <1>1 DEF SessionFields, Sound, Shape, Session
<1>3. /\ s.cur # NoOcc => s.st \in Stirring
      /\ s.cur = NoOcc => s.st = "idle" /\ s.pos = 0
  BY <1>2 DEF Sound, Session
<1>4. Holds(to.db, s) /\ to.db.aud = w.db.aud
  <2>1. CASE to.db = RemoveRow(w.db, s, c.occ)
    BY <1>2, <1>3, <2>1, RemoveStores DEF Sound
  <2>2. CASE to.db = MoveRow(w.db, s, c.occ, c.before) /\ c.occ # NoOcc /\ c.before # c.occ
    BY <1>2, <1>3, <2>2, MoveStores DEF Sound
  <2> QED BY <1>1, <2>1, <2>2
<1>5. w.pv # NoPreview =>
        /\ w.db.aud # NoAud /\ w.db.aud.id = w.pv.id
        /\ w.db.aud.saved = w.pv.saved /\ w.pv.saved.cur = w.ses.cur
  BY DEF Sound, Previewed
<1> QED BY <1>2, <1>3, <1>4, <1>5 DEF EditedTo, Change, s

LEMMA ReplacedLeads ==
  ASSUME NEW w, Sound(w), w.inn.restore = "ok", NEW c, NEW to, Change(to), to.db.aud = NoAud,
         \/ to.ses.rev # w.ses.rev
         \/ w.pv = NoPreview /\ to.db.act = to.ses.cur /\ w.ses.cur \in to.db.done,
         NEW x, x = Replaced(w, c, to)
  PROVE  Leads(w, x) /\ x.ses = to.ses
<1> DEFINE y == Rotate(w)
           status == CASE c.k = "play" -> Fresh("loading")
                       [] c.k = "clear" -> Fresh("idle")
                       [] c.k = "append" -> y.play
                       [] OTHER -> Fresh("paused")
           v == [y EXCEPT !.pv = NoPreview, !.inn.ret = FALSE, !.play = status]
           open == to.ses.st \in Audible
<1>1. x = [v EXCEPT !.ses = to.ses, !.db = to.db, !.gate = open]
  BY DEF Replaced
<1>2. Shape(y) /\ Silent(y) /\ y.plan = NoPlan /\ y.inn.restore = "ok"
  BY RotateCalm DEF Sound, Calm
<1> HIDE DEF y, status, open
<1>3. /\ DOMAIN v = WorldFields /\ v.pv = NoPreview /\ v.plan = NoPlan /\ v.pipe = NoPipe
      /\ v.task = y.task /\ v.effect = y.effect /\ v.late = y.late /\ v.mail = y.mail
      /\ v.ing = y.ing /\ v.inn = [y.inn EXCEPT !.ret = FALSE]
  BY <1>2 DEF Shape, Silent, WorldFields
<1> HIDE DEF v
<1>4. /\ DOMAIN x = WorldFields /\ x.pv = NoPreview /\ x.plan = NoPlan /\ x.pipe = NoPipe
      /\ x.task = y.task /\ x.effect = y.effect /\ x.late = y.late /\ x.mail = y.mail
      /\ x.ing = y.ing /\ x.inn = v.inn /\ x.ses = to.ses /\ x.db = to.db
  BY <1>1, <1>3 DEF WorldFields
<1>5. DOMAIN x.inn = DOMAIN y.inn /\ x.inn.restore = "ok"
  BY <1>2, <1>3, <1>4 DEF Shape
<1>6. Shape(x)
  BY <1>2, <1>4, <1>5 DEF Shape, Change
<1>7. Silent(x)
  BY <1>2, <1>4 DEF Silent
<1>8. Stored(x.db) /\ Session(x) /\ Agrees(x) /\ Previewed(x)
  BY <1>4 DEF Change, Holds, Session, Agrees, Previewed
<1>9. Sound(x)
  BY <1>4, <1>6, <1>7, <1>8, AnewSound
<1>10. Step(w, x)
  BY <1>4, <1>5 DEF Step, Departs, Spares, Trusts
<1> QED BY <1>4, <1>9, <1>10 DEF Leads

LEMMA EditedLeads ==
  ASSUME NEW w, Sound(w), w.inn.restore = "ok", NEW to, EditedTo(w, to),
         w.pv # NoPreview \/ to.ses.cur = w.ses.cur, ~Submitted(w), w.plan = NoPlan,
         NEW x, x = Edited(w, to)
  PROVE  Leads(w, x) /\ x.ses = to.ses
<1> DEFINE p == IF NeedsBaseline(w) THEN [w.pv EXCEPT !.saved = to.db.aud.saved] ELSE w.pv
           open == IF InPreview(w) THEN w.gate ELSE to.ses.st \in Audible
<1>1. x = [w EXCEPT !.ses = to.ses, !.db = to.db, !.pv = p, !.gate = open]
  BY DEF Edited
<1> HIDE DEF open
<1>2. w.pv = NoPreview => p = NoPreview
  BY DEF NeedsBaseline, InPreview
<1>3. /\ Stored(to.db) /\ to.db.cur = to.ses.cur /\ to.db.rev = to.ses.rev
      /\ DOMAIN to.ses = SessionFields /\ to.ses.rev = w.ses.rev + 1 /\ to.ses.rev # w.ses.rev
  BY DEF EditedTo, Change, Holds, Sound, Session
<1>4. ASSUME w.pv # NoPreview
      PROVE  Audition(p) /\ p # NoPreview /\ p.id = to.db.aud.id /\ p.saved = to.db.aud.saved
  <2>1. Audition(w.pv) /\ Audition(to.db.aud) /\ to.db.aud.id = w.pv.id
    BY <1>3, <1>4 DEF EditedTo, Stored, Sound, Shape
  <2>2. CASE NeedsBaseline(w)
    BY <2>1, <2>2 DEF Audition, AuditionFields, NoPreview
  <2>3. CASE ~NeedsBaseline(w)
    <3>1. w.ses.cur # NoOcc
      BY <1>4, <2>3 DEF NeedsBaseline, InPreview, Sound, Previewed
    <3> QED BY <1>4, <2>1, <2>3, <3>1 DEF EditedTo
  <2> QED BY <2>2, <2>3
<1> HIDE DEF p
<1>5. /\ DOMAIN x = WorldFields /\ x.pv = p /\ x.plan = NoPlan /\ x.pipe = w.pipe
      /\ x.task = w.task /\ x.effect = w.effect /\ x.late = w.late /\ x.mail = w.mail
      /\ x.ing = w.ing /\ x.inn = w.inn /\ x.ses = to.ses /\ x.db = to.db
  BY <1>1 DEF Sound, Shape, WorldFields
<1>6. Shape(x)
  BY <1>2, <1>3, <1>4, <1>5 DEF Sound, Shape
<1>7. Stored(x.db) /\ Session(x) /\ Agrees(x)
  BY <1>3, <1>5 DEF EditedTo, Change, Session, Agrees
<1>8. Previewed(x)
  BY <1>2, <1>4, <1>5 DEF Sound, Previewed, EditedTo
<1>9. Claimed(x) /\ Waiting(x)
  BY <1>5 DEF Sound, Claimed, Waiting, Submitted, InPreview
<1>10. Quiet(x)
  BY <1>2, <1>4, <1>5 DEF Sound, Quiet, Alive, Silent
<1>11. Step(w, x)
  BY <1>2, <1>3, <1>4, <1>5 DEF Step, Departs, Spares, Trusts
<1> QED BY <1>5, <1>6, <1>7, <1>8, <1>9, <1>10, <1>11 DEF Leads, Sound

(* What the user names: an upcoming row, and never itself.                 *)
Sensible(w, c) ==
  /\ c.k \in {"replace", "play"} => c.n \in Nat \ {0}
  /\ c.k = "append" => Len(w.db.ord) < MaxRows
  /\ c.k = "move" => c.occ # NoOcc /\ c.before # c.occ
  /\ c.k \in {"replace", "play", "clear", "select"} \cup Edits

LEMMA ApplyLeads ==
  ASSUME NEW w0, Sound(w0), NEW c, Sensible(w0, c), NEW f, NEW x, x = Apply(w0, c, f)
  PROVE  Leads(w0, x)
<1> DEFINE edit == c.k \in Edits
           w == IF edit /\ ~InPreview(w0) THEN Reconcile(w0, f.early) ELSE w0
           to == Applied(w, c)
           stays == edit /\ (InPreview(w) \/ to.ses.cur = w.ses.cur)
           v == IF stays THEN Edited(w, to) ELSE Replaced(w, c, to)
           done == [v EXCEPT !.inn.dirty = FALSE, !.inn.chk = to.ses.pos]
           yes == TRUE
<1>1. \/ x = Err(w0) \/ x = w \/ x = Err(w)
      \/ /\ w0.inn.restore # "error" /\ (w0.pv # NoPreview => c.k # "select")
         /\ edit => w0.plan = NoPlan /\ ~Submitted(w)
         /\ w.ok /\ to.db # Refused
         /\ \/ c.k = "play" /\ x = Prepare(done, "play", 0, yes)
            \/ x = done
  BY Zenon DEF Apply, InPreview
<1> HIDE DEF yes
<1>2. CASE x = Err(w0)
  BY <1>2, ErrCalm, CalmIsStep DEF Sound
<1>3. /\ Leads(w0, w) /\ w.ses.rev = w0.ses.rev /\ w.inn.restore = w0.inn.restore
      /\ w.pv = w0.pv /\ (w0.ses.cur # NoOcc => w.ses.cur # NoOcc)
      /\ w # w0 => edit /\ w0.pv = NoPreview
      /\ w.ok => w.plan = w0.plan /\ w.db.ord = w0.db.ord
  <2>1. CASE edit /\ ~InPreview(w0)
    BY <2>1, ReconcileLeads DEF InPreview
  <2>2. CASE ~(edit /\ ~InPreview(w0))
    <3>1. w = w0
      BY <2>2
    <3> QED BY <3>1, NearItself, NearIsStep
  <2> QED BY <2>1, <2>2
<1> HIDE DEF w
<1>4. CASE x = w
  BY <1>3, <1>4
<1>5. CASE x = Err(w)
  BY <1>3, <1>5, ErrCalm, LeadsCalm DEF Leads, Sound
<1>6. ASSUME /\ w0.inn.restore # "error" /\ (w0.pv # NoPreview => c.k # "select")
             /\ edit => w0.plan = NoPlan /\ ~Submitted(w)
             /\ w.ok /\ to.db # Refused
             /\ \/ c.k = "play" /\ x = Prepare(done, "play", 0, yes)
                \/ x = done
      PROVE  Leads(w0, x)
  <2>1. /\ Sound(w) /\ w.inn.restore = "ok" /\ w.db.ord = w0.db.ord /\ w.plan = w0.plan
        /\ w.ses.rev \in Nat
    BY <1>3, <1>6 DEF Leads, Sound, Shape, Session
  <2>2. Leads(w0, v) /\ v.ses = to.ses /\ (c.k = "play" => to.ses.cur # NoOcc)
    <3>1. CASE edit
      <4>1. EditedTo(w, to)
        <5>1. CASE c.k = "append"
          <6>1. to = AppendTo(w) /\ Len(w.db.ord) < MaxRows
            BY <2>1, <5>1 DEF Applied, Sensible
          <6> HIDE DEF to
          <6> QED BY <1>6, <2>1, <6>1, AppendedStores
        <5>2. CASE c.k \in {"remove", "move"}
          <6>1. \/ to = RemoveTo(w, c)
                \/ to = MoveTo(w, c) /\ c.occ # NoOcc /\ c.before # c.occ
            BY <5>2 DEF Applied, Sensible
          <6> HIDE DEF to
          <6> QED BY <1>6, <2>1, <6>1, RearrangedStores
        <5> QED BY <3>1, <5>1, <5>2 DEF Edits
      <4>2. /\ v = IF w.pv # NoPreview \/ to.ses.cur = w.ses.cur THEN Edited(w, to)
                   ELSE Replaced(w, c, to)
            /\ ~Submitted(w) /\ w.plan = NoPlan
        BY <1>6, <2>1, <3>1 DEF InPreview
      <4> HIDE DEF to, v
      <4>3. to.ses.rev # w.ses.rev
        BY <2>1, <4>1 DEF EditedTo
      <4>4. Leads(w, v) /\ v.ses = to.ses
        <5>1. CASE w.pv # NoPreview \/ to.ses.cur = w.ses.cur
          BY <2>1, <4>1, <4>2, <5>1, EditedLeads
        <5>2. CASE w.pv = NoPreview /\ to.ses.cur # w.ses.cur
          <6>1. Change(to) /\ to.db.aud = NoAud
            BY <2>1, <4>1, <5>2 DEF EditedTo, Sound, Previewed
          <6> QED BY <2>1, <4>2, <4>3, <5>2, <6>1, ReplacedLeads
        <5> QED BY <5>1, <5>2
      <4>5. Step(w0, v)
        BY <1>3, <4>3, <4>4 DEF Leads, Step, Departs, Spares, Trusts
      <4>6. c.k # "play"
        BY <3>1 DEF Edits
      <4> QED BY <4>4, <4>5, <4>6 DEF Leads
    <3>2. CASE ~edit
      <4>1. w = w0 /\ v = Replaced(w, c, to)
        BY <1>3, <3>2
      <4>2. /\ Change(to) /\ to.db.aud = NoAud /\ (c.k = "play" => to.ses.cur # NoOcc)
            /\ \/ to.ses.rev # w.ses.rev
               \/ w.pv = NoPreview /\ to.db.act = to.ses.cur /\ w.ses.cur \in to.db.done
        <5>1. CASE c.k \in {"replace", "play"}
          <6>1. to = LoadTo(w, c) /\ c.n \in Nat \ {0}
            BY <5>1 DEF Applied, Sensible
          <6> HIDE DEF to
          <6>2. /\ Change(to) /\ to.ses.rev = w.ses.rev + 1 /\ to.ses.cur # NoOcc
                /\ to.db.aud = NoAud
            BY <1>6, <2>1, <6>1, LoadStores
          <6> QED BY <2>1, <6>2
        <5>2. CASE c.k = "clear"
          <6>1. to = ClearTo(w)
            BY <5>2 DEF Applied
          <6> HIDE DEF to
          <6>2. Change(to) /\ to.ses.rev = w.ses.rev + 1 /\ to.db.aud = NoAud
            BY <1>6, <2>1, <6>1, ClearedStores
          <6> QED BY <2>1, <5>2, <6>2
        <5>3. CASE c.k = "select"
          <6>1. to = SelectTo(w, c) /\ w.pv = NoPreview
            BY <1>6, <4>1, <5>3 DEF Applied
          <6> HIDE DEF to
          <6> QED BY <1>6, <2>1, <5>3, <6>1, SelectedStores
        <5> QED BY <3>2, <5>1, <5>2, <5>3 DEF Sensible
      <4> HIDE DEF to, v
      <4> QED BY <2>1, <4>1, <4>2, ReplacedLeads
    <3> QED BY <3>1, <3>2
  <2> HIDE DEF v, to
  <2>3. Calm(v, done)
    BY <2>2 DEF Leads, Sound, Calm, Shape, WorldFields, Silent
  <2>4. Shape(done) /\ done.ses = v.ses
    BY <2>3 DEF Calm
  <2> HIDE DEF done
  <2>5. Leads(w0, done)
    BY <2>2, <2>3, LeadsCalm
  <2>6. CASE c.k = "play" /\ x = Prepare(done, "play", 0, yes)
    <3>1. Alive(done)
      BY <2>2, <2>4, <2>6 DEF Alive
    <3> QED BY <2>4, <2>5, <2>6, <3>1, PrepareCalm, LeadsCalm
  <2> QED BY <1>6, <2>5, <2>6
<1> QED BY <1>1, <1>2, <1>4, <1>5, <1>6

-----------------------------------------------------------------------------
(* Restoring.                                                              *)

(* A preview is dismissed: the main queue is as it was, the row is gone.   *)
LEMMA DismissStores ==
  ASSUME NEW d, Stored(d), NEW gone, gone = Dismiss(d)
  PROVE  /\ gone = Refused <=> d.aud # NoAud /\ d.aud.saved.cur # d.cur
         /\ gone # Refused => /\ Holds(gone, d) /\ gone.aud = NoAud
                              /\ d.aud # NoAud => gone.pos = d.aud.saved.pos
                              /\ d.aud = NoAud => gone = d
<1> DEFINE s == Dismissed(d)
           t == Auditioned(d, s, NoAud)
<1>1. CASE d.aud = NoAud
  <2>1. gone = d /\ d # Refused
    BY <1>1, NotRefused DEF Dismiss, Stored
  <2> QED BY <1>1, <2>1 DEF Holds
<1>2. CASE d.aud # NoAud
  <2>1. Audition(d.aud)
    BY <1>2 DEF Stored
  <2>2. ValidAudition(d, d.aud) <=> d.aud.saved.cur = d.cur
    BY <2>1 DEF Audition, ValidAudition, Stirring
  <2>3. s.cur = d.aud.saved.cur /\ s.pos = d.aud.saved.pos /\ s.rev = d.rev
        /\ s.st = RestingState(s.cur)
    BY DEF Dismissed, Main
  <2>4. gone = IF d.aud.saved.cur = d.cur THEN FinishAudition(d, s, d.aud) ELSE Refused
    BY <1>2, <2>2 DEF Dismiss
  <2> HIDE DEF s
  <2>5. ASSUME d.aud.saved.cur = d.cur
        PROVE  Holds(gone, d) /\ gone # Refused /\ gone.aud = NoAud /\ gone.pos = s.pos
    <3>1. ValidAudition(s, d.aud)
      BY <2>1, <2>3 DEF Audition, ValidAudition, Stirring
    <3>2. gone = t
      BY <2>4, <2>5, <3>1 DEF FinishAudition, Auditioned
    <3>3. /\ s.cur = d.cur /\ s.rev = d.rev
          /\ s.cur # NoOcc => s.st \in Stirring
          /\ s.cur = NoOcc => s.st = "idle" /\ s.pos = 0
      BY <2>1, <2>3, <2>5 DEF Audition, SavedOK, RestingState, Stirring
    <3>4. Holds(t, s) /\ t.aud = NoAud /\ t # Refused
      BY <3>3, AuditionStores
    <3>5. t.pos = s.pos
      <4>1. t = [Update(d, s) EXCEPT !.aud = NoAud] /\ DOMAIN d = DiskFields
        BY DEF Auditioned, Stored
      <4>2. DOMAIN Update(d, s) = DiskFields /\ Update(d, s).pos = s.pos
        BY <4>1, UpdateParts
      <4> QED BY <4>1, <4>2 DEF DiskFields
    <3> HIDE DEF t
    <3> QED BY <3>2, <3>3, <3>4, <3>5 DEF Holds
  <2> QED BY <1>2, <2>3, <2>4, <2>5
<1> QED BY <1>1, <1>2

LEMMA RetryRestoreLeads ==
  ASSUME NEW w, Sound(w), NEW f, NEW x, x = RetryRestore(w, f) PROVE Leads(w, x)
<1> DEFINE gone == Dismiss(w.db)
           s == Resting(Main(gone))
           v == NewGeneration(w)
           y == [v EXCEPT !.db = gone, !.ses = s, !.inn.chk = s.pos, !.inn.restore = "ok"]
<1>1. \/ x = Err(w)
      \/ w.inn.restore = "error" /\ gone # Refused /\ x = y
  BY DEF RetryRestore
<1>2. CASE x = Err(w)
  BY <1>2, ErrCalm, CalmIsStep DEF Sound
<1>3. CASE w.inn.restore = "error" /\ gone # Refused /\ x = y
  <2>1. Holds(gone, w.db) /\ gone.aud = NoAud /\ w.pv = NoPreview
    BY <1>3, DismissStores DEF Sound, Previewed
  <2> HIDE DEF gone
  <2>2. /\ DOMAIN s = SessionFields /\ s.cur = w.db.cur /\ s.rev = w.db.rev /\ s.pos = gone.pos
        /\ s.st = RestingState(s.cur)
    BY <2>1 DEF Resting, Main, SessionFields, Holds
  <2>3. s.cur = NoOcc => s.pos = 0
    BY <2>1, <2>2 DEF Holds, Stored, ValidSession
  <2> HIDE DEF s
  <2>4. Shape(v) /\ Silent(v) /\ v.plan = NoPlan /\ v.pv = NoPreview
    BY <2>1, NewGenerationCalm DEF Sound, Calm
  <2> HIDE DEF v
  <2>5. /\ DOMAIN x = WorldFields /\ x.pv = NoPreview /\ x.plan = NoPlan /\ x.pipe = NoPipe
        /\ x.task = v.task /\ x.effect = v.effect /\ x.late = v.late /\ x.mail = v.mail
        /\ x.ing = v.ing /\ x.ses = s /\ x.db = gone
        /\ x.inn = [v.inn EXCEPT !.chk = s.pos, !.restore = "ok"]
    BY <1>3, <2>4 DEF Shape, Silent, WorldFields
  <2>6. DOMAIN x.inn = DOMAIN v.inn /\ x.inn.restore = "ok"
    BY <2>4, <2>5 DEF Shape
  <2>7. Shape(x)
    BY <2>2, <2>4, <2>5, <2>6 DEF Shape
  <2>8. Silent(x)
    BY <2>4, <2>5 DEF Silent
  <2>9. s.rev \in Nat
    BY <2>1, <2>2 DEF Holds, Stored
  <2>10. Session(x) /\ Stored(x.db) /\ Agrees(x) /\ Previewed(x)
    BY <2>1, <2>2, <2>3, <2>5, <2>9
       DEF Session, RestingState, Stirring, Holds, Agrees, Previewed
  <2>11. Sound(x)
    BY <2>5, <2>7, <2>8, <2>10, AnewSound
  <2>12. w.ses.cur # NoOcc => w.db.cur = w.ses.cur
    BY DEF Sound, Agrees
  <2>13. Step(w, x)
    BY <2>1, <2>2, <2>5, <2>6, <2>12 DEF Step, Departs, Spares, Trusts
  <2> QED BY <2>11, <2>13 DEF Leads
<1> QED BY <1>1, <1>2, <1>3

(* A world as the variables hold it.                                       *)
Bare(v) ==
  [db |-> v.db, ses |-> v.ses, pv |-> v.pv, play |-> v.play, plan |-> v.plan,
   inn |-> v.inn, gate |-> v.gate, pipe |-> v.pipe, task |-> v.task, effect |-> v.effect,
   late |-> v.late, mail |-> v.mail, ing |-> v.ing, ok |-> TRUE]

LEMMA Becoming == ASSUME NEW v, Becomes(v) PROVE World' = Bare(v)
BY DEF Becomes, World, Bare

LEMMA BareCalm == ASSUME NEW v, Shape(v) PROVE Calm(v, Bare(v))
BY DEF Calm, Shape, WorldFields, Silent, Bare

LEMMA BareLeads == ASSUME NEW w, NEW v, Leads(w, v) PROVE Leads(w, Bare(v))
BY BareCalm, LeadsCalm DEF Leads, Sound

(* A new process: whatever could be read is taken up.                      *)
LEMMA RestoredSound ==
  ASSUME NEW d, Stored(d), NEW f, NEW x, x = Bare(Restored(d, f))
  PROVE  /\ Sound(x) /\ x.pv = NoPreview
         /\ IF f.early THEN x.ses.cur = d.cur /\ x.ses.rev = d.rev ELSE x.ses = NewSession
         /\ d.aud # NoAud /\ d.aud.saved.cur = d.cur /\ f.early =>
              x.ses.pos = d.aud.saved.pos
         /\ d.aud = NoAud => x.db.aud = NoAud
         /\ f.early /\ f.write /\ (d.aud # NoAud => d.aud.saved.cur = d.cur) =>
              x.inn.restore = "ok"
<1> DEFINE gone == Dismiss(d)
           ok == f.write /\ gone # Refused
           kept == IF d.aud # NoAud /\ ValidAudition(d, d.aud) THEN Dismissed(d) ELSE Main(d)
           s == IF ~f.early THEN NewSession ELSE Resting(IF ok THEN Main(gone) ELSE kept)
<1>1. /\ x.db = IF f.early /\ ok THEN gone ELSE d
      /\ x.ses = s /\ x.pv = NoPreview /\ x.plan = NoPlan /\ x.pipe = NoPipe
      /\ x.task = NoTask /\ x.effect = NoTask /\ x.late = FALSE /\ x.mail = <<>>
      /\ DOMAIN x.ing = {"occ", "pos", "pend"} /\ x.ing.pend = FALSE
      /\ DOMAIN x.inn = {"dirty", "ret", "chk", "restore"}
      /\ x.inn.restore = IF f.early /\ (ok \/ d.aud = NoAud) THEN "ok" ELSE "error"
      /\ DOMAIN x = WorldFields
  BY DEF Bare, Restored, Stored, WorldFields
<1>2. /\ gone = Refused <=> d.aud # NoAud /\ d.aud.saved.cur # d.cur
      /\ gone # Refused => /\ Holds(gone, d) /\ gone.aud = NoAud
                           /\ d.aud # NoAud => gone.pos = d.aud.saved.pos
                           /\ d.aud = NoAud => gone = d
  BY DismissStores
<1> HIDE DEF gone
<1>3. /\ kept.cur = d.cur /\ kept.rev = d.rev /\ DOMAIN kept = SessionFields
      /\ d.cur = NoOcc => kept.pos = 0
      /\ d.aud # NoAud /\ d.aud.saved.cur = d.cur => kept.pos = d.aud.saved.pos
  <2>1. CASE d.aud # NoAud /\ d.aud.saved.cur = d.cur
    <3>1. Audition(d.aud)
      BY <2>1 DEF Stored
    <3>2. ValidAudition(d, d.aud)
      BY <2>1, <3>1 DEF Audition, ValidAudition, Stirring
    <3>3. kept = Dismissed(d)
      BY <2>1, <3>2
    <3>4. /\ DOMAIN kept = SessionFields /\ kept.cur = d.aud.saved.cur
          /\ kept.pos = d.aud.saved.pos /\ kept.rev = d.rev
      BY <3>3 DEF Dismissed, Main, SessionFields
    <3> QED BY <2>1, <3>1, <3>4 DEF Audition, SavedOK
  <2>2. CASE ~(d.aud # NoAud /\ d.aud.saved.cur = d.cur)
    <3>1. kept = Main(d)
      BY <2>2 DEF ValidAudition
    <3> QED BY <2>2, <3>1 DEF Main, SessionFields, Stored, ValidSession
  <2> QED BY <2>1, <2>2
<1> HIDE DEF kept
<1>4. ASSUME f.early
      PROVE  /\ DOMAIN s = SessionFields /\ s.cur = d.cur /\ s.rev = d.rev
             /\ s.st = RestingState(s.cur) /\ (s.cur = NoOcc => s.pos = 0)
             /\ d.aud # NoAud /\ d.aud.saved.cur = d.cur => s.pos = d.aud.saved.pos
  <2>1. CASE ok
    <3>1. s = Resting(Main(gone)) /\ gone # Refused
      BY <1>4, <2>1
    <3>2. /\ DOMAIN s = SessionFields /\ s.cur = gone.cur /\ s.rev = gone.rev
          /\ s.pos = gone.pos /\ s.st = RestingState(s.cur)
      BY <3>1 DEF Resting, Main, SessionFields
    <3> HIDE DEF s
    <3> QED BY <1>2, <3>1, <3>2 DEF Holds, Stored, ValidSession
  <2>2. CASE ~ok
    <3>1. s = Resting(kept)
      BY <1>4, <2>2
    <3>2. /\ DOMAIN s = SessionFields /\ s.cur = kept.cur /\ s.rev = kept.rev
          /\ s.pos = kept.pos /\ s.st = RestingState(s.cur)
      BY <1>3, <3>1 DEF Resting, SessionFields
    <3> HIDE DEF s
    <3> QED BY <1>3, <3>2
  <2> QED BY <2>1, <2>2
<1>5. ASSUME ~f.early PROVE s = NewSession
  BY <1>5
<1> HIDE DEF s
<1>6. /\ DOMAIN s = SessionFields /\ s.rev \in Nat
      /\ s.cur = NoOcc => s.st = "idle" /\ s.pos = 0
      /\ s.cur # NoOcc => s.st \in Stirring
  BY <1>4, <1>5 DEF NewSession, SessionFields, RestingState, Stirring, Stored
<1>7. Stored(x.db) /\ x.db.cur = d.cur /\ x.db.rev = d.rev
  BY <1>1, <1>2 DEF Holds
<1>8. Shape(x) /\ Session(x)
  BY <1>1, <1>6 DEF Shape, Session
<1>9. Agrees(x)
  BY <1>1, <1>4, <1>5, <1>7 DEF Agrees, NewSession
<1>10. Previewed(x)
  BY <1>1, <1>2 DEF Previewed
<1>11. Silent(x)
  BY <1>1 DEF Silent
<1>12. Sound(x)
  BY <1>1, <1>7, <1>8, <1>9, <1>10, <1>11, AnewSound
<1>13. IF f.early THEN x.ses.cur = d.cur /\ x.ses.rev = d.rev ELSE x.ses = NewSession
  BY <1>1, <1>4, <1>5
<1>14. d.aud # NoAud /\ d.aud.saved.cur = d.cur /\ f.early => x.ses.pos = d.aud.saved.pos
  BY <1>1, <1>4
<1>15. d.aud = NoAud => x.db.aud = NoAud
  BY <1>1, <1>2
<1>16. f.early /\ f.write /\ (d.aud # NoAud => d.aud.saved.cur = d.cur) => x.inn.restore = "ok"
  BY <1>1, <1>2
<1> QED BY <1>1, <1>12, <1>13, <1>14, <1>15, <1>16

LEMMA RestartLeads ==
  ASSUME NEW w, Sound(w), NEW f, NEW x, x = Bare(Restored(w.db, f))
  PROVE  /\ Sound(x) /\ Departs(w, x) /\ Spares(w, x) /\ x.pv = NoPreview
         /\ w.db.aud = NoAud => x.db.aud = NoAud
<1> DEFINE d == w.db
<1>1. /\ Sound(x) /\ x.pv = NoPreview
      /\ IF f.early THEN x.ses.cur = d.cur /\ x.ses.rev = d.rev ELSE x.ses = NewSession
      /\ d.aud # NoAud /\ d.aud.saved.cur = d.cur /\ f.early =>
           x.ses.pos = d.aud.saved.pos
      /\ d.aud = NoAud => x.db.aud = NoAud
      /\ f.early /\ f.write /\ (d.aud # NoAud => d.aud.saved.cur = d.cur) =>
           x.inn.restore = "ok"
  <2>1. Stored(d) /\ x = Bare(Restored(d, f))
    BY DEF Sound
  <2> HIDE DEF d
  <2> QED BY ONLY <2>1, RestoredSound
<1>2. /\ w.inn.restore = "ok" \/ w.ses.cur # NoOcc => d.cur = w.ses.cur /\ d.rev = w.ses.rev
      /\ d.cur # NoOcc => d.rev > 0
      /\ d.rev \in Nat
  BY DEF Sound, Agrees, Stored
<1>3. w.pv # NoPreview =>
        /\ w.inn.restore = "ok" /\ d.aud # NoAud /\ d.aud.saved = w.pv.saved
        /\ w.pv.saved.cur = w.ses.cur /\ (w.ses.cur = NoOcc => w.pv.saved.pos = 0)
  BY DEF Sound, Previewed, Shape, Audition, SavedOK
<1>4. w.inn.restore = "ok" /\ d.aud # NoAud => d.aud.saved.cur = d.cur
  BY <1>2, <1>3 DEF Sound, Previewed
<1> HIDE DEF d
<1>5. Departs(w, x)
  BY <1>1, <1>2 DEF Departs, NewSession
<1>6. Spares(w, x)
  BY <1>1, <1>2, <1>3, <1>4 DEF Spares, NewSession
<1> QED BY <1>1, <1>4, <1>5, <1>6 DEF d

LEMMA RestartTrusts ==
  ASSUME NEW w, Sound(w), NEW f, f.early, f.write, w.inn.restore = "ok",
         NEW x, x = Bare(Restored(w.db, f))
  PROVE  x.inn.restore = "ok"
<1> DEFINE d == w.db
           kept == d.aud # NoAud => d.aud.saved.cur = d.cur
<1>1. Stored(d) /\ kept /\ x = Bare(Restored(d, f))
  <2>1. w.pv # NoPreview => w.pv.saved.cur = w.ses.cur
    BY DEF Sound, Previewed
  <2> QED BY <2>1 DEF Sound, Previewed, Agrees
<1> HIDE DEF d, kept
<1>2. (f.early /\ f.write /\ (d.aud # NoAud => d.aud.saved.cur = d.cur)) =>
        x.inn.restore = "ok"
  BY ONLY <1>1, RestoredSound
<1> QED BY <1>1, <1>2 DEF kept

-----------------------------------------------------------------------------
(* The owner.                                                              *)
Kinds == Plain \cup {"seek", "replace", "play", "select", "remove", "move"}

LEMMA AskedFor ==
  ASSUME Sound(World), NEW c \in Asked, InBounds(c)
  PROVE  /\ c.k \in Commands /\ c.k \in Kinds
         /\ c.k \notin Transports \cup {"seek", "preview", "restore"} => Sensible(World, c)
<1>1. World.db = db
  BY DEF World
<1>2. \A o \in Rows : o # NoOcc
  <2>1. db.ord \in Seq(Nat \ {NoOcc})
    BY <1>1 DEF Sound, Stored
  <2> QED BY <2>1, Elements DEF Rows
<1>3. MaxRows \in Nat
  BY StartAssumption
<1>4. CASE c \in [k : Plain \cap Commands]
  BY <1>1, <1>4 DEF Kinds, Plain, Transports, Sensible, Edits, InBounds
<1>5. CASE c \in [k : {"seek"} \cap Commands, to : 0..Duration]
  BY <1>5 DEF Kinds
<1>6. CASE c \in [k : {"replace", "play"} \cap Commands, n : 1..MaxRows]
  BY <1>3, <1>6 DEF Kinds, Transports, Sensible, Edits
<1>7. CASE c \in [k : {"select", "remove"} \cap Commands, occ : Rows]
  BY <1>7 DEF Kinds, Transports, Sensible, Edits
<1>8. CASE c \in {m \in [k : {"move"} \cap Commands, occ : Rows, before : Rows \cup {NoOcc}] :
                    m.before \notin {m.occ, Successor(db, m.occ)}}
  BY <1>2, <1>8 DEF Kinds, Transports, Sensible, Edits
<1> QED BY <1>4, <1>5, <1>6, <1>7, <1>8 DEF Asked

LEMMA HandledLeads ==
  ASSUME NEW w, Sound(w), NEW c, c.k \in Commands, c.k \in Kinds,
         c.k \notin Transports \cup {"seek", "preview", "restore"} => Sensible(w, c),
         NEW f, NEW x, x = Handled(w, c, f)
  PROVE  Leads(w, x)
<1> DEFINE v == Sample(w)
<1>1. Near(w, v) /\ Sound(v)
  BY SampleNear, NearSound DEF Sound, Quiet, Silent
<1>2. /\ InPreview(w) <=> v.pv # NoPreview
      /\ InPreview(w) <=> w.pv # NoPreview
  BY <1>1 DEF Near, InPreview
<1> HIDE DEF v
<1>3. CASE c.k \in Transports /\ InPreview(w)
  <2>1. x = PreviewControl(v, c.k, f)
    BY <1>3 DEF Handled, Transports, v
  <2> QED BY <1>1, <1>2, <1>3, <2>1, PreviewControlLeads, NearLeads
<1>4. CASE c.k \in Transports /\ ~InPreview(w)
  <2>1. x = Control(v, c.k, f)
    BY <1>4 DEF Handled, Transports, v
  <2> QED BY <1>1, <1>2, <1>4, <2>1, ControlLeads, NearLeads
<1>5. CASE c.k = "seek"
  <2>1. x = Seek(v, c.to, f)
    BY <1>5 DEF Handled, Transports, v
  <2> QED BY <1>1, <2>1, SeekLeads, NearLeads
<1>6. CASE c.k = "preview"
  <2>1. x = Preview(v, f) /\ "preview" \in Commands
    BY <1>6 DEF Handled, Transports, v
  <2> QED BY <1>1, <2>1, PreviewLeads, NearLeads
<1>7. CASE c.k = "restore"
  <2>1. x = RetryRestore(w, f)
    BY <1>7 DEF Handled, Transports
  <2> QED BY <2>1, RetryRestoreLeads
<1>8. CASE c.k \notin Transports \cup {"seek", "preview", "restore"}
  <2>1. x = Apply(w, c, f)
    BY <1>8 DEF Handled
  <2> QED BY <1>8, <2>1, ApplyLeads
<1> QED BY <1>3, <1>4, <1>5, <1>6, <1>7, <1>8

LEMMA OwnerLeads ==
  ASSUME Sound(World), Owner PROVE Leads(World, World')
<1> DEFINE w == World
<1>1. w.ok = TRUE /\ w.mail = mail /\ w.db = db
  BY DEF World
<1>2. ASSUME NEW c \in Asked, NEW f \in Disk, Command(c, f) PROVE Leads(w, World')
  <2> DEFINE v == Handled(w, c, f)
             x == IF v.ok THEN Refresh(v) ELSE v
  <2>1. InBounds(c) /\ Becomes(x)
    BY <1>2 DEF Command
  <2>2. Leads(w, v)
    BY <1>2, <2>1, AskedFor, HandledLeads
  <2> HIDE DEF v
  <2>3. Leads(w, x)
    <3>1. Calm(v, Refresh(v))
      BY <2>2, RefreshCalm DEF Leads, Sound
    <3> QED BY <2>2, <3>1, LeadsCalm
  <2> HIDE DEF x
  <2> QED BY <2>1, <2>3, Becoming, BareLeads
<1>3. ASSUME NEW f \in Disk, TakeBoundary(f) PROVE Leads(w, World')
  <2> DEFINE v == Reconcile(w, f.early)
             x == IF v.ses.cur # ses.cur THEN Reset(v) ELSE v
  <2>1. Becomes(x)
    BY <1>3 DEF TakeBoundary
  <2>2. Leads(w, v)
    BY ReconcileLeads
  <2> HIDE DEF v
  <2>3. Leads(w, x)
    <3>1. Calm(v, Reset(v))
      BY <2>2, ResetCalm DEF Leads, Sound
    <3> QED BY <2>2, <3>1, LeadsCalm
  <2> HIDE DEF x
  <2> QED BY <2>1, <2>3, Becoming, BareLeads
<1>4. ASSUME NEW f \in Disk, TakeEvent(f) PROVE Leads(w, World')
  <2> DEFINE v == [w EXCEPT !.mail = Tail(@)]
             x == Process(v, Head(mail), f)
  <2>1. Becomes(x) /\ w.mail # <<>>
    BY <1>1, <1>4 DEF TakeEvent
  <2>2. Alive(w)
    BY <2>1 DEF Sound, Quiet, Silent
  <2>3. Calm(w, v)
    BY <2>2 DEF Sound, Calm, Shape, WorldFields
  <2> HIDE DEF v
  <2>4. Near(w, v) /\ Sound(v) /\ Alive(v)
    BY <2>2, <2>3, CalmNear, NearSound DEF Calm, Alive
  <2>5. Leads(w, x)
    BY <2>4, ProcessLeads, NearLeads
  <2> HIDE DEF x
  <2> QED BY <2>1, <2>5, Becoming, BareLeads
<1>5. ASSUME TakeProgress PROVE Leads(w, World')
  <2> DEFINE x == Sample(w)
  <2>1. Becomes(x)
    BY <1>5 DEF TakeProgress
  <2>2. Leads(w, x)
    BY SampleNear, NearIsStep DEF Sound, Quiet, Silent
  <2> HIDE DEF x
  <2> QED BY <2>1, <2>2, Becoming, BareLeads
<1>6. ASSUME NEW f \in Disk, PeriodicCheckpoint(f) PROVE Leads(w, World')
  <2> DEFINE x == Checkpointed(w, f.write)
  <2>1. Becomes(x)
    BY <1>6 DEF PeriodicCheckpoint
  <2>2. Leads(w, x)
    BY NearItself, NearIsStep, LeadsCheckpointed
  <2> HIDE DEF x
  <2> QED BY <2>1, <2>2, Becoming, BareLeads
<1> QED BY <1>2, <1>3, <1>4, <1>5, <1>6 DEF Owner

-----------------------------------------------------------------------------
(* What runs beside it.                                                    *)
LEMMA BecomesCalm ==
  ASSUME Sound(World), NEW x, Calm(World, x), Becomes(x) PROVE Leads(World, World')
BY CalmIsStep, Becoming, BareLeads

LEMMA PreparationLeads ==
  ASSUME Sound(World), Preparation PROVE Leads(World, World')
<1>1. /\ World.effect = effect /\ World.task = task /\ World.late = late /\ World.pipe = pipe
      /\ Shape(World)
  BY DEF World, Sound
<1>2. ASSUME Dispatch PROVE Leads(World, World')
  <2> DEFINE w == [World EXCEPT !.effect = NoTask]
             t == IF effect.op = "continue"
                  THEN [op |-> "play", occ |-> Active(w), pos |-> ActivePos(w), audible |-> TRUE]
                  ELSE effect
             start == [w EXCEPT !.task = t]
  <2>1. Alive(World)
    BY <1>1, <1>2 DEF Dispatch, Sound, Quiet, Silent
  <2>2. Calm(World, w)
    BY <1>1, <2>1 DEF Calm, Shape, WorldFields
  <2>3. PICK x \in {Reopen(w), w, start} : Becomes(x)
    BY <1>2 DEF Dispatch
  <2> HIDE DEF w, t
  <2>4. Calm(w, start)
    BY <2>1, <2>2 DEF Calm, Alive, Shape, WorldFields
  <2> HIDE DEF start
  <2>5. Calm(w, x)
    BY <2>2, <2>3, <2>4, ReopenCalm, CalmItself DEF Calm
  <2> QED BY <2>2, <2>3, <2>5, CalmTwice, BecomesCalm
<1>3. ASSUME Install PROVE Leads(World, World')
  <2> DEFINE w == [World EXCEPT !.task = NoTask]
             u == Enqueue(w, Say("resolved"), "now")
             p == NewPipe(task)
             v == [u EXCEPT !.pipe = p]
  <2>1. Alive(World)
    BY <1>1, <1>3 DEF Install, Sound, Quiet, Silent
  <2>2. Calm(World, w) /\ Alive(w)
    BY <1>1, <2>1 DEF Calm, Alive, Shape, WorldFields
  <2>3. PICK x \in {Reopen(w), Reopen(v), v} : Becomes(x)
    BY <1>3 DEF Install
  <2> HIDE DEF w
  <2>4. Calm(w, u) /\ Alive(u)
    BY <2>2, EnqueueCalm DEF Calm, Alive
  <2> HIDE DEF u
  <2>5. DOMAIN p = PipeFields /\ p.next = "none"
    BY DEF NewPipe, PipeFields
  <2> HIDE DEF p
  <2>6. Calm(u, v)
    BY <2>4, <2>5 DEF Calm, Alive, Shape, WorldFields
  <2> HIDE DEF v
  <2>7. Calm(w, v) /\ Shape(v)
    BY <2>4, <2>6, CalmTwice DEF Calm
  <2>8. Calm(w, x)
    BY <2>2, <2>3, <2>7, ReopenCalm, CalmTwice DEF Calm
  <2> QED BY <2>2, <2>3, <2>8, CalmTwice, BecomesCalm
<1>4. ASSUME FailPreparation PROVE Leads(World, World')
  <2> DEFINE u == [World EXCEPT !.task = NoTask]
  <2>1. PICK k : \E gone \in BOOLEAN :
          Becomes(IF gone THEN [Enqueue(u, Say(k), "now") EXCEPT !.pipe = NoPipe]
                  ELSE Enqueue(u, Say(k), "now"))
    BY <1>4 DEF FailPreparation
  <2> DEFINE w == Enqueue(u, Say(k), "now")
             v == [w EXCEPT !.pipe = NoPipe]
  <2>2. PICK x \in {w, v} : Becomes(x)
    BY <2>1
  <2>3. Alive(World)
    BY <1>1, <1>4 DEF FailPreparation, Sound, Quiet, Silent
  <2>4. Calm(World, u) /\ Alive(u)
    BY <1>1, <2>3 DEF Calm, Alive, Shape, WorldFields
  <2> HIDE DEF u
  <2>5. Calm(u, w) /\ Alive(w)
    BY <2>4, EnqueueCalm DEF Calm, Alive
  <2> HIDE DEF w
  <2>6. Calm(w, v)
    BY <2>5 DEF Calm, Alive, Shape, WorldFields
  <2> HIDE DEF v
  <2>7. Calm(u, x)
    BY <2>2, <2>5, <2>6, CalmTwice
  <2> QED BY <2>2, <2>4, <2>7, CalmTwice, BecomesCalm
<1>5. ASSUME FailLate PROVE Leads(World, World')
  <2> DEFINE u == [World EXCEPT !.late = FALSE]
             w == Enqueue(u, Say("failed"), "old")
  <2>1. PICK x \in {u, w} : Becomes(x)
    BY <1>5 DEF FailLate
  <2>2. Alive(World)
    BY <1>1, <1>5 DEF FailLate, Sound, Quiet, Silent
  <2>3. Calm(World, u) /\ Alive(u)
    BY <1>1, <2>2 DEF Calm, Alive, Shape, WorldFields
  <2> HIDE DEF u
  <2>4. Calm(u, w)
    BY <2>3, EnqueueCalm DEF Calm
  <2> HIDE DEF w
  <2> QED BY <2>1, <2>3, <2>4, CalmTwice, BecomesCalm
<1> QED BY <1>2, <1>3, <1>4, <1>5 DEF Preparation

LEMMA TellCalm ==
  ASSUME NEW w, NEW u, Calm(w, u), Alive(w), NEW e PROVE Calm(w, Tell(u, e))
<1>1. Shape(u) /\ Alive(u)
  BY DEF Calm, Alive
<1>2. Calm(u, Tell(u, e))
  BY <1>1, EnqueueCalm DEF Tell
<1> QED BY <1>2, CalmTwice

LEMMA ClaimLeads == ASSUME Sound(World), Claim PROVE Leads(World, World')
<1> DEFINE w == World
           x == [w EXCEPT !.pipe.next = "claimed"]
<1>1. /\ Becomes(x) /\ pipe # NoPipe /\ pv = NoPreview /\ pipe.occ = ses.cur
      /\ Successor(db, ses.cur) # NoOcc
  BY DEF Claim, Live, Fed
<1>2. w.pipe = pipe /\ w.pv = pv /\ w.ses = ses /\ w.db = db
  BY DEF World
<1> HIDE DEF w
<1>3. /\ DOMAIN x = WorldFields /\ x.db = w.db /\ x.ses = w.ses /\ x.pv = w.pv
      /\ x.plan = w.plan /\ x.inn = w.inn /\ x.ing = w.ing /\ x.task = w.task
      /\ x.effect = w.effect /\ x.late = w.late /\ x.mail = w.mail
      /\ x.pipe = [w.pipe EXCEPT !.next = "claimed"]
  BY DEF w, World, WorldFields
<1> HIDE DEF x
<1>4. DOMAIN x.pipe = PipeFields /\ x.pipe.occ = w.pipe.occ
  BY <1>1, <1>2, <1>3 DEF w, Sound, Shape, PipeFields
<1>5. w.ses.cur # NoOcc
  <2>1. w.ses.cur \in ToSet(w.db.ord)
    BY <1>1, <1>2 DEF Successor, Upcoming
  <2>2. w.db.ord \in Seq(Nat \ {NoOcc})
    BY DEF w, Sound, Stored
  <2> QED BY <2>1, <2>2, Elements
<1>6. Shape(x) /\ Stored(x.db) /\ Session(x) /\ Agrees(x) /\ Previewed(x) /\ Waiting(x)
  BY <1>3, <1>4 DEF w, Sound, Shape, Session, Agrees, Previewed, Waiting, Here
<1>7. Claimed(x) /\ Quiet(x)
  BY <1>1, <1>2, <1>3, <1>4, <1>5 DEF Claimed, Quiet, Alive
<1>8. Follows(w, x)
  BY <1>3 DEF Follows
<1>9. Leads(w, x)
  BY <1>6, <1>7, <1>8, FollowsStep DEF Leads, Sound
<1> QED BY <1>1, <1>9, Becoming, BareLeads DEF w

LEMMA WorkerLeads == ASSUME Sound(World), Worker PROVE Leads(World, World')
<1> DEFINE w == World
<1>1. /\ w.pipe = pipe /\ w.ing = ing /\ Shape(w)
      /\ Live \/ Fed => pipe # NoPipe
      /\ pipe # NoPipe => DOMAIN pipe = PipeFields
      /\ pipe # NoPipe => Alive(w)
  BY DEF World, Sound, Shape, Live, Fed, Quiet, Silent
<1> HIDE DEF w
<1>2. ASSUME Open PROVE Leads(w, World')
  <2> DEFINE pos == IF Seekable /\ pipe.op # "seek" /\ pipe.pos = Duration THEN 0
                    ELSE pipe.pos
             u == [World EXCEPT !.gate = Wanted(World), !.pipe.opened = TRUE, !.pipe.pos = pos,
                                !.pipe.op = IF @ = "back" THEN "play" ELSE @]
             v == IF Seekable THEN Tell(u, Say("qualified")) ELSE u
             x == CASE pipe.op = "seek" -> Tell(v, [k |-> "seekCommitted", pos |-> pos])
                    [] pipe.op = "back" -> Tell(v, Say("backCommitted"))
                    [] OTHER -> v
  <2>1. Becomes(x) /\ pipe # NoPipe
    BY <1>1, <1>2 DEF Open
  <2> HIDE DEF pos
  <2>2. Calm(w, u)
    BY <1>1, <2>1 DEF w, Calm, Shape, WorldFields, PipeFields
  <2> HIDE DEF u
  <2>3. Calm(w, v)
    BY <1>1, <2>1, <2>2, TellCalm
  <2>4. x = v \/ \E e : x = Tell(v, e)
    BY DEF x
  <2> HIDE DEF v, x
  <2>5. Calm(w, x)
    BY <1>1, <2>1, <2>3, <2>4, TellCalm
  <2> QED BY <2>1, <2>5, BecomesCalm DEF w
<1>3. ASSUME ReportActive PROVE Leads(w, World')
  <2> DEFINE u == [w EXCEPT !.pipe.said = TRUE]
  <2>1. Becomes(Tell(u, Say("active"))) /\ pipe # NoPipe
    BY <1>1, <1>3 DEF ReportActive, w
  <2>2. Calm(w, u)
    BY <1>1, <2>1 DEF Calm, Shape, WorldFields, PipeFields
  <2> HIDE DEF u
  <2> QED BY <1>1, <2>1, <2>2, TellCalm, BecomesCalm DEF w
<1>4. ASSUME ReportBuffering PROVE Leads(w, World')
  <2> DEFINE u == [w EXCEPT !.pipe.said = FALSE]
  <2>1. Becomes(Tell(u, Say("buffering"))) /\ pipe # NoPipe
    BY <1>1, <1>4 DEF ReportBuffering, w
  <2>2. Calm(w, u)
    BY <1>1, <2>1 DEF Calm, Shape, WorldFields, PipeFields
  <2> HIDE DEF u
  <2> QED BY <1>1, <2>1, <2>2, TellCalm, BecomesCalm DEF w
<1>5. ASSUME Rest PROVE Leads(w, World')
  <2> DEFINE u == [w EXCEPT !.pipe.said = FALSE]
  <2>1. Becomes(u) /\ pipe # NoPipe
    BY <1>1, <1>5 DEF Rest, w
  <2>2. Calm(w, u)
    BY <1>1, <2>1 DEF Calm, Shape, WorldFields, PipeFields
  <2> HIDE DEF u
  <2> QED BY <2>1, <2>2, BecomesCalm DEF w
<1>6. ASSUME Play PROVE Leads(w, World')
  <2> DEFINE pos == pipe.pos + 1
             u == [w EXCEPT !.pipe.pos = pos]
             v == [u EXCEPT !.ing.pos = pos, !.ing.pend = TRUE]
  <2>1. pipe # NoPipe
    BY <1>1, <1>6 DEF Play
  <2>2. PICK x \in {u, v} : Becomes(x)
    BY <1>6 DEF Play, w
  <2> HIDE DEF pos
  <2>3. Calm(w, u)
    BY <1>1, <2>1 DEF Calm, Shape, WorldFields, PipeFields
  <2> HIDE DEF u
  <2>4. Calm(u, v)
    BY <1>1, <2>1, <2>3 DEF Calm, Alive, Shape, WorldFields
  <2> HIDE DEF v
  <2> QED BY <2>2, <2>3, <2>4, CalmTwice, BecomesCalm DEF w
<1>7. ASSUME Hear PROVE Leads(w, World')
  <2> DEFINE u == [w EXCEPT !.pipe.next = "heard"]
  <2>1. Becomes(u) /\ pipe # NoPipe /\ pipe.next = "claimed"
    BY <1>7 DEF Hear, w
  <2>2. Calm(w, u)
    BY <1>1, <2>1 DEF Calm, Shape, WorldFields, PipeFields
  <2> HIDE DEF u
  <2> QED BY <2>1, <2>2, BecomesCalm DEF w
<1>8. ASSUME Complete PROVE Leads(w, World')
  <2> DEFINE u == [w EXCEPT !.pipe.live = "dead"]
             e == [k |-> "completed", pos |-> Duration]
  <2>1. Becomes(Tell(u, e)) /\ pipe # NoPipe
    BY <1>1, <1>8 DEF Complete, w
  <2>2. Calm(w, u)
    BY <1>1, <2>1 DEF Calm, Shape, WorldFields, PipeFields
  <2> HIDE DEF u, e
  <2> QED BY <1>1, <2>1, <2>2, TellCalm, BecomesCalm DEF w
<1>9. ASSUME NEW lost \in BOOLEAN, FailPipe(lost) PROVE Leads(w, World')
  <2>1. PICK k : Becomes(Tell([w EXCEPT !.pipe.live = "dead", !.gate = w.gate /\ ~lost], Say(k)))
    BY <1>9 DEF FailPipe, w
  <2> DEFINE open == w.gate /\ ~lost
             u == [w EXCEPT !.pipe.live = "dead", !.gate = open]
  <2>2. Becomes(Tell(u, Say(k))) /\ pipe # NoPipe
    BY <1>1, <1>9, <2>1 DEF FailPipe
  <2> HIDE DEF open
  <2>3. Calm(w, u)
    BY <1>1, <2>2 DEF Calm, Shape, WorldFields, PipeFields
  <2> HIDE DEF u
  <2> QED BY <1>1, <2>2, <2>3, TellCalm, BecomesCalm DEF w
<1>10. CASE Claim
  BY <1>10, ClaimLeads DEF w
<1> QED BY <1>2, <1>3, <1>4, <1>5, <1>6, <1>7, <1>8, <1>9, <1>10 DEF Worker, w

(* Shutdown and restart. A restart alone may lose trust in the disk.       *)
Restarts(w, x) ==
  \E f \in Disk : Sound(x) /\ x = Bare(Restored(w.db, f))

LEMMA LifecycleLeads ==
  ASSUME Sound(World), Lifecycle
  PROVE  Leads(World, World') \/ Restarts(World, World')
<1> DEFINE w == World
<1>1. ASSUME BeginShutdown \/ Fence PROVE Leads(World, World')
  <2>1. /\ w'.db = w.db /\ w'.ses = w.ses /\ w'.pv = w.pv /\ w'.plan = w.plan /\ w'.inn = w.inn
        /\ w'.pipe = w.pipe /\ w'.task = w.task /\ w'.effect = w.effect /\ w'.late = w.late
        /\ w'.mail = w.mail /\ w'.ing = w.ing /\ DOMAIN w' = DOMAIN w
    BY <1>1 DEF BeginShutdown, Fence, World
  <2>2. Calm(World, World')
    BY <2>1 DEF Sound, Calm, Shape, Silent
  <2> QED BY <2>2, CalmIsStep
<1>2. ASSUME NEW f \in Disk, ShutdownCheckpoint(f) PROVE Leads(World, World')
  <2> DEFINE v == Sample(World)
             x == Checkpointed(v, f.write)
  <2>1. Becomes(x)
    BY <1>2 DEF ShutdownCheckpoint
  <2>2. Leads(World, v)
    BY SampleNear, NearIsStep DEF Sound, Quiet, Silent
  <2> HIDE DEF v
  <2>3. Leads(World, x)
    BY <2>2, LeadsCheckpointed
  <2> HIDE DEF x
  <2> QED BY <2>1, <2>3, Becoming, BareLeads
<1>3. ASSUME NEW f \in Disk, Restart(f) PROVE Restarts(World, World')
  <2>1. World' = Bare(Restored(World.db, f))
    BY <1>3, Becoming DEF Restart, World
  <2>2. Sound(World')
    BY <2>1, RestartLeads
  <2> QED BY <2>1, <2>2 DEF Restarts
<1> QED BY <1>1, <1>2, <1>3 DEF Lifecycle, Quit, Crash

LEMMA AnyStepLeads ==
  ASSUME Sound(World), Next PROVE Leads(World, World') \/ Restarts(World, World')
BY OwnerLeads, PreparationLeads, WorkerLeads, LifecycleLeads DEF Next

-----------------------------------------------------------------------------
(* The invariant.                                                          *)
LEMMA StartSound ==
  ASSUME Init PROVE Sound(World) /\ pv = NoPreview /\ inn.restore = "ok" /\ db.aud = NoAud
<1> DEFINE f == [early |-> TRUE, write |-> TRUE]
           r == Restored(Empty, f)
<1>1. World = Bare(r)
  BY DEF Init, World, Bare
<1>2. Stored(Empty)
  <2>1. DOMAIN Empty = DiskFields /\ Empty.ord = <<>> /\ Empty.cur = NoOcc /\ Empty.pos = 0
        /\ Empty.rev = 0 /\ Empty.st = "idle" /\ Empty.act = NoOcc /\ Empty.stray = FALSE
        /\ Empty.aud = NoAud
    BY DEF Empty, DiskFields
  <2>2. \A rows : rows = <<>> => IsInjective(rows) /\ rows \in Seq(Nat \ {NoOcc})
    BY DEF IsInjective
  <2> QED BY <2>1, <2>2 DEF Stored, ValidSession
<1>3. Empty.aud = NoAud
  BY DEF Empty
<1>4. /\ Sound(World) /\ World.pv = NoPreview /\ World.db.aud = NoAud
      /\ World.inn.restore = "ok"
  <2>1. f.early /\ f.write
    OBVIOUS
  <2> HIDE DEF f
  <2> QED BY <1>1, <1>2, <1>3, <2>1, RestoredSound
<1> QED BY <1>4 DEF World

LEMMA SoundIsKept ==
  ASSUME Sound(World), [Next]_vars PROVE Sound(World')
<1>1. CASE Next
  BY <1>1, AnyStepLeads DEF Leads, Restarts
<1>2. CASE UNCHANGED vars
  <2>1. World' = World
    BY <1>2 DEF vars, World
  <2> QED BY <2>1
<1> QED BY <1>1, <1>2

THEOREM WorldIsSound == Spec => []Sound(World)
<1>1. Init => Sound(World)
  BY StartSound
<1>2. Sound(World) /\ [Next]_vars => Sound(World)'
  <2>1. Sound(World)' <=> Sound(World')
    BY DEF Sound
  <2> QED BY <2>1, SoundIsKept
<1> QED BY <1>1, <1>2, PTL DEF Spec

(* What a restart may rely on, unconditionally: the queue on the disk is   *)
(* one that restore accepts (persistence.rs:297-470), no open attempt is   *)
(* without an owner, and while the owner trusts the disk it holds the      *)
(* occurrence and the revision the owner works with, and a preview's row   *)
(* that the next start can dismiss.                                        *)
QueueStored ==
  /\ ValidSession(db) /\ ~db.stray
  /\ inn.restore = "ok" => Restorable(db) /\ db.cur = ses.cur /\ db.rev = ses.rev

LEMMA SoundStores == ASSUME Sound(World) PROVE QueueStored
<1>1. World.db = db /\ World.ses = ses /\ World.inn = inn /\ World.pv = pv
  BY DEF World
<1>2. ValidSession(db) /\ ~db.stray
  BY <1>1 DEF Sound, Stored
<1>3. ASSUME inn.restore = "ok"
      PROVE  db.cur = ses.cur /\ db.rev = ses.rev /\ (db.aud = NoAud \/ ValidAudition(db, db.aud))
  <2>1. db.cur = ses.cur /\ db.rev = ses.rev
    BY <1>1, <1>3 DEF Sound, Agrees
  <2>2. ASSUME db.aud # NoAud PROVE ValidAudition(db, db.aud)
    <3>1. db.aud.saved.cur = ses.cur
      BY <1>1, <1>3, <2>2 DEF Sound, Previewed
    <3>2. Audition(db.aud)
      BY <1>1, <2>2 DEF Sound, Stored
    <3> QED BY <2>1, <3>1, <3>2 DEF Audition, ValidAudition, Stirring
  <2> QED BY <2>1, <2>2
<1> QED BY <1>2, <1>3 DEF QueueStored, Restorable

(* Whatever is on the disk when the process dies (session.rs, owner_loop): *)
(* the main queue can be read back, through any commands, failing writes,  *)
(* previews, shutdowns and crashes.                                        *)
THEOREM QueueSurvives == Spec => []QueueStored
<1>1. Sound(World) => QueueStored
  BY SoundStores
<1> QED BY <1>1, WorldIsSound, PTL

(* The preview being played is the one a restart would dismiss: memory and *)
(* the row of playback_audition never part, whatever the disk refuses      *)
(* (session.rs, persist before show).                                      *)
THEOREM PreviewIsStored == Spec => []PreviewStored
<1>1. Sound(World) => PreviewStored
  <2>1. World.db = db /\ World.ses = ses /\ World.inn = inn /\ World.pv = pv
    BY DEF World
  <2> QED BY <2>1 DEF Sound, Previewed, PreviewStored
<1> QED BY <1>1, WorldIsSound, PTL

(* Where either nobody previews or the disk never refuses a write, the     *)
(* disk also always holds an audition row that can be dismissed. (With     *)
(* both it may not: a dismissal that failed leaves the row to a main queue *)
(* that goes on moving.)                                                   *)
Trusted ==
  IF "preview" \notin Commands THEN pv = NoPreview /\ db.aud = NoAud
  ELSE inn.restore = "ok"

LEMMA TrustIsKept ==
  ASSUME "preview" \notin Commands \/ "disk" \notin Faults,
         Sound(World), Trusted, [Next]_vars
  PROVE  Trusted'
<1>1. /\ World.db = db /\ World.inn = inn /\ World.pv = pv
      /\ World'.db = db' /\ World'.inn = inn' /\ World'.pv = pv'
  BY DEF World
<1>2. CASE Leads(World, World')
  <2>1. Trusts(World, World') /\ Sound(World')
    BY <1>2 DEF Leads, Step
  <2>2. CASE "preview" \notin Commands
    <3>1. pv' = NoPreview
      BY <1>1, <2>1, <2>2 DEF Trusted, Trusts
    <3>2. db'.aud = NoAud
      BY <1>1, <2>1, <2>2, <3>1 DEF Trusted, Trusts, Sound, Previewed, Shape
    <3> QED BY <2>2, <3>1, <3>2 DEF Trusted
  <2>3. CASE "preview" \in Commands
    BY <1>1, <2>1, <2>3 DEF Trusted, Trusts, Sound, Shape
  <2> QED BY <2>2, <2>3
<1>3. CASE Restarts(World, World')
  <2>1. PICK f \in Disk : World' = Bare(Restored(World.db, f))
    BY <1>3 DEF Restarts
  <2> DEFINE w == World
             x == World'
  <2>2. Sound(w) /\ x = Bare(Restored(w.db, f))
    BY <2>1
  <2> HIDE DEF w, x
  <2>3. x.pv = NoPreview /\ (w.db.aud = NoAud => x.db.aud = NoAud)
    BY ONLY <2>2, RestartLeads
  <2>4. CASE "preview" \notin Commands
    BY <1>1, <2>3, <2>4 DEF Trusted, w, x
  <2>5. CASE "preview" \in Commands
    <3>1. f.early /\ f.write
      BY <2>1, <2>5 DEF Disk
    <3>2. w.inn.restore = "ok"
      BY <1>1, <2>5 DEF Trusted, w
    <3>3. x.inn.restore = "ok"
      BY ONLY <2>2, <3>1, <3>2, RestartTrusts
    <3> QED BY <1>1, <2>5, <3>3 DEF Trusted, x
  <2> QED BY <2>4, <2>5
<1>4. CASE UNCHANGED vars
  BY <1>4 DEF vars, Trusted
<1> QED BY <1>2, <1>3, <1>4, AnyStepLeads

THEOREM DiskIsTrue ==
  ASSUME "preview" \notin Commands \/ "disk" \notin Faults
  PROVE  Spec => []DiskIsTruth
<1>1. Init => Trusted
  BY StartSound DEF Trusted
<1>2. Sound(World) /\ Trusted /\ [Next]_vars => Trusted'
  BY TrustIsKept
<1>3. Sound(World) /\ Trusted => DiskIsTruth
  <2> SUFFICES ASSUME Sound(World), Trusted PROVE DiskIsTruth
    OBVIOUS
  <2>1. QueueStored
    BY SoundStores
  <2> QED BY <2>1 DEF QueueStored, Trusted, DiskIsTruth, Restorable
<1> QED BY <1>1, <1>2, <1>3, WorldIsSound, PTL DEF Spec

(* What is said to be playing has an open attempt on the disk, or had one  *)
(* whose outcome is already there, and no transaction leaves an attempt    *)
(* open that the session does not name: also where departures are kept     *)
(* waiting, writes fail, and the process dies (persistence.rs, update and  *)
(* terminal_transition).                                                   *)
THEOREM PlayingIsAttended == Spec => []Listening
<1>1. Sound(World) => Listening
  <2> SUFFICES ASSUME Sound(World) PROVE Listening
    OBVIOUS
  <2>1. World.db = db /\ World.ses = ses /\ World.inn = inn /\ World.pv = pv
    BY DEF World
  <2>2. ~db.stray /\ (db.cur # NoOcc => db.act = db.cur \/ db.cur \in db.out)
    BY <2>1 DEF Sound, Stored
  <2>3. ASSUME ses.st = "playing" PROVE ses.cur # NoOcc /\ db.cur = ses.cur
    BY <2>1, <2>3 DEF Sound, Session, Agrees
  <2> QED BY <2>2, <2>3 DEF Listening
<1> QED BY <1>1, WorldIsSound, PTL

(* Whenever the main session moves to another occurrence of the same queue *)
(* (Next, Back, a completion, a boundary, a restart), the attempt on the   *)
(* one it leaves is closed on the disk in the same step.                   *)
THEOREM DeparturesAreClosed == Spec => DepartureClosed
<1>1. Sound(World) /\ [Next]_vars =>
        [/\ pv = NoPreview /\ pv' = NoPreview /\ ses'.rev = ses.rev
         /\ ses.cur \notin {NoOcc, ses'.cur}
         => ses.cur \in db'.done /\ db'.act # ses.cur]_vars
  <2> SUFFICES ASSUME Sound(World), Next, pv = NoPreview, pv' = NoPreview,
                      ses'.rev = ses.rev, ses.cur \notin {NoOcc, ses'.cur}
               PROVE  ses.cur \in db'.done /\ db'.act # ses.cur
    OBVIOUS
  <2>1. Departs(World, World')
    BY AnyStepLeads, RestartLeads DEF Leads, Step, Restarts
  <2> QED BY <2>1 DEF Departs, World
<1> QED BY <1>1, WorldIsSound, PTL DEF Spec, DepartureClosed

(* A preview leaves the main session alone while it lasts, and gives it    *)
(* back where it was when it ends: by Stop, Return, completion, a failure, *)
(* a crash or a quit (session.rs, finish_preview and restore).             *)
THEOREM QueueIsUntouched == Spec => QueueUntouched
<1>1. Sound(World) /\ [Next]_vars =>
        [pv # NoPreview /\ ses'.rev = ses.rev =>
           IF pv' # NoPreview THEN ses' = ses /\ pv'.saved = pv.saved
           ELSE ses'.cur = pv.saved.cur /\ ses'.pos = pv.saved.pos]_vars
  <2> SUFFICES ASSUME Sound(World), Next, pv # NoPreview, ses'.rev = ses.rev
               PROVE  IF pv' # NoPreview THEN ses' = ses /\ pv'.saved = pv.saved
                      ELSE ses'.cur = pv.saved.cur /\ ses'.pos = pv.saved.pos
    OBVIOUS
  <2>1. Spares(World, World')
    BY AnyStepLeads, RestartLeads DEF Leads, Step, Restarts
  <2> QED BY <2>1 DEF Spares, World
<1> QED BY <1>1, WorldIsSound, PTL DEF Spec, QueueUntouched

-----------------------------------------------------------------------------
(* While a departure waits.                                                *)

(* What leaves the owner's own state alone.                                *)
Idle(w, v) ==
  /\ DOMAIN v = WorldFields
  /\ v.db = w.db /\ v.ses = w.ses /\ v.pv = w.pv /\ v.play = w.play
  /\ v.plan = w.plan /\ v.inn = w.inn

LEMMA IdleTwice == ASSUME NEW w, NEW u, NEW v, Idle(w, u), Idle(u, v) PROVE Idle(w, v)
BY DEF Idle

LEMMA IdleItself == ASSUME NEW w, DOMAIN w = WorldFields PROVE Idle(w, w)
BY DEF Idle

LEMMA IdleErr == ASSUME NEW w, DOMAIN w = WorldFields PROVE Idle(w, Err(w))
BY DEF Idle, WorldFields, Err

LEMMA IdleAdvance == ASSUME NEW w, DOMAIN w = WorldFields PROVE Idle(w, Advance(w))
<1> DEFINE u == AdvanceKeepingMail(w)
<1>1. Idle(w, u)
  BY DEF Idle, WorldFields, AdvanceKeepingMail
<1> HIDE DEF u
<1>2. \A m : Idle(u, [u EXCEPT !.mail = m])
  BY <1>1 DEF Idle, WorldFields
<1>3. Advance(w) = [u EXCEPT !.mail = SelectSeq(u.mail, Timeless)]
  BY DEF Advance, u
<1> QED BY <1>1, <1>2, <1>3, IdleTwice

LEMMA IdlePipe ==
  ASSUME NEW w, DOMAIN w = WorldFields
  PROVE  /\ Idle(w, StopAudio(w)) /\ Idle(w, PauseAudio(w))
         /\ Idle(w, Retain(w)) /\ Idle(w, Reopen(w))
<1>1. Idle(w, Retain(w))
  BY DEF Idle, WorldFields, Retain
<1>2. Idle(w, Reopen(w))
  BY <1>1 DEF Idle, WorldFields, Reopen
<1>3. Idle(w, StopAudio(w)) /\ Idle(w, PauseAudio(w))
  BY DEF Idle, WorldFields, StopAudio, PauseAudio
<1> QED BY <1>1, <1>2, <1>3

LEMMA IdleMarks ==
  ASSUME NEW w, DOMAIN w = WorldFields
  PROVE  /\ Idle(w, Reset(w)) /\ Idle(w, Refresh(w))
         /\ \A op, pos, audible : Idle(w, Prepare(w, op, pos, audible))
<1>1. Idle(w, Reset(w))
  BY DEF Idle, WorldFields, Reset
<1>2. Idle(w, Refresh(w))
  BY <1>1, IdleItself DEF Refresh
<1>3. ASSUME NEW op, NEW pos, NEW audible PROVE Idle(w, Prepare(w, op, pos, audible))
  BY DEF Idle, WorldFields, Prepare
<1> QED BY <1>1, <1>2, <1>3

LEMMA IdleEnqueue ==
  ASSUME NEW w, DOMAIN w = WorldFields, NEW e, NEW ep PROVE Idle(w, Enqueue(w, e, ep))
BY DEF Idle, WorldFields, Enqueue

LEMMA IdleTell ==
  ASSUME NEW w, NEW u, Idle(w, u), NEW e PROVE Idle(w, Tell(u, e))
BY IdleEnqueue, IdleTwice DEF Tell, Idle

LEMMA Idling ==
  ASSUME NEW x, Idle(World, x), Becomes(x) PROVE Idle(World, World')
<1>1. Idle(x, Bare(x))
  BY DEF Idle, Bare, WorldFields
<1> QED BY <1>1, Becoming, IdleTwice

(* What runs beside the owner, and the start of a shutdown.                *)
LEMMA AsideIdle ==
  ASSUME Shape(World), Preparation \/ Worker \/ BeginShutdown \/ Fence
  PROVE  Idle(World, World')
<1> DEFINE w == World
<1>1. DOMAIN w = WorldFields
  BY DEF Shape
<1>2. ASSUME Dispatch PROVE Idle(w, World')
  <2> DEFINE u == [w EXCEPT !.effect = NoTask]
             t == IF effect.op = "continue"
                  THEN [op |-> "play", occ |-> Active(u), pos |-> ActivePos(u), audible |-> TRUE]
                  ELSE effect
             start == [u EXCEPT !.task = t]
  <2>1. Idle(w, u)
    BY <1>1 DEF Idle, WorldFields
  <2>2. PICK x \in {Reopen(u), u, start} : Becomes(x)
    BY <1>2 DEF Dispatch
  <2> HIDE DEF u, t
  <2>3. Idle(u, start)
    BY <2>1 DEF Idle, WorldFields
  <2> HIDE DEF start
  <2>4. Idle(u, Reopen(u))
    BY <2>1, IdlePipe DEF Idle
  <2>5. Idle(w, x)
    BY <2>1, <2>2, <2>3, <2>4, IdleTwice
  <2> QED BY <2>2, <2>5, Idling
<1>3. ASSUME Install PROVE Idle(w, World')
  <2> DEFINE u == [w EXCEPT !.task = NoTask]
             e == Enqueue(u, Say("resolved"), "now")
             v == [e EXCEPT !.pipe = NewPipe(task)]
  <2>1. Idle(w, u)
    BY <1>1 DEF Idle, WorldFields
  <2>2. PICK x \in {Reopen(u), Reopen(v), v} : Becomes(x)
    BY <1>3 DEF Install
  <2> HIDE DEF u
  <2>3. Idle(u, e)
    BY <2>1, IdleEnqueue DEF Idle
  <2> HIDE DEF e
  <2>4. Idle(e, v)
    BY <2>3 DEF Idle, WorldFields
  <2> HIDE DEF v
  <2>5. Idle(w, v) /\ Idle(w, u)
    BY <2>1, <2>3, <2>4, IdleTwice
  <2>6. Idle(w, x)
    BY <2>2, <2>5, IdlePipe, IdleTwice DEF Idle
  <2> QED BY <2>2, <2>6, Idling
<1>4. ASSUME FailPreparation PROVE Idle(w, World')
  <2> DEFINE u == [w EXCEPT !.task = NoTask]
  <2>1. PICK k : \E gone \in BOOLEAN :
          Becomes(IF gone THEN [Enqueue(u, Say(k), "now") EXCEPT !.pipe = NoPipe]
                  ELSE Enqueue(u, Say(k), "now"))
    BY <1>4 DEF FailPreparation
  <2> DEFINE e == Enqueue(u, Say(k), "now")
             v == [e EXCEPT !.pipe = NoPipe]
  <2>2. PICK x \in {e, v} : Becomes(x)
    BY <2>1
  <2>3. Idle(w, u)
    BY <1>1 DEF Idle, WorldFields
  <2> HIDE DEF u
  <2>4. Idle(u, e)
    BY <2>3, IdleEnqueue DEF Idle
  <2> HIDE DEF e
  <2>5. Idle(e, v)
    BY <2>4 DEF Idle, WorldFields
  <2> HIDE DEF v
  <2> QED BY <2>2, <2>3, <2>4, <2>5, IdleTwice, Idling
<1>5. ASSUME FailLate PROVE Idle(w, World')
  <2> DEFINE u == [w EXCEPT !.late = FALSE]
  <2>1. PICK x \in {u, Enqueue(u, Say("failed"), "old")} : Becomes(x)
    BY <1>5 DEF FailLate
  <2>2. Idle(w, u)
    BY <1>1 DEF Idle, WorldFields
  <2> HIDE DEF u
  <2>3. Idle(w, x)
    BY <2>1, <2>2, IdleEnqueue, IdleTwice DEF Idle
  <2> QED BY <2>1, <2>3, Idling
<1>6. ASSUME Open PROVE Idle(w, World')
  <2> DEFINE pos == IF Seekable /\ pipe.op # "seek" /\ pipe.pos = Duration THEN 0
                    ELSE pipe.pos
             u == [w EXCEPT !.gate = Wanted(w), !.pipe.opened = TRUE, !.pipe.pos = pos,
                                !.pipe.op = IF @ = "back" THEN "play" ELSE @]
             v == IF Seekable THEN Tell(u, Say("qualified")) ELSE u
             x == CASE pipe.op = "seek" -> Tell(v, [k |-> "seekCommitted", pos |-> pos])
                    [] pipe.op = "back" -> Tell(v, Say("backCommitted"))
                    [] OTHER -> v
  <2>1. Becomes(x)
    BY <1>6 DEF Open
  <2> HIDE DEF pos
  <2>2. Idle(w, u)
    BY <1>1 DEF Idle, WorldFields
  <2> HIDE DEF u
  <2>3. Idle(w, v)
    BY <2>2, IdleTell
  <2>4. x = v \/ \E e : x = Tell(v, e)
    BY DEF x
  <2> HIDE DEF v, x
  <2>5. Idle(w, x)
    BY <2>3, <2>4, IdleTell
  <2> QED BY <2>1, <2>5, Idling
<1>7. ASSUME ReportActive \/ ReportBuffering \/ Rest \/ Claim \/ Hear \/ Complete
      PROVE  Idle(w, World')
  <2> DEFINE Said(b) == [w EXCEPT !.pipe.said = b]
             Next_is(n) == [w EXCEPT !.pipe.next = n]
             dead == [w EXCEPT !.pipe.live = "dead"]
  <2>1. PICK u, e : /\ u = dead \/ (\E b : u = Said(b)) \/ \E n : u = Next_is(n)
                    /\ Becomes(u) \/ Becomes(Tell(u, e))
    BY <1>7 DEF ReportActive, ReportBuffering, Rest, Claim, Hear, Complete
  <2>2. Idle(w, u)
    BY <1>1, <2>1 DEF Idle, WorldFields
  <2> QED BY <2>1, <2>2, IdleTell, Idling
<1>8. ASSUME Play PROVE Idle(w, World')
  <2> DEFINE pos == pipe.pos + 1
             u == [w EXCEPT !.pipe.pos = pos]
             v == [u EXCEPT !.ing.pos = pos, !.ing.pend = TRUE]
  <2>1. PICK x \in {u, v} : Becomes(x)
    BY <1>8 DEF Play
  <2> HIDE DEF pos
  <2>2. Idle(w, u)
    BY <1>1 DEF Idle, WorldFields
  <2> HIDE DEF u
  <2>3. Idle(u, v)
    BY <2>2 DEF Idle, WorldFields
  <2> HIDE DEF v
  <2> QED BY <2>1, <2>2, <2>3, IdleTwice, Idling
<1>9. ASSUME NEW lost \in BOOLEAN, FailPipe(lost) PROVE Idle(w, World')
  <2> DEFINE open == w.gate /\ ~lost
             u == [w EXCEPT !.pipe.live = "dead", !.gate = open]
  <2>1. PICK k : Becomes(Tell([w EXCEPT !.pipe.live = "dead", !.gate = w.gate /\ ~lost], Say(k)))
    BY <1>9 DEF FailPipe
  <2>2. Becomes(Tell(u, Say(k)))
    BY <2>1
  <2> HIDE DEF open
  <2>3. Idle(w, u)
    BY <1>1 DEF Idle, WorldFields
  <2> HIDE DEF u
  <2> QED BY <2>2, <2>3, IdleTell, Idling
<1>10. ASSUME BeginShutdown \/ Fence PROVE Idle(w, World')
  <2>1. /\ w'.db = w.db /\ w'.ses = w.ses /\ w'.pv = w.pv /\ w'.play = w.play
        /\ w'.plan = w.plan /\ w'.inn = w.inn /\ DOMAIN w' = WorldFields
    BY <1>10 DEF BeginShutdown, Fence, World, WorldFields
  <2> QED BY <2>1 DEF Idle
<1> HIDE DEF w
<1> QED BY <1>2, <1>3, <1>4, <1>5, <1>6, <1>7, <1>8, <1>9, <1>10 DEF w, Preparation, Worker

-----------------------------------------------------------------------------
(* Nobody previewed, so nothing returns from a preview.                    *)
Mute(w) ==
  /\ DOMAIN w = WorldFields
  /\ "ret" \in DOMAIN w.inn /\ w.inn.ret = FALSE
  /\ "status" \in DOMAIN w.play

LEMMA IdleMute == ASSUME NEW w, NEW v, Mute(w), Idle(w, v) PROVE Mute(v)
BY DEF Mute, Idle

(* What a handler may do to the rest of the world.                         *)
LEMMA MuteMoves ==
  ASSUME NEW w, Mute(w)
  PROVE  /\ Mute(NewGeneration(w)) /\ Mute(Rotate(w)) /\ Mute(Captured(w))
         /\ \A pos : Mute(At(w, pos))
         /\ \A st : Mute(In(w, st))
         /\ Mute(Sample(w)) /\ Mute(Failing(w))
         /\ \A ok : Mute(Checkpointed(w, ok))
<1>1. ASSUME NEW u, Mute(u) PROVE Mute(NewGeneration(u))
  BY <1>1 DEF Mute, WorldFields, NewGeneration, NewGenerationKeepingMail
<1>2. Mute(Rotate(w))
  BY <1>1, IdleAdvance, IdleMute DEF Rotate, Mute
<1>3. ASSUME NEW u, Mute(u), NEW pos PROVE Mute(At(u, pos))
  BY <1>3 DEF Mute, WorldFields, At
<1>4. ASSUME NEW u, Mute(u), NEW st PROVE Mute(In(u, st))
  BY <1>4 DEF Mute, WorldFields, In
<1>5. Mute(Captured(w))
  BY <1>3 DEF Captured
<1>6. Mute(Sample(w))
  <2> DEFINE taken == [w EXCEPT !.ing.pend = FALSE]
             there == At(taken, w.ing.pos)
  <2>1. Mute(taken)
    BY DEF Mute, WorldFields
  <2>2. Sample(w) = taken \/ Sample(w) = [there EXCEPT !.inn.dirty = TRUE]
    BY DEF Sample
  <2> HIDE DEF taken
  <2>3. Mute(there)
    BY <2>1, <1>3
  <2> HIDE DEF there
  <2>4. Mute([there EXCEPT !.inn.dirty = TRUE])
    BY <2>3 DEF Mute, WorldFields
  <2> QED BY <2>1, <2>2, <2>4
<1>7. Mute(Failing(w))
  <2> DEFINE u == [w EXCEPT !.gate = FALSE, !.play.status = "error", !.play.err = TRUE]
  <2>1. Mute(u)
    BY DEF Mute, WorldFields
  <2>2. Failing(w) = In(u, "paused")
    BY DEF Failing
  <2> HIDE DEF u
  <2> QED BY <1>4, <2>1, <2>2
<1>8. ASSUME NEW ok PROVE Mute(Checkpointed(w, ok))
  <2> DEFINE Short(d) == [w EXCEPT !.db = d, !.inn.dirty = FALSE]
             Long(d) == [w EXCEPT !.db = d, !.inn.dirty = FALSE, !.inn.chk = w.ses.pos]
  <2>1. Mute(Err(w))
    BY IdleErr, IdleMute DEF Mute
  <2>2. ASSUME NEW d PROVE Mute(Short(d)) /\ Mute(Long(d))
    BY DEF Mute, WorldFields
  <2>3. PICK d : Checkpointed(w, ok) \in {w, Err(w), Short(d), Long(d)}
    BY DEF Checkpointed
  <2> HIDE DEF Short, Long
  <2> QED BY <2>1, <2>2, <2>3
<1> QED BY <1>1, <1>2, <1>3, <1>4, <1>5, <1>6, <1>7, <1>8

(* In short: what keeps a world mute.                                      *)
LEMMA MuteIdle ==
  ASSUME NEW w, Mute(w)
  PROVE  /\ Mute(Err(w)) /\ Mute(Advance(w)) /\ Mute(StopAudio(w)) /\ Mute(PauseAudio(w))
         /\ Mute(Retain(w)) /\ Mute(Reopen(w)) /\ Mute(Reset(w)) /\ Mute(Refresh(w))
         /\ \A op, pos, audible : Mute(Prepare(w, op, pos, audible))
         /\ Mute(Continue(w))
<1>1. DOMAIN w = WorldFields
  BY DEF Mute
<1>2. \A op, pos, audible : Mute(Prepare(w, op, pos, audible))
  BY <1>1, IdleMarks, IdleMute
<1>3. Mute(Continue(w))
  BY <1>2, Zenon DEF Continue
<1> QED BY <1>1, <1>2, <1>3, IdleErr, IdleAdvance, IdlePipe, IdleMarks, IdleMute

LEMMA MuteFreeze == ASSUME NEW w, Mute(w), NEW p PROVE Mute(Freeze(w, p))
<1> DEFINE a == StopAudio(Advance(w))
           u == [a EXCEPT !.plan = p, !.ses.st = "paused", !.play.status = "error",
                          !.play.err = TRUE]
<1>1. Mute(a)
  BY MuteIdle
<1>2. Freeze(w, p) = Err(u)
  BY DEF Freeze
<1> HIDE DEF a
<1>3. Mute(u)
  BY <1>1 DEF Mute, WorldFields
<1> HIDE DEF u
<1> QED BY <1>2, <1>3, MuteIdle

LEMMA MuteCommit ==
  ASSUME NEW w, Mute(w), NEW p0, NEW recovery, NEW ok PROVE Mute(Commit(w, p0, recovery, ok))
<1> DEFINE p == IF recovery THEN Recovered(Resolved(w, p0)) ELSE Resolved(w, p0)
           d == IF p.keep THEN Departure(w.db, p.to, p.occ) ELSE Terminal(w.db, p.to, p.occ)
           changed == p.to.cur # w.ses.cur
           x == IF changed \/ recovery THEN Rotate(w) ELSE w
           u == [w EXCEPT !.plan = NoPlan]
           y == [x EXCEPT !.db = d, !.ses = p.to, !.plan = NoPlan,
                    !.play = [(IF changed THEN Fresh("idle") ELSE @)
                               EXCEPT !.status = p.status, !.err = p.err],
                    !.gate = p.to.st = "buffering",
                    !.inn.dirty = FALSE, !.inn.chk = p.to.pos]
<1>1. Commit(w, p0, recovery, ok) \in {Err(u), Freeze(w, p), y}
  BY DEF Commit
<1>2. Mute(Err(u))
  <2>1. Mute(u)
    BY DEF Mute, WorldFields
  <2> QED BY <2>1, MuteIdle
<1> HIDE DEF p
<1>3. Mute(Freeze(w, p))
  BY MuteFreeze
<1> HIDE DEF u, d, changed
<1>4. Mute(x)
  BY MuteMoves
<1> HIDE DEF x
<1>5. Mute(y)
  BY <1>4 DEF Mute, WorldFields, Fresh
<1> HIDE DEF y
<1> QED BY <1>1, <1>2, <1>3, <1>5

LEMMA MuteReconcile == ASSUME NEW w, Mute(w), NEW ok PROVE Mute(Reconcile(w, ok))
<1> DEFINE next == Successor(w.db, w.ses.cur)
           to == [w.ses EXCEPT !.cur = next, !.pos = 0,
                               !.st = IF w.gate THEN "playing" ELSE "paused"]
           p == PlanTo(w, to, "paused")
           d == Terminal(w.db, to, w.ses.cur)
           y == [w EXCEPT !.db = d, !.ses = to,
                    !.play = [Fresh(IF w.gate THEN "active" ELSE "paused")
                               EXCEPT !.seekable = Seekable],
                    !.inn.dirty = FALSE, !.inn.chk = 0,
                    !.pipe.occ = next, !.pipe.pos = 0, !.pipe.next = "none"]
<1>1. Reconcile(w, ok) \in {w, Adopt(w, ok)}
  BY DEF Reconcile
<1>2. Adopt(w, ok) \in {Err(w), Freeze(w, p), y}
  BY DEF Adopt
<1> HIDE DEF p, d, to, next
<1>3. Mute(y)
  BY DEF Mute, WorldFields, Fresh
<1> HIDE DEF y
<1> QED BY <1>1, <1>2, <1>3, MuteIdle, MuteFreeze

LEMMA MuteBuffer == ASSUME NEW w, Mute(w) PROVE Mute(Buffer(w))
<1> DEFINE u == In(w, "buffering")
           t == [u EXCEPT !.gate = TRUE, !.play.status = "loading", !.play.err = FALSE]
<1>1. Mute(u)
  BY MuteMoves
<1>2. Buffer(w) = Prepare(t, "play", ActivePos(w), TRUE)
  BY DEF Buffer
<1> HIDE DEF u
<1>3. Mute(t)
  BY <1>1 DEF Mute, WorldFields
<1> HIDE DEF t
<1>4. \A op, pos, audible : Mute(Prepare(t, op, pos, audible))
  BY <1>3, MuteIdle
<1> QED BY <1>2, <1>4, Zenon

LEMMA MuteStop == ASSUME NEW w, Mute(w), NEW f PROVE Mute(Stop(w, f))
<1> DEFINE n == NewGeneration(Advance(w))
           u == [n EXCEPT !.inn.ret = FALSE, !.inn.dirty = TRUE, !.play.seek = "no",
                 !.gate = FALSE, !.ses.st = "paused",
                 !.ses.pos = IF w.inn.ret THEN @ ELSE 0,
                 !.play.status = IF w.inn.ret THEN "paused" ELSE "stopped"]
<1>1. Mute(n)
  BY MuteMoves DEF Rotate
<1>2. Stop(w, f) = Checkpointed(u, f.write)
  BY DEF Stop
<1> HIDE DEF n
<1>3. Mute(u)
  BY <1>1 DEF Mute, WorldFields
<1> HIDE DEF u
<1> QED BY <1>2, <1>3, MuteMoves

LEMMA MutePause == ASSUME NEW w, Mute(w), NEW f PROVE Mute(Pause(w, f))
<1> DEFINE seen == Reconcile(PauseAudio(w), f.later)
           held == IF seen.ses.cur = w.ses.cur THEN Captured(seen) ELSE seen
           n == Retain(Advance(held))
           u == [n EXCEPT !.inn.ret = FALSE, !.gate = FALSE, !.ses.st = "paused",
                          !.play.status = "paused"]
<1>1. Pause(w, f) \in {seen, u}
  BY DEF Pause
<1>2. Mute(seen)
  BY MuteIdle, MuteReconcile
<1> HIDE DEF seen
<1>3. Mute(held)
  BY <1>2, MuteMoves
<1> HIDE DEF held
<1>4. Mute(n)
  BY <1>3, MuteIdle
<1> HIDE DEF n
<1>5. Mute(u)
  BY <1>4 DEF Mute, WorldFields
<1> HIDE DEF u
<1> QED BY <1>1, <1>2, <1>5

LEMMA MuteResume == ASSUME NEW w, Mute(w) PROVE Mute(Resume(w))
<1> DEFINE v == Retain(Advance(w))
           pos == IF w.play.status = "completed" THEN 0 ELSE v.ses.pos
           u == [v EXCEPT !.ses.pos = pos]
<1>1. Resume(w) \in {Buffer(NewGeneration(u)), Buffer(v)}
  BY DEF Resume
<1>2. Mute(v)
  BY MuteIdle
<1> HIDE DEF v, pos
<1>3. Mute(u)
  BY <1>2 DEF Mute, WorldFields
<1> HIDE DEF u
<1> QED BY <1>1, <1>2, <1>3, MuteMoves, MuteBuffer

LEMMA MuteNext == ASSUME NEW w, Mute(w), NEW f PROVE Mute(Next_(w, f))
<1>1. PICK p : LET left == Commit(Advance(w), p, FALSE, f.write)
               IN Next_(w, f) \in {left, Prepare(left, "play", 0, TRUE)}
  BY DEF Next_
<1> DEFINE left == Commit(Advance(w), p, FALSE, f.write)
<1>2. Mute(left)
  BY MuteIdle, MuteCommit
<1> HIDE DEF left
<1> QED BY <1>1, <1>2, MuteIdle DEF left

LEMMA MuteReattempted == ASSUME NEW w, Mute(w), NEW a, NEW ok PROVE Mute(Reattempted(w, a, ok))
<1> DEFINE Again(d, to) ==
             [w EXCEPT !.db = d, !.ses = to, !.inn.chk = to.pos, !.inn.dirty = FALSE]
<1>1. PICK d, to : Reattempted(w, a, ok) \in {w, Err(w), Again(d, to)}
  BY DEF Reattempted
<1>2. Mute(Again(d, to))
  BY DEF Mute, WorldFields
<1> HIDE DEF Again
<1> QED BY <1>1, <1>2, MuteIdle

LEMMA MuteTransport ==
  ASSUME NEW w, Mute(w), NEW a \in Transports \ {"back"}, NEW f PROVE Mute(Transport(w, a, f))
<1> DEFINE v == Reattempted(w, a, f.write)
           u == [v EXCEPT !.play.back = FALSE]
<1>1. Mute(v)
  BY MuteReattempted
<1>2. Transport(w, a, f) \in {w, Intend(w, a), Err(w), Pause(u, f), Resume(u),
                             Buffer(NewGeneration(Advance(u))), Next_(u, f), Stop(u, f),
                             Err(Advance(u))}
  BY DEF Transport, Transports
<1> HIDE DEF v
<1>3. Mute(u)
  BY <1>1 DEF Mute, WorldFields
<1> HIDE DEF u
<1>4. Mute(Intend(w, a))
  BY DEF Mute, WorldFields, Intend
<1>5. Mute(Buffer(NewGeneration(Advance(u))))
  BY <1>3, MuteMoves, MuteBuffer DEF Rotate
<1> QED BY <1>2, <1>3, <1>4, <1>5, MuteIdle, MutePause, MuteResume, MuteNext, MuteStop

LEMMA MuteBack == ASSUME NEW w, Mute(w), NEW f PROVE Mute(Back(w, f))
<1> DEFINE Gone(pos) == [StopAudio(Advance(w)) EXCEPT
                     !.ses.pos = pos, !.ses.st = "paused",
                     !.play.back = FALSE, !.play.status = "error", !.play.err = TRUE]
           Begun(d, to, near, audible) == [Rotate(w) EXCEPT
                 !.db = d, !.ses = to, !.inn.chk = 0, !.inn.dirty = FALSE,
                 !.gate = audible,
                 !.play = [(IF near THEN Fresh("loading") ELSE @) EXCEPT
                            !.status = "loading", !.err = FALSE, !.seek = "no",
                            !.sought = FALSE, !.back = TRUE]]
           at == Captured(w)
           near == at.ses.pos <= BackThreshold /\ Predecessor(w.db, w.ses.cur) # NoOcc
           audible == w.ses.st \in Audible
           to == [at.ses EXCEPT !.cur = IF near THEN Predecessor(w.db, @) ELSE @,
                                !.pos = 0,
                                !.st = IF audible THEN "buffering" ELSE "paused"]
           d == StartAttempt(w.db, to, w.db.act # NoOcc)
<1>1. Back(w, f) \in {Err(Gone(w.inn.chk)),
                      Prepare(Begun(d, to, near, audible), "back", 0, audible)}
  BY DEF Back
<1> HIDE DEF at, near, audible, to, d
<1>3. ASSUME NEW pos PROVE Mute(Gone(pos))
  <2> DEFINE a == StopAudio(Advance(w))
  <2>1. Mute(a)
    BY MuteIdle
  <2> HIDE DEF a
  <2>2. Mute([a EXCEPT !.ses.pos = pos, !.ses.st = "paused",
                       !.play.back = FALSE, !.play.status = "error", !.play.err = TRUE])
    BY <2>1 DEF Mute, WorldFields
  <2> QED BY <2>2 DEF a
<1>4. Mute(Begun(d, to, near, audible))
  <2> DEFINE r == Rotate(w)
  <2>1. Mute(r)
    BY MuteMoves
  <2> HIDE DEF r
  <2>2. Mute([r EXCEPT !.db = d, !.ses = to, !.inn.chk = 0, !.inn.dirty = FALSE,
                 !.gate = audible,
                 !.play = [(IF near THEN Fresh("loading") ELSE @) EXCEPT
                            !.status = "loading", !.err = FALSE, !.seek = "no",
                            !.sought = FALSE, !.back = TRUE]])
    BY <2>1 DEF Mute, WorldFields, Fresh
  <2> QED BY <2>2 DEF r
<1> HIDE DEF Gone, Begun
<1> QED BY <1>1, <1>3, <1>4, MuteIdle

LEMMA MuteControl ==
  ASSUME NEW w0, Mute(w0), NEW a \in Transports, NEW f PROVE Mute(Control(w0, a, f))
<1> DEFINE w == Reconcile(w0, f.early)
           u == [w EXCEPT !.plan = NoPlan]
<1>1. \/ Control(w0, a, f) \in {w, Err(w), Commit(w, w.plan, TRUE, f.write)}
      \/ a = "back" /\ Control(w0, a, f) = Back(w, f)
      \/ a # "back" /\ Control(w0, a, f) = Transport(u, a, f)
  BY DEF Control
<1>2. Mute(w)
  BY MuteReconcile
<1> HIDE DEF w
<1>3. Mute(u)
  BY <1>2 DEF Mute, WorldFields
<1> HIDE DEF u
<1> QED BY <1>1, <1>2, <1>3, MuteIdle, MuteCommit, MuteBack, MuteTransport

LEMMA MuteSeek == ASSUME NEW w0, Mute(w0), NEW to, NEW f PROVE Mute(Seek(w0, to, f))
<1> DEFINE w == Reconcile(w0, f.early)
           r == Rotate(w)
           v == [r EXCEPT !.gate = FALSE, !.play.back = FALSE,
                             !.play.sought = FALSE, !.play.err = FALSE]
           i(st) == In(v, st)
           e == In(At(v, Duration), "paused")
           ended == [e EXCEPT !.play.status = "completed", !.play.seek = "no",
                              !.play.sought = TRUE, !.inn.dirty = TRUE]
           Sought(st, s, k) == [i(st) EXCEPT !.play.status = s, !.play.seek = k]
<1>1. PICK st, s, k : Seek(w0, to, f) \in {w, Err(w), Checkpointed(ended, f.write),
                                          Prepare(Sought(st, s, k), "seek", to, TRUE)}
  BY DEF Seek
<1>2. Mute(w)
  BY MuteReconcile
<1> HIDE DEF w
<1>3. Mute(r)
  BY <1>2, MuteMoves
<1> HIDE DEF r
<1>4. Mute(v)
  BY <1>3 DEF Mute, WorldFields
<1> HIDE DEF v
<1>5. Mute(e) /\ Mute(i(st))
  BY <1>4, MuteMoves
<1> HIDE DEF e, i
<1>6. Mute(ended) /\ Mute(Sought(st, s, k))
  BY <1>5 DEF Mute, WorldFields
<1> HIDE DEF ended, Sought
<1> QED BY <1>1, <1>2, <1>6, MuteIdle, MuteMoves

LEMMA MuteApply ==
  ASSUME NEW w0, Mute(w0), w0.pv = NoPreview, NEW c, NEW f PROVE Mute(Apply(w0, c, f))
<1> DEFINE w == IF c.k \in Edits /\ ~InPreview(w0) THEN Reconcile(w0, f.early) ELSE w0
           to == Applied(w, c)
           stays == c.k \in Edits /\ (InPreview(w) \/ to.ses.cur = w.ses.cur)
           v == IF stays THEN Edited(w, to) ELSE Replaced(w, c, to)
           done == [v EXCEPT !.inn.dirty = FALSE, !.inn.chk = to.ses.pos]
<1>1. Apply(w0, c, f) \in {Err(w0), w, Err(w), Prepare(done, "play", 0, TRUE), done}
  BY DEF Apply
<1>2. Mute(w)
  BY MuteReconcile
<1> HIDE DEF w, to, stays
<1>3. Mute(Edited(w, to))
  BY <1>2 DEF Mute, WorldFields, Edited
<1>4. Mute(Replaced(w, c, to))
  <2> DEFINE r == Rotate(w)
             shown == CASE c.k = "play" -> Fresh("loading")
                       [] c.k = "clear" -> Fresh("idle")
                       [] c.k = "append" -> r.play
                       [] OTHER -> Fresh("paused")
             u == [r EXCEPT !.pv = NoPreview, !.inn.ret = FALSE, !.play = shown]
  <2>1. Mute(r)
    BY <1>2, MuteMoves
  <2>2. Replaced(w, c, to) = [u EXCEPT !.ses = to.ses, !.db = to.db,
                                       !.gate = to.ses.st \in Audible]
    BY DEF Replaced
  <2> HIDE DEF r
  <2>3. "status" \in DOMAIN shown
    BY <2>1 DEF Mute, Fresh
  <2> HIDE DEF shown
  <2>4. Mute(u)
    BY <2>1, <2>3 DEF Mute, WorldFields
  <2> HIDE DEF u
  <2> QED BY <2>2, <2>4 DEF Mute, WorldFields
<1>5. Mute(v)
  BY <1>3, <1>4
<1> HIDE DEF v
<1>6. Mute(done)
  BY <1>5 DEF Mute, WorldFields
<1> HIDE DEF done
<1> QED BY <1>1, <1>2, <1>6, MuteIdle

LEMMA MuteAbsorbed == ASSUME NEW w, Mute(w), NEW k, NEW pos PROVE Mute(Absorbed(w, k, pos))
<1> DEFINE Ready(u, b) == [u EXCEPT !.play.seekable = b]
           Turned(st, s) == [In(w, st) EXCEPT !.play.status = s]
           lost == [Failing(w) EXCEPT !.play.seek = "no"]
<1>1. ASSUME NEW q PROVE Mute(Rewound(w, q))
  <2> DEFINE u == At(w, 0)
  <2>1. Mute(u)
    BY MuteMoves
  <2> HIDE DEF u
  <2>2. Mute([u EXCEPT !.inn.dirty = TRUE])
    BY <2>1 DEF Mute, WorldFields
  <2> QED BY <2>2 DEF Rewound, u
<1>2. ASSUME NEW u, Mute(u) PROVE Mute(Ready(u, FALSE)) /\ Mute(Ready(u, TRUE))
  BY <1>2 DEF Mute, WorldFields
<1>3. ASSUME NEW st, NEW s PROVE Mute(Turned(st, s))
  <2> DEFINE u == In(w, st)
  <2>1. Mute(u)
    BY MuteMoves
  <2> HIDE DEF u
  <2>2. Mute([u EXCEPT !.play.status = s])
    BY <2>1 DEF Mute, WorldFields
  <2> QED BY <2>2 DEF u
<1>4. Mute(SeekCommitted(w, pos))
  <2> DEFINE resume == w.play.seek = "resume"
             t == In(At(w, pos), IF resume THEN "playing" ELSE "paused")
             v == [t EXCEPT !.gate = resume, !.inn.dirty = TRUE,
                            !.play.status = IF resume THEN "active" ELSE "paused",
                            !.play.seek = "no", !.play.sought = TRUE]
  <2>1. SeekCommitted(w, pos) = v
    BY DEF SeekCommitted
  <2> HIDE DEF resume
  <2>2. Mute(t)
    BY MuteMoves
  <2> HIDE DEF t
  <2>3. Mute(v)
    BY <2>2 DEF Mute, WorldFields
  <2> QED BY <2>1, <2>3
<1>5. Mute(lost) /\ Mute(Failing(w))
  <2> DEFINE u == Failing(w)
  <2>1. Mute(u)
    BY MuteMoves
  <2> HIDE DEF u
  <2>2. Mute([u EXCEPT !.play.seek = "no"])
    BY <2>1 DEF Mute, WorldFields
  <2> QED BY <2>1, <2>2 DEF u
<1>6. Mute(BackCommitted(w))
  <2> DEFINE t == In(w, IF w.gate THEN "playing" ELSE "paused")
             v == [t EXCEPT !.play.status = IF w.gate THEN "active" ELSE "paused",
                            !.play.back = FALSE, !.inn.dirty = TRUE]
  <2>1. BackCommitted(w) = v
    BY DEF BackCommitted
  <2>2. Mute(t)
    BY MuteMoves
  <2> HIDE DEF t
  <2>3. Mute(v)
    BY <2>2 DEF Mute, WorldFields
  <2> QED BY <2>1, <2>3
<1>7. Absorbed(w, k, pos) \in {Ready(Rewound(w, ~Seekable), FALSE),
                              Ready(Rewound(w, TRUE), TRUE), Turned("playing", "active"),
                              Turned("buffering", "loading"), SeekCommitted(w, pos),
                              BackCommitted(w), lost, Failing(w), w}
  BY DEF Absorbed
<1> HIDE DEF Ready, Turned, lost
<1>8. Mute(Ready(Rewound(w, ~Seekable), FALSE)) /\ Mute(Ready(Rewound(w, TRUE), TRUE))
  BY <1>1, <1>2
<1> QED BY <1>3, <1>4, <1>5, <1>6, <1>7, <1>8

LEMMA MuteShown ==
  ASSUME NEW w, Mute(w), NEW k, NEW pos, NEW f PROVE Mute(Shown(w, k, pos, f))
<1> DEFINE v == Absorbed(w, k, pos)
<1>1. PICK seen \in {Reset(v), Refresh(v)} : Shown(w, k, pos, f) \in {seen, Checkpointed(seen, f.write)}
  BY DEF Shown
<1> HIDE DEF v
<1>2. Mute(seen)
  BY <1>1, MuteAbsorbed, MuteIdle DEF v
<1> QED BY <1>1, <1>2, MuteMoves

LEMMA MuteReturnFailed == ASSUME NEW w, Mute(w), NEW ok PROVE Mute(ReturnFailed(w, ok))
<1> DEFINE g == Failing(w)
           v == [g EXCEPT !.inn.dirty = TRUE]
           u == [v EXCEPT !.db = Update(@, v.ses), !.inn.dirty = FALSE, !.inn.chk = v.ses.pos]
<1>1. ReturnFailed(w, ok) \in {Reset(v), Reset(u)}
  BY DEF ReturnFailed
<1>2. Mute(g)
  BY MuteMoves
<1> HIDE DEF g
<1>3. Mute(v)
  BY <1>2 DEF Mute, WorldFields
<1> HIDE DEF v
<1>4. Mute(u)
  BY <1>3 DEF Mute, WorldFields
<1> HIDE DEF u
<1> QED BY <1>1, <1>3, <1>4, MuteIdle

LEMMA MuteTrackFailed == ASSUME NEW w, Mute(w), NEW f PROVE Mute(TrackFailed(w, f))
<1>1. PICK p : LET left == Commit(Sample(w), p, FALSE, f.write)
               IN TrackFailed(w, f) \in {w, Reset(left), Refresh(Failing(left))}
  BY DEF TrackFailed
<1> DEFINE left == Commit(Sample(w), p, FALSE, f.write)
<1>2. Mute(left)
  BY MuteMoves, MuteCommit
<1> HIDE DEF left
<1> QED BY <1>1, <1>2, MuteMoves, MuteIdle DEF left

LEMMA MuteOutputLost == ASSUME NEW w, Mute(w), NEW f PROVE Mute(OutputLost(w, f))
<1> DEFINE g == [w EXCEPT !.gate = FALSE]
           v == Sample(g)
           Moved(pos) == [v EXCEPT !.ses.pos = pos, !.play.seek = "no"]
           Lost(pos) == [NewGeneration(Moved(pos)) EXCEPT !.inn.dirty = TRUE]
<1>1. PICK pos : OutputLost(w, f) = Checkpointed(Refresh(Failing(Lost(pos))), f.write)
  BY DEF OutputLost
<1>2. Mute(g)
  BY DEF Mute, WorldFields
<1> HIDE DEF g
<1>3. Mute(v)
  BY <1>2, MuteMoves
<1> HIDE DEF v
<1> DEFINE m == Moved(pos)
           n == NewGeneration(m)
<1>4. Mute(m)
  BY <1>3 DEF Mute, WorldFields
<1> HIDE DEF m
<1>5. Mute(n)
  BY <1>4, MuteMoves
<1> HIDE DEF n
<1>6. Mute([n EXCEPT !.inn.dirty = TRUE])
  BY <1>5 DEF Mute, WorldFields
<1>7. Mute(Lost(pos))
  BY <1>6 DEF n, m
<1> HIDE DEF Lost, Moved
<1> QED BY <1>1, <1>7, MuteMoves, MuteIdle

LEMMA MuteTrackCompleted ==
  ASSUME NEW w, Mute(w), NEW pos, NEW f PROVE Mute(TrackCompleted(w, pos, f))
<1>1. PICK unknown, p :
        LET left == Commit(w, p, FALSE, f.write)
        IN TrackCompleted(w, pos, f) \in {Reset(Freeze(w, unknown)), Reset(left),
                                         Reset(Continue(left))}
  BY DEF TrackCompleted
<1> DEFINE left == Commit(w, p, FALSE, f.write)
<1>2. Mute(left)
  BY MuteCommit
<1> HIDE DEF left
<1> QED BY <1>1, <1>2, MuteFreeze, MuteIdle DEF left

LEMMA MuteProcess ==
  ASSUME NEW w0, Mute(w0), w0.pv = NoPreview, NEW e, NEW f PROVE Mute(Process(w0, e, f))
<1> DEFINE k == Normalized(w0, e.k)
           w == IF e.k = "backFailed" THEN [w0 EXCEPT !.play.back = FALSE] ELSE w0
           back == [w EXCEPT !.inn.ret = FALSE]
<1>1. Mute(w) /\ w.pv = NoPreview
  BY DEF Mute, WorldFields
<1>2. \E j : Process(w0, e, f) \in
        {w0, w, ReturnFailed(w, f.write), TrackFailed(w, f), TrackCompleted(w, e.pos, f),
         OutputLost(w, f), Shown(w, j, e.pos, f), Shown(back, j, e.pos, f)}
  <2>1. Process(w0, e, f) \in
        {w0, w, ReturnFailed(w, f.write), TrackFailed(w, f), Completed(w, e.pos, f),
         OutputLost(w, f), Shown(w, k, e.pos, f), Shown(back, k, e.pos, f)}
    <3> HIDE DEF k
    <3> QED BY <1>1 DEF Process, InPreview, k
  <2>2. Completed(w, e.pos, f) \in {w, TrackCompleted(w, e.pos, f)}
    BY <1>1 DEF Completed, InPreview
  <2> QED BY <2>1, <2>2
<1> HIDE DEF w
<1>3. Mute(back)
  BY <1>1 DEF Mute, WorldFields
<1> HIDE DEF back
<1> QED BY <1>1, <1>2, <1>3, MuteReturnFailed, MuteTrackFailed, MuteTrackCompleted,
           MuteOutputLost, MuteShown

LEMMA MuteHandled ==
  ASSUME NEW w, Mute(w), w.pv = NoPreview, NEW c, c.k # "preview", NEW f
  PROVE  Mute(Handled(w, c, f))
<1>1. Sample(w).pv = NoPreview /\ Mute(Sample(w))
  <2> DEFINE taken == [w EXCEPT !.ing.pend = FALSE]
             there == [taken EXCEPT !.ses.pos = w.ing.pos]
  <2>1. Sample(w) \in {taken, [there EXCEPT !.inn.dirty = TRUE]}
    BY DEF Sample, At, InPreview, Mute, WorldFields
  <2>2. taken.pv = NoPreview /\ DOMAIN taken = WorldFields
    BY DEF Mute, WorldFields
  <2> HIDE DEF taken
  <2> QED BY <2>1, <2>2, MuteMoves DEF WorldFields
<1>2. CASE c.k \in Transports
  <2>1. Handled(w, c, f) = Control(Sample(w), c.k, f)
    BY <1>2 DEF Handled, InPreview, Transports
  <2> QED BY <1>1, <1>2, <2>1, MuteControl
<1>3. CASE c.k = "seek"
  BY <1>1, <1>3, MuteSeek DEF Handled, Transports
<1>4. CASE c.k = "restore"
  <2> DEFINE gone == Dismiss(w.db)
             s == Resting(Main(gone))
             v == NewGeneration(w)
             x == [v EXCEPT !.db = gone, !.ses = s, !.inn.chk = s.pos, !.inn.restore = "ok"]
  <2>1. Handled(w, c, f) \in {Err(w), x}
    BY <1>4 DEF Handled, Transports, RetryRestore
  <2>2. Mute(v)
    BY MuteMoves
  <2> HIDE DEF v, s, gone
  <2>3. Mute(x)
    BY <2>2 DEF Mute, WorldFields
  <2> HIDE DEF x
  <2> QED BY <2>1, <2>3, MuteIdle
<1>5. CASE c.k \notin Transports \cup {"seek", "restore"}
  <2>1. Handled(w, c, f) = Apply(w, c, f)
    BY <1>5 DEF Handled
  <2> QED BY <2>1, MuteApply
<1> QED BY <1>2, <1>3, <1>4, <1>5

(* The invariant while nobody previews: nothing returns from a preview,    *)
(* and where the disk could not be read there is nothing to play.          *)
LEMMA BareMute == ASSUME NEW v, Mute(v) PROVE Mute(Bare(v))
BY DEF Mute, Bare, WorldFields

LEMMA MuteIsKept ==
  ASSUME "preview" \notin Commands, Sound(World), Mute(World), pv = NoPreview, Next
  PROVE  Mute(World')
<1> DEFINE w == World
<1>1. /\ w.pv = NoPreview /\ w.pv = pv /\ w.ses = ses /\ w.mail = mail /\ Shape(w)
  BY DEF World, Sound
<1>2. ASSUME NEW x, Mute(x), Becomes(x) PROVE Mute(World')
  BY <1>2, Becoming, BareMute
<1>3. ASSUME NEW c \in Asked, NEW f \in Disk, Command(c, f) PROVE Mute(World')
  <2> DEFINE v == Handled(w, c, f)
             x == IF v.ok THEN Refresh(v) ELSE v
  <2>1. InBounds(c) /\ Becomes(x)
    BY <1>3 DEF Command
  <2>2. c.k # "preview"
    BY <1>3, <2>1, AskedFor
  <2>3. Mute(v)
    BY <1>1, <2>2, MuteHandled
  <2> HIDE DEF v
  <2>4. Mute(x)
    BY <2>3, MuteIdle
  <2> HIDE DEF x
  <2> QED BY <1>2, <2>1, <2>4
<1>4. ASSUME NEW f \in Disk, TakeBoundary(f) PROVE Mute(World')
  <2> DEFINE v == Reconcile(w, f.early)
             x == IF v.ses.cur # ses.cur THEN Reset(v) ELSE v
  <2>1. Becomes(x)
    BY <1>4 DEF TakeBoundary
  <2>2. Mute(v)
    BY MuteReconcile
  <2> HIDE DEF v
  <2>3. Mute(x)
    BY <2>2, MuteIdle
  <2> HIDE DEF x
  <2> QED BY <1>2, <2>1, <2>3
<1>5. ASSUME NEW f \in Disk, TakeEvent(f) PROVE Mute(World')
  <2> DEFINE v == [w EXCEPT !.mail = Tail(@)]
             x == Process(v, Head(mail), f)
  <2>1. Becomes(x)
    BY <1>5 DEF TakeEvent
  <2>2. Mute(v) /\ v.pv = NoPreview
    BY <1>1 DEF Mute, WorldFields
  <2> HIDE DEF v
  <2>3. Mute(x)
    BY <2>2, MuteProcess
  <2> HIDE DEF x
  <2> QED BY <1>2, <2>1, <2>3
<1>6. ASSUME TakeProgress PROVE Mute(World')
  BY <1>2, <1>6, MuteMoves DEF TakeProgress
<1>7. ASSUME NEW f \in Disk, PeriodicCheckpoint(f) PROVE Mute(World')
  BY <1>2, <1>7, MuteMoves DEF PeriodicCheckpoint
<1>8. ASSUME NEW f \in Disk, ShutdownCheckpoint(f) PROVE Mute(World')
  <2>1. Becomes(Checkpointed(Sample(w), f.write))
    BY <1>8 DEF ShutdownCheckpoint
  <2> QED BY <1>2, <2>1, MuteMoves
<1>9. ASSUME NEW f \in Disk, Restart(f) PROVE Mute(World')
  <2>1. World' = Bare(Restored(db, f))
    BY <1>9, Becoming DEF Restart
  <2>2. PICK st : Restored(db, f).play = Fresh(st)
    BY DEF Restored
  <2>3. /\ DOMAIN World' = WorldFields /\ World'.play = Fresh(st)
        /\ World'.inn.ret = FALSE /\ "ret" \in DOMAIN World'.inn
    BY <2>1, <2>2 DEF Bare, Restored, WorldFields
  <2> QED BY <2>3 DEF Mute, Fresh
<1>10. ASSUME Preparation \/ Worker \/ BeginShutdown \/ Fence PROVE Mute(World')
  BY <1>1, <1>10, AsideIdle, IdleMute
<1> HIDE DEF w
<1> QED BY <1>3, <1>4, <1>5, <1>6, <1>7, <1>8, <1>9, <1>10 DEF Next, Owner, Lifecycle, Quit, Crash

Blank(w) == w.inn.restore = "error" => w.ses.cur = NoOcc

(* A session that has no occurrence refuses what would leave one.          *)
LEMMA NothingHere ==
  ASSUME NEW s, s.pv = NoPreview, s.ses.cur = NoOcc, ~Presented(s), NEW f
  PROVE  /\ \A a : Control(s, a, f) \in {s, Err(s)}
         /\ \A to : Seek(s, to, f) \in {s, Err(s)}
<1>1. Reconcile(s, f.early) = s /\ Active(s) = NoOcc
  BY DEF Reconcile, Active, InPreview
<1>2. ASSUME NEW a PROVE Control(s, a, f) \in {s, Err(s)}
  BY <1>1 DEF Control
<1>3. ASSUME NEW to PROVE Seek(s, to, f) \in {s, Err(s)}
  BY <1>1 DEF Seek
<1> QED BY <1>2, <1>3

LEMMA NothingRestored ==
  ASSUME NEW w, w.inn.restore = "error", NEW c, NEW f PROVE Apply(w, c, f) = Err(w)
BY DEF Apply

LEMMA BlankIsKept ==
  ASSUME "preview" \notin Commands, Sound(World), pv = NoPreview, db.aud = NoAud,
         Blank(World), Next
  PROVE  Blank(World')
<1> DEFINE w == World
<1>1. /\ w.pv = NoPreview /\ w.db.aud = NoAud /\ Shape(w) /\ w.ok = TRUE
      /\ w.pipe = pipe /\ w.mail = mail /\ w.ing = ing /\ w.db = db
      /\ Sound(w) /\ Blank(w)
  BY DEF World, Sound
<1> HIDE DEF w
<1>2. ASSUME NEW f, World' = Bare(Restored(w.db, f)) PROVE Blank(World')
  <2> DEFINE x == World'
  <2>1. x = Bare(Restored(w.db, f))
    BY <1>2
  <2> HIDE DEF x
  <2>2. IF f.early THEN x.ses.cur = w.db.cur ELSE x.ses = NewSession
    BY <1>1, <2>1, RestoredSound DEF Sound
  <2>3. f.early => x.inn.restore = "ok"
    <3>1. ValidSession(w.db)
      BY <1>1 DEF Sound, Stored
    <3> QED BY <1>1, <2>1, <3>1 DEF Bare, Restored
  <2> QED BY <2>2, <2>3 DEF Blank, NewSession, x
<1>3. CASE w.inn.restore = "ok"
  <2>1. CASE Leads(w, World')
    BY <1>3, <2>1 DEF Leads, Step, Trusts, Blank
  <2>2. CASE Restarts(w, World')
    BY <1>2, <2>2 DEF Restarts
  <2> QED BY <2>1, <2>2, AnyStepLeads DEF w
<1>4. CASE w.inn.restore # "ok"
  <2>1. w.inn.restore = "error" /\ w.ses.cur = NoOcc /\ Silent(w)
    BY <1>1, <1>4 DEF Sound, Shape, Blank, Quiet, Alive
  <2>2. pipe = NoPipe /\ mail = <<>> /\ ~ing.pend
    BY <1>1, <2>1 DEF Silent
  <2>3. ASSUME NEW x, Becomes(x), x.ses.cur = w.ses.cur PROVE Blank(World')
    BY <2>1, <2>3, Becoming DEF Bare, Blank
  <2>4. ASSUME NEW c \in Asked, NEW f \in Disk, Command(c, f) PROVE Blank(World')
    <3> DEFINE s == Sample(w)
               v == Handled(w, c, f)
               x == IF v.ok THEN Refresh(v) ELSE v
    <3>1. InBounds(c) /\ Becomes(x)
      BY <2>4 DEF Command, w
    <3>2. c.k \in Kinds /\ c.k # "preview"
      BY <2>4, <3>1, AskedFor DEF w
    <3>3. /\ Near(w, s) /\ Shape(s) /\ ~Presented(s) /\ s.ses.cur = NoOcc
          /\ s.pv = NoPreview
      BY <1>1, <2>1, SampleNear DEF Sound, Near, Presented, Silent
    <3> HIDE DEF s
    <3>4. \/ v \in {Err(s), s, Err(w)}
          \/ c.k = "restore" /\ v = RetryRestore(w, f)
      <4>1. CASE c.k \in Transports
        <5>1. v = Control(s, c.k, f)
          BY <1>1, <4>1 DEF Handled, InPreview, Transports, s
        <5>2. Control(s, c.k, f) \in {s, Err(s)}
          BY <3>3, NothingHere
        <5> HIDE DEF v
        <5> QED BY <5>1, <5>2
      <4>2. CASE c.k = "seek"
        <5>1. v = Seek(s, c.to, f)
          BY <4>2 DEF Handled, Transports, s
        <5>2. Seek(s, c.to, f) \in {s, Err(s)}
          BY <3>3, NothingHere
        <5> HIDE DEF v
        <5> QED BY <5>1, <5>2
      <4>3. CASE c.k = "restore"
        BY <4>3 DEF Handled, Transports
      <4>4. CASE c.k \notin Transports \cup {"seek", "restore"}
        <5>1. v = Apply(w, c, f)
          BY <3>2, <4>4 DEF Handled
        <5>2. Apply(w, c, f) = Err(w)
          BY <2>1, NothingRestored
        <5> HIDE DEF v
        <5> QED BY <5>1, <5>2
      <4> QED BY <4>1, <4>2, <4>3, <4>4
    <3> HIDE DEF v
    <3>5. CASE v \in {Err(s), s, Err(w)}
      <4>1. Idle(s, Err(s)) /\ Idle(w, Err(w)) /\ Idle(s, s)
        BY <1>1, <3>3, IdleErr, IdleItself DEF Shape
      <4>2. DOMAIN v = WorldFields /\ v.ses.cur = NoOcc
        BY <2>1, <3>3, <3>5, <4>1 DEF Idle
      <4>3. x.ses.cur = NoOcc
        BY <4>2, IdleMarks DEF Idle
      <4> HIDE DEF x
      <4> QED BY <2>1, <2>3, <3>1, <4>3
    <3>6. CASE c.k = "restore" /\ v = RetryRestore(w, f)
      <4> DEFINE gone == Dismiss(w.db)
                 r == Resting(Main(gone))
                 n == NewGeneration(w)
                 y == [n EXCEPT !.db = gone, !.ses = r, !.inn.chk = r.pos, !.inn.restore = "ok"]
      <4>1. v \in {Err(w), y}
        BY <3>6 DEF RetryRestore
      <4>2. CASE v = Err(w)
        BY <3>5, <4>2
      <4>3. CASE v = y
        <5>1. Shape(n)
          BY <1>1, NewGenerationCalm DEF Calm
        <5> HIDE DEF n, r, gone
        <5>2. DOMAIN y = WorldFields /\ y.inn.restore = "ok"
          BY <5>1 DEF Shape, WorldFields
        <5>3. x.inn.restore = "ok"
          BY <4>3, <5>2, IdleMarks DEF Idle
        <5> HIDE DEF x
        <5> QED BY <3>1, <5>3, Becoming DEF Bare, Blank
      <4> QED BY <4>1, <4>2, <4>3
    <3> QED BY <3>4, <3>5, <3>6
  <2>5. ASSUME NEW f \in Disk, PeriodicCheckpoint(f) PROVE Blank(World')
    <3>1. Becomes(Checkpointed(w, f.write))
      BY <2>5 DEF PeriodicCheckpoint, w
    <3>2. Checkpointed(w, f.write).ses = w.ses
      BY <1>1, CheckpointedSound
    <3> QED BY <2>3, <3>1, <3>2
  <2>6. ASSUME NEW f \in Disk, ShutdownCheckpoint(f) PROVE Blank(World')
    <3>1. Becomes(Checkpointed(Sample(w), f.write))
      BY <2>6 DEF ShutdownCheckpoint, w
    <3>2. Near(w, Sample(w)) /\ Sound(Sample(w))
      BY <1>1, <2>1, SampleNear, NearSound DEF Sound, Silent
    <3>3. Checkpointed(Sample(w), f.write).ses = Sample(w).ses
      BY <3>2, CheckpointedSound
    <3> QED BY <2>3, <3>1, <3>2, <3>3 DEF Near
  <2>7. ASSUME Preparation \/ Worker \/ BeginShutdown \/ Fence PROVE Blank(World')
    BY <1>1, <2>1, <2>7, AsideIdle DEF Idle, Blank, w
  <2>8. ASSUME NEW f, TakeBoundary(f) \/ TakeEvent(f) \/ TakeProgress PROVE FALSE
    <3>1. ~Presented(w)
      BY <2>1 DEF Presented, Silent
    <3> QED BY <2>2, <2>8, <3>1 DEF w, TakeBoundary, TakeEvent, TakeProgress
  <2>9. ASSUME NEW f, Restart(f) PROVE Blank(World')
    BY <1>1, <1>2, <2>9, Becoming DEF Restart
  <2> QED BY <2>4, <2>5, <2>6, <2>7, <2>8, <2>9 DEF Next, Owner, Lifecycle, Quit, Crash
<1> QED BY <1>3, <1>4

-----------------------------------------------------------------------------
(* How a departure that waits may go, or stay.                             *)
Bars(w, v) ==
  IF v.plan # NoPlan THEN v.db = w.db /\ v.ses.cur = w.ses.cur
  ELSE \/ w.plan.occ \in v.db.done
       \/ v.play.status = "stopped" \/ v.ses.rev # w.ses.rev

LEMMA IdleBars == ASSUME NEW w, NEW v, w.plan # NoPlan, Idle(w, v) PROVE Bars(w, v)
BY DEF Idle, Bars

LEMMA BarsIdle == ASSUME NEW w, NEW u, NEW v, Bars(w, u), Idle(u, v) PROVE Bars(w, v)
BY DEF Idle, Bars

LEMMA IdleThenBars == ASSUME NEW w, NEW u, NEW v, Idle(w, u), Bars(u, v) PROVE Bars(w, v)
BY DEF Idle, Bars

LEMMA FreezeBars ==
  ASSUME NEW w, Sound(w), w.ses.cur # NoOcc, NEW p, IsPlan(w.db, p), Here(w, p),
         NEW v, v = Freeze(w, p)
  PROVE  Bars(w, v)
<1>1. v.db = w.db /\ v.plan = p /\ v.ses.cur = w.ses.cur
  BY FreezeLeads
<1>2. p # NoPlan
  BY DEF IsPlan, NoPlan
<1> QED BY <1>1, <1>2 DEF Bars

(* Storage Retry carries it out, or leaves it.                             *)
LEMMA CommitBars ==
  ASSUME NEW w, Sound(w), w.ses.cur # NoOcc, w.plan # NoPlan, NEW ok,
         NEW v, v = Commit(w, w.plan, TRUE, ok)
  PROVE  Bars(w, v)
<1> DEFINE q == Resolved(w, w.plan)
           p == Recovered(q)
           d == IF p.keep THEN Departure(w.db, p.to, p.occ) ELSE Terminal(w.db, p.to, p.occ)
           changed == p.to.cur # w.ses.cur
           x == Rotate(w)
           y == [x EXCEPT !.db = d, !.ses = p.to, !.plan = NoPlan,
                    !.play = [(IF changed THEN Fresh("idle") ELSE @)
                               EXCEPT !.status = p.status, !.err = p.err],
                    !.gate = p.to.st = "buffering",
                    !.inn.dirty = FALSE, !.inn.chk = p.to.pos]
           u == [w EXCEPT !.plan = NoPlan]
<1>1. \/ v = Err(u) /\ (p.occ # w.ses.cur \/ p.to.rev # w.ses.rev)
      \/ v = Freeze(w, p)
      \/ v = y /\ d # Refused
  BY DEF Commit
<1>2. IsPlan(w.db, w.plan) /\ Here(w, w.plan)
  BY DEF Sound, Waiting
<1>3. IsPlan(w.db, q) /\ q.occ = w.plan.occ /\ q.to.rev = w.plan.to.rev
  BY <1>2, ResolvedPlan DEF Sound
<1> HIDE DEF q
<1>4. IsPlan(w.db, p) /\ p.occ = q.occ /\ p.to.rev = q.to.rev
  BY <1>3, RecoveredPlan
<1>5. p.occ = w.ses.cur /\ p.to.rev = w.ses.rev /\ p.occ = w.plan.occ /\ Here(w, p)
  BY <1>2, <1>3, <1>4 DEF Here
<1> HIDE DEF p
<1>6. CASE v = Freeze(w, p)
  BY <1>4, <1>5, <1>6, FreezeBars
<1>7. CASE v = y /\ d # Refused
  <2>1. w.db.cur = w.ses.cur /\ w.db.rev = w.ses.rev /\ w.db.ord # <<>> /\ p.to.cur # NoOcc
    <3>1. w.db.cur = w.ses.cur /\ w.db.rev = w.ses.rev
      BY DEF Sound, Agrees
    <3>2. \A e \in ToSet(w.db.ord) : e # NoOcc
      BY Elements DEF Sound, Stored
    <3> QED BY <1>4, <3>1, <3>2 DEF Sound, Stored, ValidSession, IsPlan
  <2>2. Stands(p.to, w.db.ord)
    BY <1>4, <1>5, <2>1 DEF Stands, IsPlan, Sound, Stored
  <2>3. p.occ \in d.done
    <3>1. CASE p.keep
      <4>1. w.db.act = NoOcc /\ p.occ \in w.db.out
        BY <1>4, <3>1 DEF IsPlan
      <4> QED BY <1>5, <1>7, <2>1, <2>2, <3>1, <4>1, DepartureStores DEF Sound
    <3>2. CASE ~p.keep
      BY <1>5, <1>7, <2>1, <2>2, <3>2, TerminalStores DEF Sound
    <3> QED BY <3>1, <3>2
  <2> HIDE DEF d
  <2>4. Shape(x)
    BY RotateCalm DEF Sound, Calm
  <2> HIDE DEF x, changed
  <2>5. v.db = d /\ v.plan = NoPlan
    BY <1>7, <2>4 DEF Shape, WorldFields
  <2> QED BY <1>5, <2>3, <2>5 DEF Bars
<1> QED BY <1>1, <1>5, <1>6, <1>7

LEMMA CheckpointedKeeps ==
  ASSUME NEW w, DOMAIN w = WorldFields, NEW ok, NEW v, v = Checkpointed(w, ok)
  PROVE  v.plan = w.plan /\ v.play = w.play
BY DEF Checkpointed, WorldFields, Err

(* Stop drops it.                                                          *)
LEMMA StopBars ==
  ASSUME NEW w, Sound(w), Mute(w), w.ok = TRUE, NEW f,
         NEW v, v = Transport([w EXCEPT !.plan = NoPlan], "stop", f)
  PROVE  Bars(w, v)
<1> DEFINE r == [w EXCEPT !.plan = NoPlan]
           t == [r EXCEPT !.play.back = FALSE]
           n == NewGeneration(Advance(t))
           x == [n EXCEPT !.inn.ret = FALSE, !.inn.dirty = TRUE, !.play.seek = "no",
                 !.gate = FALSE, !.ses.st = "paused",
                 !.ses.pos = IF t.inn.ret THEN @ ELSE 0,
                 !.play.status = IF t.inn.ret THEN "paused" ELSE "stopped"]
<1>1. r.ok = TRUE /\ Mute(r)
  BY DEF Mute, WorldFields
<1>2. Mute(t)
  BY <1>1 DEF Mute, WorldFields
<1>3. v = Stop(t, f)
  <2> HIDE DEF r
  <2>1. Reattempted(r, "stop", f.write) = r
    BY DEF Reattempted, NeedsAttempt
  <2>2. ~Unavailable(r, "stop")
    BY DEF Unavailable
  <2>3. v = Transport(r, "stop", f)
    BY DEF r
  <2> QED BY <1>1, <2>1, <2>2, <2>3 DEF Transport
<1>4. v = Checkpointed(x, f.write)
  <2> HIDE DEF t
  <2> QED BY <1>3 DEF Stop
<1>5. ~t.inn.ret
  BY <1>2 DEF Mute
<1> HIDE DEF t
<1>6. Mute(n) /\ n.plan = NoPlan
  <2>1. Mute(Advance(t))
    BY <1>2, MuteIdle
  <2>2. Mute(n)
    BY <2>1, MuteMoves
  <2> QED BY <2>1, <2>2 DEF NewGeneration, NewGenerationKeepingMail, Mute, WorldFields
<1> HIDE DEF n
<1>7. DOMAIN x = WorldFields /\ x.plan = NoPlan /\ x.play.status = "stopped"
  BY <1>5, <1>6 DEF Mute, WorldFields
<1> HIDE DEF x
<1>8. v.plan = NoPlan /\ v.play.status = "stopped"
  BY <1>4, <1>7, CheckpointedKeeps
<1> QED BY <1>8 DEF Bars

(* Everything else on the main queue is refused.                           *)
LEMMA ControlBars ==
  ASSUME NEW w, Sound(w), Mute(w), w.ok = TRUE, w.plan # NoPlan,
         NEW a \in Transports, NEW f, NEW v, v = Control(w, a, f)
  PROVE  Bars(w, v)
<1>1. w.ses.cur # NoOcc
  BY DEF Sound, Waiting, Here, IsPlan
<1>2. Reconcile(w, f.early) = w
  BY DEF Reconcile, Presented
<1>3. \/ v = Err(w)
      \/ v = Commit(w, w.plan, TRUE, f.write)
      \/ v = Transport([w EXCEPT !.plan = NoPlan], "stop", f)
  BY <1>1, <1>2 DEF Control
<1>4. Bars(w, Err(w))
  BY IdleErr, IdleBars DEF Mute
<1> QED BY <1>1, <1>3, <1>4, CommitBars, StopBars

LEMMA SeekBars ==
  ASSUME NEW w, Mute(w), w.ok = TRUE, w.plan # NoPlan, NEW to, NEW f,
         NEW v, v = Seek(w, to, f)
  PROVE  Bars(w, v)
<1>1. Reconcile(w, f.early) = w
  BY DEF Reconcile, Presented
<1>2. v = Err(w)
  BY <1>1 DEF Seek
<1> QED BY <1>2, IdleErr, IdleBars DEF Mute

(* A queue that replaces this one, and a selection, drop it; no edit does. *)
LEMMA ApplyBars ==
  ASSUME NEW w, Sound(w), w.pv = NoPreview, w.inn.restore = "ok", w.plan # NoPlan,
         NEW c, c.k \in {"clear", "select", "replace", "play", "append", "remove", "move"},
         NEW f, NEW x, x = Apply(w, c, f)
  PROVE  Bars(w, x)
<1> DEFINE to == Applied(w, c)
           v == Replaced(w, c, to)
           done == [v EXCEPT !.inn.dirty = FALSE, !.inn.chk = to.ses.pos]
           yes == TRUE
<1>1. DOMAIN w = WorldFields /\ w.ses.rev \in Nat
      /\ w.plan.occ = w.ses.cur
  BY DEF Sound, Shape, Session, Waiting, Here
<1>2. \/ x = Err(w) \/ x = w
      \/ /\ c.k \notin Edits /\ to.db # Refused
         /\ x = done \/ x = Prepare(done, "play", 0, yes)
  BY DEF Apply
<1> HIDE DEF yes
<1>3. CASE x = Err(w) \/ x = w
  BY <1>1, <1>3, IdleErr, IdleItself, IdleBars
<1>4. ASSUME c.k \notin Edits, to.db # Refused,
             x = done \/ x = Prepare(done, "play", 0, yes)
      PROVE  Bars(w, x)
  <2>1. to.ses.rev = w.ses.rev + 1 \/ w.ses.cur \in to.db.done
    <3>1. CASE c.k = "select"
      <4>1. to = SelectTo(w, c)
        BY <3>1 DEF Applied
      <4> HIDE DEF to
      <4> QED BY <1>4, <4>1, SelectedStores
    <3>2. CASE c.k = "clear"
      BY <3>2 DEF Applied, ClearTo
    <3>3. CASE c.k \in {"replace", "play"}
      BY <3>3 DEF Applied, LoadTo
    <3> QED BY <1>4, <3>1, <3>2, <3>3 DEF Edits
  <2> HIDE DEF to
  <2>2. Shape(Rotate(w)) /\ Rotate(w).plan = NoPlan
    BY RotateCalm DEF Sound, Calm
  <2>3. DOMAIN v = WorldFields /\ v.ses = to.ses /\ v.db = to.db /\ v.plan = NoPlan
    BY <2>2 DEF Replaced, Shape, WorldFields
  <2> HIDE DEF v
  <2>4. DOMAIN done = WorldFields /\ done.ses = to.ses /\ done.db = to.db
        /\ done.plan = NoPlan
    BY <2>3 DEF WorldFields
  <2> HIDE DEF done
  <2>5. Idle(done, x)
    BY <1>4, <2>4, IdleItself, IdleMarks
  <2>6. Bars(w, done)
    BY <1>1, <2>1, <2>4 DEF Bars
  <2> QED BY <2>5, <2>6, BarsIdle
<1> QED BY <1>2, <1>3, <1>4

LEMMA ProcessBars ==
  ASSUME NEW w, Mute(w), w.plan # NoPlan, NEW e, NEW f, NEW v, v = Process(w, e, f)
  PROVE  Bars(w, v)
<1> DEFINE x == [w EXCEPT !.play.back = FALSE]
<1>1. DOMAIN x = WorldFields /\ x.db = w.db /\ x.ses = w.ses /\ x.plan = w.plan
  BY DEF Mute, WorldFields
<1>2. v \in {w, x}
  <2> DEFINE y == IF e.k = "backFailed" THEN x ELSE w
  <2>1. y \in {w, x} /\ y.plan # NoPlan
    BY <1>1
  <2> HIDE DEF x
  <2>2. v \in {w, y}
    BY <2>1 DEF Process, x
  <2> QED BY <2>1, <2>2
<1> HIDE DEF x
<1> QED BY <1>1, <1>2 DEF Bars

(* A sample leaves a departure that waits where it is.                     *)
LEMMA SampleIdle ==
  ASSUME NEW w, Shape(w), w.plan # NoPlan
  PROVE  Idle(w, Sample(w)) /\ Sample(w).ok = w.ok
<1>1. Sample(w) = [w EXCEPT !.ing.pend = FALSE]
  BY DEF Sample
<1> QED BY <1>1 DEF Idle, Shape, WorldFields

LEMMA HandledBars ==
  ASSUME NEW w, Sound(w), Mute(w), w.ok = TRUE, w.pv = NoPreview, w.inn.restore = "ok",
         w.plan # NoPlan, NEW c, c.k \in Kinds, c.k # "preview",
         NEW f, NEW v, v = Handled(w, c, f)
  PROVE  Bars(w, v)
<1> DEFINE s == Sample(w)
<1>1. Idle(w, s) /\ s.ok = TRUE /\ s.plan # NoPlan /\ s.pv = NoPreview
  BY SampleIdle DEF Sound, Idle
<1>2. Mute(s)
  BY <1>1, IdleMute
<1>3. Sound(s)
  <2>1. w.ses.cur # NoOcc
    BY DEF Sound, Waiting, Here, IsPlan
  <2> QED BY <2>1, SampleNear, NearSound DEF Sound, Alive
<1>4. CASE c.k \in Transports
  <2>1. v = Control(s, c.k, f)
    BY <1>4 DEF Handled, InPreview, Transports
  <2> HIDE DEF s
  <2> QED BY <1>1, <1>2, <1>3, <1>4, <2>1, ControlBars, IdleThenBars
<1>5. CASE c.k = "seek"
  <2>1. v = Seek(s, c.to, f)
    BY <1>5 DEF Handled, Transports
  <2> HIDE DEF s
  <2> QED BY <1>1, <1>2, <2>1, SeekBars, IdleThenBars
<1>6. CASE c.k = "restore"
  <2>1. v = RetryRestore(w, f)
    BY <1>6 DEF Handled, Transports
  <2>2. v = Err(w)
    BY <2>1 DEF RetryRestore
  <2> QED BY <2>2, IdleErr, IdleBars DEF Mute
<1>7. CASE c.k \notin Transports \cup {"seek", "restore"}
  <2>1. v = Apply(w, c, f)
    BY <1>7 DEF Handled
  <2>2. c.k \in {"clear", "select", "replace", "play", "append", "remove", "move"}
    BY <1>7 DEF Kinds, Plain, Transports
  <2> QED BY <2>1, <2>2, ApplyBars
<1> QED BY <1>4, <1>5, <1>6, <1>7

(* One step while a departure waits, where nobody previews.                *)
LEMMA BarrierStep ==
  ASSUME "preview" \notin Commands, Sound(World), pv = NoPreview,
         Mute(World), Blank(World), plan # NoPlan, Next
  PROVE  Bars(World, World') \/ Quit \/ Crash
<1> DEFINE w == World
<1>1. /\ w.pv = NoPreview /\ Shape(w) /\ w.ok = TRUE /\ w.plan # NoPlan
      /\ Sound(w) /\ Mute(w) /\ Blank(w) /\ w.plan = plan
  BY DEF World, Sound
<1> HIDE DEF w
<1>2. w.ses.cur # NoOcc /\ w.inn.restore = "ok"
  BY <1>1 DEF Sound, Waiting, Here, IsPlan, Blank, Shape
<1>3. ASSUME NEW x, Becomes(x), Bars(w, x), DOMAIN x = WorldFields PROVE Bars(w, World')
  <2>1. World' = Bare(x)
    BY <1>3, Becoming
  <2> QED BY <1>3, <2>1 DEF Bars, Bare
<1>4. ASSUME NEW x, Becomes(x), Idle(w, x) PROVE Bars(w, World')
  BY <1>1, <1>3, <1>4, IdleBars DEF Idle
<1>5. ASSUME NEW c \in Asked, NEW f \in Disk, Command(c, f) PROVE Bars(w, World')
  <2> DEFINE v == Handled(w, c, f)
             x == IF v.ok THEN Refresh(v) ELSE v
  <2>1. InBounds(c) /\ Becomes(x)
    BY <1>5 DEF Command, w
  <2>2. /\ c.k \in Commands /\ c.k \in Kinds /\ c.k # "preview"
        /\ c.k \notin Transports \cup {"seek", "preview", "restore"} => Sensible(w, c)
    BY <1>5, <2>1, AskedFor DEF w
  <2>3. Bars(w, v)
    BY <1>1, <1>2, <2>2, HandledBars
  <2>4. DOMAIN v = WorldFields
    BY <1>1, <2>2, HandledLeads DEF Leads, Sound, Shape
  <2> HIDE DEF v
  <2>5. Idle(v, x)
    BY <2>4, IdleMarks, IdleItself
  <2> HIDE DEF x
  <2>6. Bars(w, x) /\ DOMAIN x = WorldFields
    BY <2>3, <2>5, BarsIdle DEF Idle
  <2> QED BY <1>3, <2>1, <2>6
<1>6. ASSUME NEW f \in Disk, TakeBoundary(f) PROVE FALSE
  BY <1>1, <1>6 DEF TakeBoundary, Presented, w
<1>7. ASSUME NEW f \in Disk, TakeEvent(f) PROVE Bars(w, World')
  <2> DEFINE u == [w EXCEPT !.mail = Tail(@)]
             e == Head(mail)
             x == Process(u, e, f)
  <2>1. Becomes(x)
    BY <1>7 DEF TakeEvent, w
  <2>2. Idle(w, u)
    BY <1>1 DEF Idle, Shape, WorldFields
  <2> HIDE DEF u, e
  <2>3. Mute(u) /\ u.plan # NoPlan /\ u.pv = NoPreview
    BY <1>1, <2>2, IdleMute DEF Idle
  <2>4. Mute(x) /\ Bars(u, x)
    BY <2>3, ProcessBars, MuteProcess
  <2> HIDE DEF x
  <2> QED BY <1>3, <2>1, <2>2, <2>4, IdleThenBars DEF Mute
<1>8. ASSUME TakeProgress PROVE Bars(w, World')
  <2>1. Becomes(Sample(w))
    BY <1>8 DEF TakeProgress, w
  <2> QED BY <1>1, <1>4, <2>1, SampleIdle
<1>9. ASSUME NEW f \in Disk, PeriodicCheckpoint(f) PROVE Bars(w, World')
  <2>1. Becomes(Checkpointed(w, f.write))
    BY <1>9 DEF PeriodicCheckpoint, w
  <2>2. Checkpointed(w, f.write) = w
    BY <1>1 DEF Checkpointed
  <2> QED BY <1>1, <1>4, <2>1, <2>2, IdleItself DEF Shape
<1>10. ASSUME NEW f \in Disk, ShutdownCheckpoint(f) PROVE Bars(w, World')
  <2> DEFINE s == Sample(w)
  <2>1. Becomes(Checkpointed(s, f.write))
    BY <1>10 DEF ShutdownCheckpoint, w
  <2>2. Idle(w, s)
    BY <1>1, SampleIdle
  <2> HIDE DEF s
  <2>3. Checkpointed(s, f.write) = s
    BY <1>1, <2>2 DEF Checkpointed, Idle
  <2> QED BY <1>4, <2>1, <2>2, <2>3
<1>11. ASSUME Preparation \/ Worker \/ BeginShutdown \/ Fence PROVE Bars(w, World')
  BY <1>1, <1>11, AsideIdle, IdleBars DEF w
<1> QED BY <1>5, <1>6, <1>7, <1>8, <1>9, <1>10, <1>11 DEF Next, Owner, Lifecycle, w

LEMMA StartMute == ASSUME Init PROVE Mute(World) /\ Blank(World)
<1> DEFINE f == [early |-> TRUE, write |-> TRUE]
           w == World
<1>1. /\ w.ses = Restored(Empty, f).ses /\ w.play = Restored(Empty, f).play
      /\ w.inn = Restored(Empty, f).inn /\ DOMAIN w = WorldFields
  BY DEF Init, World, WorldFields
<1> HIDE DEF w
<1>2. Mute(w)
  BY <1>1 DEF Mute, Restored, Fresh
<1>3. Blank(w)
  BY StartSound, <1>1 DEF Blank, World, w
<1> QED BY <1>2, <1>3 DEF w

(* While a refused departure waits, nothing is written and nothing moves:  *)
(* it goes only by being carried out, by Stop, by a queue that replaces    *)
(* this one, or with the process; Pause, Resume, Next, Back, Return, Seek, *)
(* edits, reports of the pipeline, checkpoints and a shutdown all leave it *)
(* (session.rs, pending_terminal). Where nobody previews: a preview drops  *)
(* it too, and Stop on the way back from one ends paused, not stopped.     *)
THEOREM DepartureStands ==
  ASSUME "preview" \notin Commands
  PROVE  Spec => PlanBarrier
<1> DEFINE Inv == Trusted /\ Mute(World) /\ Blank(World)
<1>1. Init => Inv
  BY StartSound, StartMute DEF Trusted
<1>2. Sound(World) /\ Inv /\ [Next]_vars => Inv'
  <2> SUFFICES ASSUME Sound(World), Inv, [Next]_vars PROVE Inv'
    OBVIOUS
  <2>1. Trusted'
    BY TrustIsKept
  <2>2. pv = NoPreview /\ db.aud = NoAud
    BY DEF Trusted
  <2>3. Mute(World') /\ Blank(World')
    <3>1. CASE Next
      BY <2>2, <3>1, MuteIsKept, BlankIsKept
    <3>2. CASE UNCHANGED vars
      <4>1. World' = World
        BY <3>2 DEF vars, World
      <4> QED BY <4>1
    <3> QED BY <3>1, <3>2
  <2>4. Mute(World)' <=> Mute(World')
    BY DEF Mute
  <2>5. Blank(World)' <=> Blank(World')
    BY DEF Blank
  <2> QED BY <2>1, <2>3, <2>4, <2>5
<1>3. Sound(World) /\ Inv /\ [Next]_vars =>
        [plan # NoPlan =>
           IF plan' # NoPlan THEN db' = db /\ ses'.cur = ses.cur
           ELSE \/ plan.occ \in db'.done
                \/ play'.status = "stopped" \/ ses'.rev # ses.rev
                \/ pv' # NoPreview \/ Quit \/ Crash]_vars
  <2> SUFFICES ASSUME Sound(World), Inv, Next, plan # NoPlan
               PROVE  IF plan' # NoPlan THEN db' = db /\ ses'.cur = ses.cur
                      ELSE \/ plan.occ \in db'.done
                           \/ play'.status = "stopped" \/ ses'.rev # ses.rev
                           \/ pv' # NoPreview \/ Quit \/ Crash
    OBVIOUS
  <2>1. pv = NoPreview
    BY DEF Trusted
  <2>2. Bars(World, World') \/ Quit \/ Crash
    BY <2>1, BarrierStep
  <2>3. ASSUME Bars(World, World')
        PROVE  IF plan' # NoPlan THEN db' = db /\ ses'.cur = ses.cur
               ELSE \/ plan.occ \in db'.done
                    \/ play'.status = "stopped" \/ ses'.rev # ses.rev
    BY <2>3 DEF Bars, World
  <2>4. ASSUME Quit \/ Crash PROVE plan' = NoPlan
    <3>1. PICK f \in Disk : Becomes(Restored(db, f))
      BY <2>4 DEF Quit, Crash, Restart
    <3> QED BY <3>1 DEF Becomes, Restored
  <2>5. CASE plan' # NoPlan
    BY <2>2, <2>3, <2>4, <2>5
  <2>6. CASE plan' = NoPlan
    BY <2>2, <2>3, <2>6, Zenon
  <2> QED BY <2>5, <2>6
<1> QED BY <1>1, <1>2, <1>3, WorldIsSound, PTL DEF Spec, PlanBarrier

(* What waits is for the session as it is: outside any preview, about the  *)
(* occurrence the session is on, and for the queue that is there. So       *)
(* Storage Retry can carry it out, unless no attempt is open on what it    *)
(* leaves and it was not known to be closed when it was refused: the case  *)
(* a seek after the end leads to (session.rs:3034).                        *)
DepartureHeld ==
  plan # NoPlan =>
    /\ pv = NoPreview /\ plan.occ = ses.cur /\ plan.to.rev = ses.rev
    /\ plan.keep \/ db.act = plan.occ => Commit(World, plan, TRUE, TRUE).ok

LEMMA TerminalAllowed ==
  ASSUME NEW d, Stored(d), NEW s, d.act # NoOcc PROVE Terminal(d, s, d.act) # Refused
<1> DEFINE c == CloseActive(d)
           u == Update(c, s)
           t == [u EXCEPT !.out = @ \cup {d.act}]
<1>1. DOMAIN c = DiskFields
  BY CloseParts DEF Stored
<1> HIDE DEF c
<1>2. DOMAIN u = DiskFields
  BY <1>1, UpdateParts
<1> HIDE DEF u
<1>3. DOMAIN t = DiskFields
  BY <1>2
<1> HIDE DEF t
<1>4. DOMAIN OpenAfterDeparture(t, d.act) = DiskFields
  BY <1>3 DEF OpenAfterDeparture, OpenOn
<1>5. Terminal(d, s, d.act) = OpenAfterDeparture(t, d.act)
  BY DEF Terminal, t, u, c
<1> QED BY <1>4, <1>5 DEF DiskFields, Refused

LEMMA DepartureAllowed ==
  ASSUME NEW d, Stored(d), NEW s, NEW occ \in d.done PROVE Departure(d, s, occ) # Refused
<1> DEFINE u == Update(d, s)
<1>1. DOMAIN u = DiskFields
  BY UpdateParts DEF Stored
<1> HIDE DEF u
<1>2. DOMAIN OpenAfterDeparture(u, occ) = DiskFields
  BY <1>1 DEF OpenAfterDeparture, OpenOn
<1>3. Departure(d, s, occ) = OpenAfterDeparture(u, occ)
  BY DEF Departure, u
<1> QED BY <1>2, <1>3 DEF DiskFields, Refused

LEMMA SameKind ==
  ASSUME NEW p, DOMAIN p = PlanFields, NEW w
  PROVE  Resolved(w, p).keep = p.keep /\ Recovered(p).keep = p.keep
<1>1. Resolved(w, p).keep = p.keep
  BY DEF Resolved, PlanFields
<1>2. Recovered(p).keep = p.keep
  BY DEF Recovered, PlanFields
<1> QED BY <1>1, <1>2

LEMMA CommitSucceeds ==
  ASSUME NEW w, Sound(w), w.ok = TRUE, w.plan # NoPlan,
         w.plan.keep \/ w.db.act = w.plan.occ
  PROVE  Commit(w, w.plan, TRUE, TRUE).ok
<1> DEFINE q == Resolved(w, w.plan)
           p == Recovered(q)
           d == IF p.keep THEN Departure(w.db, p.to, p.occ) ELSE Terminal(w.db, p.to, p.occ)
           changed == p.to.cur # w.ses.cur
           x == Rotate(w)
           y == [x EXCEPT !.db = d, !.ses = p.to, !.plan = NoPlan,
                    !.play = [(IF changed THEN Fresh("idle") ELSE @)
                               EXCEPT !.status = p.status, !.err = p.err],
                    !.gate = p.to.st = "buffering",
                    !.inn.dirty = FALSE, !.inn.chk = p.to.pos]
<1>1. \/ p.occ # w.ses.cur \/ p.to.rev # w.ses.rev \/ d = Refused
      \/ Commit(w, w.plan, TRUE, TRUE) = y
  BY DEF Commit
<1>2. IsPlan(w.db, w.plan) /\ Here(w, w.plan)
  BY DEF Sound, Waiting
<1>3. IsPlan(w.db, q) /\ q.occ = w.plan.occ /\ q.to.rev = w.plan.to.rev /\ q.keep = w.plan.keep
  BY <1>2, ResolvedPlan, SameKind DEF Sound, IsPlan
<1> HIDE DEF q
<1>4. p.occ = q.occ /\ p.to.rev = q.to.rev /\ p.keep = q.keep
  BY <1>3, RecoveredPlan, SameKind DEF IsPlan
<1> HIDE DEF p
<1>5. p.occ = w.ses.cur /\ p.to.rev = w.ses.rev /\ w.ses.cur # NoOcc
  BY <1>2, <1>3, <1>4 DEF Here, IsPlan
<1>6. d # Refused
  <2>1. w.db.cur = w.ses.cur /\ Stored(w.db)
    BY <1>5 DEF Sound, Agrees
  <2>2. CASE p.keep
    <3>1. w.db.act = NoOcc
      BY <1>2, <1>3, <1>4, <2>2 DEF IsPlan
    <3>2. p.occ \in w.db.done
      BY <1>5, <2>1, <3>1 DEF Stored
    <3> QED BY <2>1, <2>2, <3>2, DepartureAllowed
  <2>3. CASE ~p.keep
    <3>1. w.db.act = p.occ
      BY <1>3, <1>4, <2>3
    <3> QED BY <1>5, <2>1, <2>3, <3>1, TerminalAllowed
  <2> QED BY <2>2, <2>3
<1> HIDE DEF d, changed
<1>7. DOMAIN x = WorldFields /\ x.ok = TRUE
  <2> DEFINE a == AdvanceKeepingMail(w)
             b == Advance(w)
  <2>1. DOMAIN a = WorldFields /\ a.ok = TRUE
    BY DEF Sound, Shape, WorldFields, AdvanceKeepingMail
  <2>2. b = [a EXCEPT !.mail = SelectSeq(@, Timeless)]
    BY DEF Advance
  <2> HIDE DEF a
  <2>3. DOMAIN b = WorldFields /\ b.ok = TRUE
    BY <2>1, <2>2 DEF WorldFields
  <2> HIDE DEF b
  <2>4. x = NewGeneration(b)
    BY DEF Rotate, b
  <2> HIDE DEF x
  <2> QED BY <2>3, <2>4 DEF NewGeneration, NewGenerationKeepingMail, WorldFields
<1> HIDE DEF x
<1>8. y.ok = TRUE
  BY <1>7 DEF WorldFields
<1> QED BY <1>1, <1>5, <1>6, <1>8

THEOREM WaitingDepartures == Spec => []DepartureHeld
<1>1. Sound(World) => DepartureHeld
  <2> SUFFICES ASSUME Sound(World), plan # NoPlan
               PROVE  /\ pv = NoPreview /\ plan.occ = ses.cur /\ plan.to.rev = ses.rev
                      /\ plan.keep \/ db.act = plan.occ => Commit(World, plan, TRUE, TRUE).ok
    BY DEF DepartureHeld
  <2>1. /\ World.plan = plan /\ World.db = db /\ World.ses = ses /\ World.pv = pv
        /\ World.ok = TRUE
    BY DEF World
  <2>2. pv = NoPreview /\ plan.occ = ses.cur /\ plan.to.rev = ses.rev
    BY <2>1 DEF Sound, Waiting, Here
  <2>3. ASSUME plan.keep \/ db.act = plan.occ PROVE Commit(World, plan, TRUE, TRUE).ok
    <3> DEFINE w == World
    <3>1. /\ Sound(w) /\ w.ok = TRUE /\ w.plan = plan /\ plan # NoPlan
          /\ w.plan.keep \/ w.db.act = w.plan.occ
      BY <2>1, <2>3
    <3> HIDE DEF w
    <3>2. Commit(w, w.plan, TRUE, TRUE).ok
      BY <3>1, CommitSucceeds
    <3> QED BY <3>1, <3>2 DEF w
  <2> QED BY <2>2, <2>3
<1> QED BY <1>1, WorldIsSound, PTL
=============================================================================
