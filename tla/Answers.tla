------------------------------- MODULE Answers -------------------------------
(***************************************************************************)
(* What a native GPU device answers after the turn that asked (gpu         *)
(* host.rs, host/pending.rs, host/image.rs, and the records of host/run.rs *)
(* that ask): the queue's work done, a buffer mapped, an image decoded on  *)
(* a thread of its own.  Each lands at a later turn's poll, as             *)
(* `ticket | DONE` in a word of the guest's; and a lost device, told at    *)
(* the next poll, ends them all.                                           *)
(*                                                                         *)
(* The guest has a word of each kind and one slot for a texture.  It asks  *)
(* a mapping again only once the word holds DONE, the rule api.json        *)
(* states; it asks for the device's block before all else.  wgpu is        *)
(* external: it answers in its own time, a mapping perhaps with a refusal, *)
(* and calls back once at most that the device is lost.                    *)
(***************************************************************************)
EXTENDS Naturals, Sequences

CONSTANTS
  MaxAsks,      \* tickets the guest takes
  MaxTextures,  \* textures it makes
  MostOps       \* records of one turn

AnswersAssumption == {MaxAsks, MaxTextures, MostOps} \subseteq Nat

VARIABLES
  stage,       \* see Stages
  toPoll,      \* pending answers the poll has still to come to
  turnAsked,   \* the platform's loop was asked for a turn
  status,      \* the block's last word: "none", "ready" or "lost"
  texture,     \* the guest's texture, 0 none
  textures,    \* textures made
  ticket,      \* the last ticket taken
  word,        \* by kind, the ticket and its DONE bit
  records,     \* what the turn recorded
  object,      \* the host's texture at the slot, 0 none
  work,        \* what was submitted to the queue
  finished,    \* how much of it the device has done
  pending,     \* GpuHost::pending
  decoding,    \* GpuHost::decoding
  next,        \* the decoder's next job
  jobs,        \* sent the decoder
  answers,     \* come back
  deviceGone,  \* GpuHost::gone
  calling,     \* threads between an answer and its wake
  lossCame,    \* the device is lost, once
  want,        \* history: by kind, the ticket the guest last took
  due,         \* history: by ticket, what must be done of the queue's work
  landed,      \* history: by ticket, the job its image came of
  ended        \* history: by ticket, "left": refused or left out, "lost": by a loss

answersVars ==
  <<stage, toPoll, turnAsked, status, texture, textures, ticket, word, records,
    object, work, finished, pending, decoding, next, jobs, answers, deviceGone,
    calling, lossCame, want, due, landed, ended>>
guestVars == <<status, texture, textures, ticket, want>>
hostVars  == <<object, work, pending, decoding, next, jobs, due>>
pastVars  == <<landed, ended>>

Stages   == {"idle", "polls", "guest", "runs"}
Kinds   == {"done", "map", "image"}
Tickets == 1 .. MaxAsks
Blank   == [t |-> 0, done |-> FALSE]

AnswersInit ==
  /\ stage = "idle"
  /\ toPoll = 0
  /\ turnAsked = TRUE
  /\ status = "none"
  /\ texture = 0
  /\ textures = 0
  /\ ticket = 0
  /\ word = [k \in Kinds |-> Blank]
  /\ records = <<>>
  /\ object = 0
  /\ work = 0
  /\ finished = 0
  /\ pending = <<>>
  /\ decoding = <<>>
  /\ next = 1
  /\ jobs = <<>>
  /\ answers = <<>>
  /\ deviceGone = FALSE
  /\ calling = {}
  /\ lossCame = FALSE
  /\ want = [k \in Kinds |-> 0]
  /\ due = [t \in Tickets |-> 0]
  /\ landed = [t \in Tickets |-> 0]
  /\ ended = [t \in Tickets |-> "no"]
-----------------------------------------------------------------------------
(* The edge: what has been answered since, written to the guest's words,   *)
(* one answer at a time, while other threads go on.                        *)

\* Mutant of Stands: a done is written whatever its word holds.
StandsAlways(p) == TRUE

\* A mapping's word is its own; a done's holds its ticket, or a newer one.
Stands(p) == p.kind = "map" \/ word[p.kind] = [t |-> p.t, done |-> FALSE]

Written(p) == [word EXCEPT ![p.kind] = [t |-> p.t, done |-> TRUE]]

Ends(ts, how) == [t \in Tickets |-> IF t \in ts THEN how ELSE ended[t]]

\* Mutant of Told: the guest is not told.
ToldNothing == status

\* The block's last word, where the guest asked for one.
Told == IF status = "none" THEN "none" ELSE "lost"

\* A loss ends everything else: what the decoder still sends answers to nothing.
\* The guest, told, has no texture.
Lose ==
  /\ deviceGone
  /\ deviceGone' = FALSE
  /\ object' = 0
  /\ pending' = <<>>
  /\ decoding' = <<>>
  /\ status' = Told
  /\ texture' = 0
  /\ ended' = Ends({pending[i].t : i \in DOMAIN pending} \cup {decoding[i].t : i \in DOMAIN decoding}, "lost")
  /\ stage' = "guest"
  /\ UNCHANGED toPoll

\* Where the device stands, GpuHost::poll begins.
BeginPoll ==
  /\ ~ deviceGone
  /\ stage' = "polls"
  /\ toPoll' = Len(pending)
  /\ UNCHANGED <<deviceGone, object, pending, decoding, status, texture, ended>>

\* A turn begins, asked for by a wake or by anything else.
AnswersRise ==
  /\ stage = "idle"
  /\ turnAsked' = FALSE
  /\ Lose \/ BeginPoll
  /\ UNCHANGED <<word, answers, landed, textures, ticket, records, work, finished, next, jobs, calling, lossCame, want, due>>

\* `pending.retain`: each in its order, and kept in it while it waits.
PollNext ==
  /\ stage = "polls"
  /\ toPoll > 0
  /\ toPoll' = toPoll - 1
  /\ LET p == Head(pending)
     IN  /\ pending' = IF p.state = "waiting" THEN Append(Tail(pending), p) ELSE Tail(pending)
         /\ word' = IF p.state = "answered" /\ Stands(p) THEN Written(p) ELSE word
         /\ ended' = IF p.state = "refused" THEN Ends({p.t}, "left") ELSE ended
  /\ UNCHANGED <<stage, turnAsked, answers, deviceGone, object, decoding, landed, records, work, finished, next, jobs,
                 calling, lossCame, due>>
  /\ UNCHANGED <<status, texture, textures, ticket, want>>

\* Mutant of IsOf: an answer is of what was sent first.
IsOfFirst(d, a) == TRUE

\* An answer is of the decode at the front, or of one a loss forgot.
IsOf(d, a) == d.job = a.job

\* One decoded image written where its texture is held still.
Land(d, a) ==
  LET into == a.ok /\ object = d.to
      p    == [kind |-> "image", t |-> d.t]
  IN  /\ decoding' = Tail(decoding)
      /\ word' = IF into /\ Stands(p) THEN Written(p) ELSE word
      /\ landed' = IF into THEN [landed EXCEPT ![d.t] = a.job] ELSE landed
      /\ ended' = IF into THEN ended ELSE Ends({d.t}, "left")

\* Of what has come back by now, the next: land_images.
LandNext ==
  /\ stage = "polls"
  /\ toPoll = 0
  /\ answers # <<>>
  /\ answers' = Tail(answers)
  /\ IF decoding # <<>> /\ IsOf(Head(decoding), Head(answers))
       THEN Land(Head(decoding), Head(answers))
       ELSE UNCHANGED <<decoding, word, landed, ended>>
  /\ UNCHANGED <<stage, toPoll, turnAsked, deviceGone, object, pending, records, work, finished, next, jobs, calling,
                 lossCame, due>>
  /\ UNCHANGED <<status, texture, textures, ticket, want>>

EndPoll ==
  /\ stage = "polls"
  /\ toPoll = 0
  /\ answers = <<>>
  /\ stage' = "guest"
  /\ UNCHANGED <<toPoll, turnAsked, word, records, finished, answers, deviceGone, calling, lossCame>>
  /\ UNCHANGED guestVars
  /\ UNCHANGED hostVars
  /\ UNCHANGED pastVars
-----------------------------------------------------------------------------
(* The guest's turn: what it records.                                      *)

Records(r) ==
  /\ stage = "guest"
  /\ Len(records) < MostOps
  /\ records' = Append(records, r)
  /\ UNCHANGED <<stage, toPoll, turnAsked, finished, answers, deviceGone, calling, lossCame>>
  /\ UNCHANGED hostVars
  /\ UNCHANGED pastVars

DeviceAsked == status # "none" \/ \E i \in DOMAIN records : records[i].op = "device"

AskDevice ==
  /\ ~ DeviceAsked
  /\ Records([op |-> "device"])
  /\ UNCHANGED <<status, texture, textures, ticket, word, want>>

MakeTexture ==
  /\ DeviceAsked
  /\ texture = 0
  /\ textures < MaxTextures
  /\ textures' = textures + 1
  /\ texture' = textures + 1
  /\ Records([op |-> "texture", to |-> textures + 1])
  /\ UNCHANGED <<status, ticket, word, want>>

Destroy ==
  /\ texture # 0
  /\ texture' = 0
  /\ Records([op |-> "destroy"])
  /\ UNCHANGED <<status, textures, ticket, word, want>>

\* queue_done, map_async, copy_external_image: the word set to the ticket, and
\* the record that names it.
Ask(k) ==
  /\ DeviceAsked
  /\ k = "map" => word[k].t = 0 \/ word[k].done
  /\ k = "image" => texture # 0
  /\ ticket < MaxAsks
  /\ ticket' = ticket + 1
  /\ word' = [word EXCEPT ![k] = [t |-> ticket + 1, done |-> FALSE]]
  /\ want' = [want EXCEPT ![k] = ticket + 1]
  /\ Records([op |-> k, t |-> ticket + 1])
  /\ UNCHANGED <<status, texture, textures>>

AnswersFall ==
  /\ stage = "guest"
  /\ stage' = "runs"
  /\ UNCHANGED <<toPoll, turnAsked, word, records, finished, answers, deviceGone, calling, lossCame>>
  /\ UNCHANGED guestVars
  /\ UNCHANGED hostVars
  /\ UNCHANGED pastVars
-----------------------------------------------------------------------------
(* The records run, one at a time, while other threads go on.              *)

Runs(op) ==
  /\ stage = "runs"
  /\ records # <<>>
  /\ Head(records).op = op
  /\ records' = Tail(records)
  /\ UNCHANGED <<stage, toPoll, turnAsked, texture, textures, ticket, word, finished, answers, deviceGone, calling, lossCame, want>>
  /\ UNCHANGED pastVars

RunDevice ==
  /\ Runs("device")
  /\ status' = "ready"
  /\ UNCHANGED hostVars

RunTexture ==
  /\ Runs("texture")
  /\ object' = Head(records).to
  /\ UNCHANGED <<status, work, pending, decoding, next, jobs, due>>

RunDestroy ==
  /\ Runs("destroy")
  /\ object' = 0
  /\ UNCHANGED <<status, work, pending, decoding, next, jobs, due>>

\* What was written goes to the queue with it, so the done is of that as well;
\* a mapping is of a copy submitted before.
RunDone ==
  /\ Runs("done")
  /\ work' = work + 1
  /\ due' = [due EXCEPT ![Head(records).t] = work + 1]
  /\ pending' = Append(pending, [kind |-> "done", t |-> Head(records).t, state |-> "waiting"])
  /\ UNCHANGED <<status, object, decoding, next, jobs>>

RunMap ==
  /\ Runs("map")
  /\ due' = [due EXCEPT ![Head(records).t] = work]
  /\ pending' = Append(pending, [kind |-> "map", t |-> Head(records).t, state |-> "waiting"])
  /\ UNCHANGED <<status, object, work, decoding, next, jobs>>

\* The bytes are copied now, and sent the decoder under the next number.
RunImage ==
  /\ Runs("image")
  /\ jobs' = Append(jobs, next)
  /\ next' = next + 1
  /\ due' = [due EXCEPT ![Head(records).t] = next]
  /\ decoding' = Append(decoding, [job |-> next, to |-> object, t |-> Head(records).t])
  /\ UNCHANGED <<status, object, work, pending>>

End ==
  /\ stage = "runs"
  /\ records = <<>>
  /\ stage' = "idle"
  /\ UNCHANGED <<toPoll, turnAsked, word, records, finished, answers, deviceGone, calling, lossCame>>
  /\ UNCHANGED guestVars
  /\ UNCHANGED hostVars
  /\ UNCHANGED pastVars
-----------------------------------------------------------------------------
(* Other threads: wgpu's, and the decoder's.                               *)

Elsewhere ==
  /\ UNCHANGED <<stage, toPoll, word, records, object, work, decoding, next, due>>
  /\ UNCHANGED guestVars
  /\ UNCHANGED pastVars

DeviceFinishes ==
  /\ ~ lossCame
  /\ finished < work
  /\ finished' = finished + 1
  /\ UNCHANGED <<turnAsked, pending, jobs, answers, deviceGone, calling, lossCame>>
  /\ Elsewhere

\* The callback of a done or of a mapping, which may be refused.
CallBack(i, st) ==
  /\ ~ lossCame
  /\ pending[i].state = "waiting"
  /\ IF st = "answered" THEN finished >= due[pending[i].t] ELSE pending[i].kind = "map"
  /\ pending' = [pending EXCEPT ![i].state = st]
  /\ UNCHANGED <<turnAsked, finished, jobs, answers, deviceGone, calling, lossCame>>
  /\ Elsewhere

DeviceLost ==
  /\ ~ lossCame
  /\ lossCame' = TRUE
  /\ deviceGone' = TRUE
  /\ calling' = calling \cup {"wgpu"}
  /\ UNCHANGED <<turnAsked, finished, pending, jobs, answers>>
  /\ Elsewhere

\* Mutant of Decode: nothing is woken.
DecodeAsleep(ok) ==
  /\ jobs # <<>>
  /\ "decoder" \notin calling
  /\ jobs' = Tail(jobs)
  /\ answers' = Append(answers, [job |-> Head(jobs), ok |-> ok])
  /\ UNCHANGED <<turnAsked, finished, pending, deviceGone, calling, lossCame>>
  /\ Elsewhere

\* An image decoded, or not one, its answer sent; the wake comes after.
Decode(ok) ==
  /\ jobs # <<>>
  /\ "decoder" \notin calling
  /\ jobs' = Tail(jobs)
  /\ answers' = Append(answers, [job |-> Head(jobs), ok |-> ok])
  /\ calling' = calling \cup {"decoder"}
  /\ UNCHANGED <<turnAsked, finished, pending, deviceGone, lossCame>>
  /\ Elsewhere

Wake(by) ==
  /\ by \in calling
  /\ calling' = calling \ {by}
  /\ turnAsked' = TRUE
  /\ UNCHANGED <<finished, pending, jobs, answers, deviceGone, lossCame>>
  /\ Elsewhere

AnswersNext ==
  \/ AnswersRise
  \/ PollNext
  \/ LandNext
  \/ EndPoll
  \/ AskDevice
  \/ MakeTexture
  \/ Destroy
  \/ \E k \in Kinds : Ask(k)
  \/ AnswersFall
  \/ RunDevice
  \/ RunTexture
  \/ RunDestroy
  \/ RunDone
  \/ RunMap
  \/ RunImage
  \/ End
  \/ DeviceFinishes
  \/ \E i \in DOMAIN pending, st \in {"answered", "refused"} : CallBack(i, st)
  \/ DeviceLost
  \/ \E ok \in BOOLEAN : Decode(ok)
  \/ \E by \in {"wgpu", "decoder"} : Wake(by)

AnswersSpec == AnswersInit /\ [][AnswersNext]_answersVars
-----------------------------------------------------------------------------
AnswersTypeOK ==
  /\ stage \in Stages
  /\ toPoll \in 0 .. Len(pending)
  /\ status \in {"none", "ready", "lost"}
  /\ {texture, textures, object} \subseteq 0 .. MaxTextures
  /\ word \in [Kinds -> [t : {0} \cup Tickets, done : BOOLEAN]]
  /\ finished <= work
  /\ Len(records) <= MostOps
  /\ calling \subseteq {"wgpu", "decoder"}
  /\ ended \in [Tickets -> {"no", "left", "lost"}]

(***************************************************************************)
(* A word that holds DONE holds it of the ticket the guest last took, and  *)
(* what that asked for is so: the work done, the range mapped, the image   *)
(* in its texture, and that very image.                                    *)
(***************************************************************************)
DoneIsTrue ==
  \A k \in Kinds : word[k].done =>
    /\ word[k].t = want[k]
    /\ IF k = "image" THEN landed[want[k]] = due[want[k]] ELSE finished >= due[want[k]]

\* An image lands where it was asked for, or nowhere.
ImageInPlace == \A t \in Tickets : landed[t] \in {0, due[t]}

(***************************************************************************)
(* A guest that waits is not forgotten: its ask is still to run, or        *)
(* pending, or being decoded; or it was refused or left out, as api.json   *)
(* says of them; or a loss ended it, of which the guest has been told.     *)
(***************************************************************************)
Asks == {records[i].t : i \in {j \in DOMAIN records : records[j].op \in Kinds}}
          \cup {pending[i].t : i \in DOMAIN pending} \cup {decoding[i].t : i \in DOMAIN decoding}

NothingForgotten ==
  \A k \in Kinds : word[k].t # 0 /\ ~ word[k].done =>
    \/ word[k].t \in Asks
    \/ ended[word[k].t] = "left"
    \/ ended[word[k].t] = "lost" /\ status = "lost"

(***************************************************************************)
(* "A device lost ... is told the guest at the next turn's edge"           *)
(* (host.rs): once the loss is taken no block says ready.  It is not so: a *)
(* loss taken before the guest has asked for its block is dropped, and the *)
(* block, asked for next, says ready.                                      *)
(***************************************************************************)
LossTold == lossCame /\ ~ deviceGone => status # "ready"

(***************************************************************************)
(* What only a poll can write is being polled, or has a turn asked for it: *)
(* the loop was woken, or a thread is about to wake it.                    *)
(***************************************************************************)
CameBack(d) == \E i \in DOMAIN answers : answers[i].job = d.job

WakeFollows ==
  /\ deviceGone => turnAsked \/ "wgpu" \in calling
  /\ \A i \in DOMAIN decoding : CameBack(decoding[i]) => turnAsked \/ "decoder" \in calling \/ stage = "polls"

(***************************************************************************)
(* A word holds DONE only of the ticket last taken and of what was done,   *)
(* an image lands where it was asked for or nowhere, no guest waits for    *)
(* what the host forgot without telling, and what only a poll can write    *)
(* has a turn asked for it.                                                *)
(***************************************************************************)
AnswersLand ==
  /\ AnswersTypeOK
  /\ DoneIsTrue
  /\ ImageInPlace
  /\ NothingForgotten
  /\ WakeFollows
=============================================================================
