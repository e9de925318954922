--------------------------- MODULE TuiLoopProofs ---------------------------
(***************************************************************************)
(* The safety of TuiLoop, for any number of messages, turns and keys and   *)
(* any batches of calls.                                                   *)
(***************************************************************************)
EXTENDS FiniteSetTheorems, TuiLoop, TLAPS

USE ConstantsAssumption
USE DEF uiVars, engVars, history

-----------------------------------------------------------------------------
(* The bag of commands and messages. *)

\* How many copies of x the bag B has.
Copies(B, x) == IF x \in DOMAIN B THEN B[x] ELSE 0

\* A step replaces one copy of an element by one copy of each new element.
LEMMA BecomesCopies ==
  ASSUME NEW w, NEW new, IsABag(work), Queued(w), Becomes(w, new)
  PROVE  /\ IsABag(work')
         /\ \A x : Copies(work', x) =
                     Copies(work, x) - (IF x = w THEN 1 ELSE 0)
                                     + (IF x \in new THEN 1 ELSE 0)
<1> DEFINE left == work (-) SetToBag({w})
           less == [e \in DOMAIN work |->
                      IF e = w THEN work[e] - 1 ELSE work[e]]
<1>1. \A x \in DOMAIN work : work[x] \in Nat /\ work[x] > 0
  BY DEF IsABag
<1>2. w \in DOMAIN work
  BY DEF Queued
<1>3. /\ \A x \in DOMAIN left : left[x] \in Nat /\ left[x] > 0
      /\ \A x : Copies(left, x) = Copies(work, x) - (IF x = w THEN 1 ELSE 0)
  <2>1. SetToBag({w}) = [e \in {w} |-> 1]
    BY DEF SetToBag
  <2>2. less = [e \in DOMAIN work |-> IF e \in DOMAIN SetToBag({w})
                                      THEN work[e] - SetToBag({w})[e]
                                      ELSE work[e]]
    BY <2>1
  <2>3. left = [e \in {d \in DOMAIN less : less[d] > 0} |-> less[e]]
    BY <2>2 DEF (-)
  <2> HIDE DEF left
  <2> QED BY <2>3, <1>1, <1>2 DEF Copies
<1>4. work' = [e \in DOMAIN left \cup new |->
                 (IF e \in DOMAIN left THEN left[e] ELSE 0)
                 + (IF e \in new THEN 1 ELSE 0)]
  <2>1. work' = left (+) SetToBag(new)
    BY DEF Becomes
  <2>2. SetToBag(new) = [e \in new |-> 1]
    BY DEF SetToBag
  <2>3. left (+) SetToBag(new) =
          [e \in DOMAIN left \cup DOMAIN SetToBag(new) |->
             (IF e \in DOMAIN left THEN left[e] ELSE 0)
             + (IF e \in DOMAIN SetToBag(new) THEN SetToBag(new)[e] ELSE 0)]
    BY DEF (+)
  <2>4. DOMAIN SetToBag(new) = new /\ \A e \in new : SetToBag(new)[e] = 1
    BY <2>2
  <2> HIDE DEF left
  <2> QED BY <2>1, <2>3, <2>4
<1> HIDE DEF left
<1>5. DOMAIN work' = DOMAIN left \cup new
  BY <1>4
<1>6. \A x \in DOMAIN work' :
        work'[x] = (IF x \in DOMAIN left THEN left[x] ELSE 0)
                   + (IF x \in new THEN 1 ELSE 0)
  BY <1>4, <1>5
<1>7. \A x \in DOMAIN work' : work'[x] \in Nat /\ work'[x] > 0
  BY <1>3, <1>5, <1>6
<1>8. IsABag(work')
  <2>1. work' \in [DOMAIN work' -> {k \in Nat : k > 0}]
    BY <1>4, <1>5, <1>7
  <2> QED BY <2>1 DEF IsABag
<1>9. \A x : Copies(work', x) = Copies(left, x) + (IF x \in new THEN 1 ELSE 0)
  BY <1>3, <1>5, <1>6 DEF Copies
<1> QED BY <1>1, <1>3, <1>8, <1>9 DEF Copies

\* Of everything else there are as many as before.
LEMMA BecomesFacts ==
  ASSUME NEW w, NEW new, IsABag(work), Queued(w), Becomes(w, new)
  PROVE  /\ IsABag(work')
         /\ DOMAIN work' \subseteq DOMAIN work \cup new
         /\ \A x \in DOMAIN work \ new :
              x \in DOMAIN work' => work'[x] <= work[x]
         /\ work[w] = 1 /\ w \notin new => w \notin DOMAIN work'
         /\ \A x \in new \ DOMAIN work : x \in DOMAIN work' /\ work'[x] = 1
<1>1. \A x \in DOMAIN work : work[x] \in Nat /\ work[x] > 0
  BY DEF IsABag
<1>2. w \in DOMAIN work
  BY DEF Queued
<1>3. /\ IsABag(work')
      /\ \A x : Copies(work', x) =
                  Copies(work, x) - (IF x = w THEN 1 ELSE 0)
                                  + (IF x \in new THEN 1 ELSE 0)
  BY BecomesCopies
<1>4. \A x \in DOMAIN work' : work'[x] \in Nat /\ work'[x] > 0
  BY <1>3 DEF IsABag
<1>5. DOMAIN work' \subseteq DOMAIN work \cup new
  BY <1>3, <1>4 DEF Copies
<1>6. \A x \in DOMAIN work \ new :
        x \in DOMAIN work' => work'[x] <= work[x]
  BY <1>1, <1>3, <1>4 DEF Copies
<1>7. work[w] = 1 /\ w \notin new => w \notin DOMAIN work'
  BY <1>2, <1>3, <1>4 DEF Copies
<1>8. \A x \in new \ DOMAIN work : x \in DOMAIN work' /\ work'[x] = 1
  BY <1>2, <1>3, <1>4 DEF Copies
<1> QED BY <1>3, <1>5, <1>6, <1>7, <1>8

\* Adding one element of a new kind.
LEMMA AlsoFacts ==
  ASSUME NEW w, IsABag(work), Also(w)
  PROVE  /\ IsABag(work')
         /\ DOMAIN work' = DOMAIN work \cup {w}
         /\ \A x : Copies(work', x) =
                     Copies(work, x) + (IF x = w THEN 1 ELSE 0)
         /\ \A x \in DOMAIN work \ {w} : work'[x] = work[x]
         /\ ~Queued(w) => work'[w] = 1
<1>1. \A x \in DOMAIN work : work[x] \in Nat /\ work[x] > 0
  BY DEF IsABag
<1>2. work' = [e \in DOMAIN work \cup {w} |->
                 (IF e \in DOMAIN work THEN work[e] ELSE 0)
                 + (IF e = w THEN 1 ELSE 0)]
  <2>1. SetToBag({w}) = [e \in {w} |-> 1]
    BY DEF SetToBag
  <2>2. DOMAIN SetToBag({w}) = {w} /\ SetToBag({w})[w] = 1
    BY <2>1
  <2> QED BY <2>2 DEF Also, (+)
<1>3. /\ DOMAIN work' = DOMAIN work \cup {w}
      /\ \A x \in DOMAIN work' : work'[x] \in {k \in Nat : k > 0}
  BY <1>1, <1>2
<1>4. IsABag(work')
  BY <1>2, <1>3 DEF IsABag
<1>5. \A x : Copies(work', x) = Copies(work, x) + (IF x = w THEN 1 ELSE 0)
  BY <1>1, <1>2, <1>3 DEF Copies
<1>6. \A x \in DOMAIN work \ {w} : work'[x] = work[x]
  BY <1>1, <1>2
<1>7. ~Queued(w) => work'[w] = 1
  BY <1>2 DEF Queued
<1> QED BY <1>3, <1>4, <1>5, <1>6, <1>7

-----------------------------------------------------------------------------
(* The invariant. *)

\* The streams: a turn is known by a send that happened; the stream and the
\* cancel function, if there are any, are those of the last send.
ScreenInv ==
  /\ state \in {"idle", "thinking", "streaming", "approval", "plan", "error"}
  /\ stopped \in BOOLEAN /\ plan \in BOOLEAN
  /\ gen \in 0..MaxTurns
  /\ LatestStream

\* The engine's record, and the turns it may be at.
EngineInv ==
  /\ DOMAIN eng = DOMAIN Off
  /\ eng.at \in {"off", "model", "asked", "running", "planned", "over"}
  /\ eng.turn \in {None} \cup Turns
  /\ eng.at # "off" => eng.turn \in Turns
  /\ eng.req \in 0..Len(Batches)
  /\ ended \subseteq Turns /\ done \subseteq Turns

\* The command or message w carries the drafted message n.
Carries(w, n) ==
  \/ "send" \in DOMAIN w /\ w.send = n
  \/ "of" \in DOMAIN w /\ w.of = n

\* A drafted message that started no turn is in one place: it is carried by
\* one copy of one element of the bag, or it is in the queue once, or it was
\* dropped; one that started a turn is nowhere, nor is one not yet typed.
Carried ==
  \A w \in DOMAIN work, n \in Messages : Carries(w, n) =>
    /\ work[w] = 1 /\ n <= used.typed /\ taken[n] = 0
    /\ \A i \in DOMAIN queue : queue[i] # n
    /\ \A v \in DOMAIN work : Carries(v, n) => v = w

InQueue ==
  \A i \in DOMAIN queue :
    /\ queue[i] <= used.typed /\ taken[queue[i]] = 0
    /\ \A j \in DOMAIN queue : queue[i] = queue[j] => i = j

MessageInv ==
  /\ DOMAIN used = {"typed", "keys", "esc", "chat", "slash"}
  /\ used.typed \in 0..MaxTyped
  /\ IsABag(work)
  /\ queue \in Seq(Messages)
  /\ taken \in [Messages -> {0, 1}]
  /\ \A n \in Messages : taken[n] = 1 => n <= used.typed
  /\ Carried
  /\ InQueue

\* The key d was pressed for the call c while request r was shown; the call
\* is one of that request.
Pressed(r, c, d) ==
  /\ <<r, c, d>> \in pressed
  /\ r \in Requests
  /\ \E i \in DOMAIN Batches[r] : Batches[r][i] = c

\* The calls before the index are decided, each by a key pressed for it.
Deciding(a) ==
  /\ a.req \in Requests
  /\ a.calls = Batches[a.req]
  /\ a.index \in 1..Len(a.calls)
  /\ DOMAIN a.dec = {a.calls[i] : i \in 1..(a.index - 1)}
  /\ \A c \in DOMAIN a.dec : <<a.req, c, a.dec[c]>> \in pressed

\* A key that was pressed is not taken back, and a response on its way names
\* a call of some request for which that key was pressed.
ApprovalInv ==
  /\ \/ appr = NoRequest
     \/ DOMAIN appr = DOMAIN NoRequest /\ Deciding(appr)
  /\ \A w \in DOMAIN work : "respond" \in DOMAIN w =>
       \E r \in Requests : Pressed(r, w.call, w.respond)
  /\ AnswersChosen

UiInv == ScreenInv /\ EngineInv /\ MessageInv /\ ApprovalInv


-----------------------------------------------------------------------------
(* Steps that move no drafted message and no decision. *)

\* The elements of `new` may have come, others may have gone.
Moved(new) ==
  /\ IsABag(work')
  /\ DOMAIN work' \subseteq DOMAIN work \cup new
  /\ \A x \in DOMAIN work \ new : x \in DOMAIN work' => work'[x] <= work[x]
  /\ \A x \in new \ DOMAIN work : x \in DOMAIN work' => work'[x] = 1

\* An element that carries neither a message nor a decision.
Plain(x) == DOMAIN x \cap {"send", "of", "respond", "resume"} = {}

SameTyped == DOMAIN used' = DOMAIN used /\ used'.typed = used.typed

Plainly ==
  /\ \E new : Moved(new) /\ \A x \in new : Plain(x)
  /\ UNCHANGED <<queue, taken, appr, pressed>>
  /\ SameTyped

\* Each way an action changes the bag is such a move.
LEMMA BecomesMoves ==
  ASSUME NEW w, NEW new, IsABag(work), Queued(w), Becomes(w, new)
  PROVE  Moved(new)
BY BecomesFacts DEF Moved

\* The user adds an element.
LEMMA AlsoMoves ==
  ASSUME NEW w, IsABag(work), Also(w)
  PROVE  Moved({w})
<1>1. /\ IsABag(work')
      /\ DOMAIN work' = DOMAIN work \cup {w}
      /\ \A x \in DOMAIN work \ {w} : work'[x] = work[x]
      /\ ~Queued(w) => work'[w] = 1
  BY AlsoFacts
<1>2. \A x \in DOMAIN work : work[x] \in Nat
  BY DEF IsABag
<1> QED BY <1>1, <1>2 DEF Moved, Queued

\* A step that leaves the bag alone moves nothing.
LEMMA StillMoves ==
  ASSUME IsABag(work), UNCHANGED work
  PROVE  Moved({})
<1>1. \A x \in DOMAIN work : work[x] \in Nat
  BY DEF IsABag
<1>2. IsABag(work')
  BY DEF IsABag
<1> QED BY <1>1, <1>2 DEF Moved

\* The counters other than that of the typed messages.
LEMMA SpendKeeps ==
  ASSUME DOMAIN used = {"typed", "keys", "esc", "chat", "slash"},
         NEW c \in {"keys", "esc", "chat", "slash"}, Spend(c)
  PROVE  SameTyped
BY DEF Spend, SameTyped

\* A move of elements that carry no drafted message keeps each message where
\* it is, or drops it.
LEMMA MovedMessages ==
  ASSUME MessageInv, NEW new, Moved(new),
         \A x \in new, n \in Messages : ~Carries(x, n),
         UNCHANGED <<queue, taken>>, SameTyped
  PROVE  MessageInv'
<1>1. \A w \in DOMAIN work', n \in Messages : Carries(w, n) =>
        /\ w \in DOMAIN work /\ w \notin new
        /\ work'[w] <= work[w] /\ work'[w] \in Nat /\ work'[w] > 0
  BY DEF Moved, IsABag
<1>2. Carried'
  <2> SUFFICES ASSUME NEW w \in DOMAIN work', NEW n \in Messages,
                      Carries(w, n)
               PROVE  /\ work'[w] = 1 /\ n <= used'.typed /\ taken'[n] = 0
                      /\ \A i \in DOMAIN queue' : queue'[i] # n
                      /\ \A v \in DOMAIN work' : Carries(v, n) => v = w
    BY DEF Carried, Carries
  <2>1. w \in DOMAIN work /\ work'[w] <= work[w] /\ work'[w] \in Nat
        /\ work'[w] > 0
    BY <1>1
  <2>2. /\ work[w] = 1 /\ n <= used.typed /\ taken[n] = 0
        /\ \A i \in DOMAIN queue : queue[i] # n
        /\ \A v \in DOMAIN work : Carries(v, n) => v = w
    BY <2>1 DEF MessageInv, Carried
  <2>3. work'[w] = 1
    BY <2>1, <2>2
  <2> QED BY <2>2, <2>3, <1>1 DEF SameTyped
<1>3. InQueue'
  BY DEF MessageInv, InQueue, SameTyped
<1> QED BY <1>2, <1>3 DEF MessageInv, Moved, SameTyped

\* A move of elements that carry no key and no decision keeps the rest.
LEMMA MovedApprovals ==
  ASSUME ApprovalInv, NEW new, Moved(new),
         \A x \in new : "respond" \notin DOMAIN x /\ "resume" \notin DOMAIN x,
         UNCHANGED <<appr, pressed>>
  PROVE  ApprovalInv'
<1>1. \A w \in DOMAIN work' :
        ("respond" \in DOMAIN w \/ "resume" \in DOMAIN w) => w \in DOMAIN work
  BY DEF Moved
<1>2. AnswersChosen'
  BY <1>1 DEF ApprovalInv, AnswersChosen
<1>3. \A w \in DOMAIN work' : "respond" \in DOMAIN w =>
        \E r \in Requests : Pressed(r, w.call, w.respond)'
  BY <1>1 DEF ApprovalInv, Pressed
<1>4. Deciding(appr) => Deciding(appr)'
  BY DEF Deciding
<1> QED BY <1>2, <1>3, <1>4 DEF ApprovalInv

\* So a plain step keeps both invariants.
LEMMA PlainlyKeeps ==
  ASSUME MessageInv, ApprovalInv, Plainly
  PROVE  MessageInv' /\ ApprovalInv'
<1>1. PICK new : Moved(new) /\ \A x \in new : Plain(x)
  BY DEF Plainly
<1>2. \A x \in new : /\ \A n \in Messages : ~Carries(x, n)
                     /\ "respond" \notin DOMAIN x
                     /\ "resume" \notin DOMAIN x
  BY <1>1 DEF Plain, Carries
<1>3. MessageInv'
  BY <1>1, <1>2, MovedMessages DEF Plainly
<1>4. ApprovalInv'
  BY <1>1, <1>2, MovedApprovals DEF Plainly
<1> QED BY <1>3, <1>4


\* The three ways to be a plain step.
LEMMA PlainBecomes ==
  ASSUME MessageInv, NEW w, NEW new, Queued(w), Becomes(w, new),
         \A x \in new : Plain(x),
         UNCHANGED <<queue, taken, appr, pressed>>, SameTyped
  PROVE  Plainly
BY BecomesMoves DEF Plainly, MessageInv

\* The user adds a plain element.
LEMMA PlainAlso ==
  ASSUME MessageInv, NEW w, Also(w), Plain(w),
         UNCHANGED <<queue, taken, appr, pressed>>, SameTyped
  PROVE  Plainly
<1>1. Moved({w})
  BY AlsoMoves DEF MessageInv
<1>2. \A x \in {w} : Plain(x)
  OBVIOUS
<1> QED BY <1>1, <1>2 DEF Plainly

\* The bag is left alone.
LEMMA PlainStill ==
  ASSUME MessageInv, UNCHANGED <<work, queue, taken, appr, pressed>>, SameTyped
  PROVE  Plainly
BY StillMoves DEF Plainly, MessageInv

\* The user's keys outside the approval dialog and the input.
LEMMA UserPlain ==
  ASSUME MessageInv,
         \/ \E b \in BOOLEAN : PlanKey(b)
         \/ Slash \/ Steer \/ Cancel
  PROVE  Plainly
<1>0. DOMAIN used = {"typed", "keys", "esc", "chat", "slash"}
  BY DEF MessageInv
<1>1. CASE \E b \in BOOLEAN : PlanKey(b)
  <2>1. PICK b \in BOOLEAN : PlanKey(b)
    BY <1>1
  <2>2. Also(PlanMsg(b)) /\ UNCHANGED <<queue, taken, appr, pressed>>
    BY <2>1 DEF PlanKey
  <2>3. SameTyped
    BY <2>1, <1>0, SpendKeeps DEF PlanKey
  <2>4. Plain(PlanMsg(b))
    BY DEF Plain, PlanMsg
  <2> QED BY <2>2, <2>3, <2>4, PlainAlso
<1>2. CASE Slash
  <2>1. Also(SlashCmd) /\ UNCHANGED <<queue, taken, appr, pressed>>
    BY <1>2 DEF Slash
  <2>2. SameTyped
    BY <1>2, <1>0, SpendKeeps DEF Slash
  <2>3. Plain(SlashCmd)
    BY DEF Plain, SlashCmd
  <2> QED BY <2>1, <2>2, <2>3, PlainAlso
<1>3. CASE Steer
  <2>1. Also(SteerCmd(session)) /\ UNCHANGED <<queue, taken, appr, pressed>>
    BY <1>3 DEF Steer
  <2>2. SameTyped
    BY <1>3, <1>0, SpendKeeps DEF Steer
  <2>3. Plain(SteerCmd(session))
    BY DEF Plain, SteerCmd
  <2> QED BY <2>1, <2>2, <2>3, PlainAlso
<1>4. CASE Cancel
  <2>1. UNCHANGED <<work, queue, taken, appr, pressed>>
    BY <1>4 DEF Cancel
  <2>2. SameTyped
    BY <1>4, <1>0, SpendKeeps DEF Cancel
  <2> QED BY <2>1, <2>2, PlainStill
<1> QED BY <1>1, <1>2, <1>3, <1>4

\* What becomes of a turn that was asked for, where no turn starts.
LEMMA RunPlain ==
  ASSUME MessageInv, NEW g \in Turns,
         \/ \E ok \in BOOLEAN : HandleStale(g, ok)
         \/ HandleRefused(g)
         \/ HandleStarted(g)
         \/ \E n \in Messages, p \in BOOLEAN, s \in Sessions :
               RunRefused(g, n, p, s)
  PROVE  Plainly
<1>1. CASE \E ok \in BOOLEAN : HandleStale(g, ok)
  <2>1. PICK ok \in BOOLEAN : HandleStale(g, ok)
    BY <1>1
  <2>2. /\ Queued(RanMsg(g, ok)) /\ Becomes(RanMsg(g, ok), {})
        /\ UNCHANGED <<queue, taken, appr, pressed, used>>
    BY <2>1 DEF HandleStale
  <2> QED BY <2>2, PlainBecomes DEF SameTyped
<1>2. CASE HandleRefused(g)
  <2>1. PICK ok \in BOOLEAN :
          /\ Queued(RanMsg(g, ok)) /\ Becomes(RanMsg(g, ok), {})
          /\ UNCHANGED <<queue, taken, appr, pressed, used>>
    BY <1>2 DEF HandleRefused
  <2> QED BY <2>1, PlainBecomes DEF SameTyped
<1>3. CASE HandleStarted(g)
  <2>1. PICK ok \in BOOLEAN :
          /\ Queued(RanMsg(g, ok)) /\ Becomes(RanMsg(g, ok), {ReadCmd(g)})
          /\ UNCHANGED <<queue, taken, appr, pressed, used>>
    BY <1>3 DEF HandleStarted
  <2>2. \A x \in {ReadCmd(g)} : Plain(x)
    BY DEF Plain, ReadCmd
  <2> QED BY <2>1, <2>2, PlainBecomes DEF SameTyped
<1>4. CASE \E n \in Messages, p \in BOOLEAN, s \in Sessions :
             RunRefused(g, n, p, s)
  <2>1. PICK n \in Messages, p \in BOOLEAN, s \in Sessions :
          RunRefused(g, n, p, s)
    BY <1>4
  <2>2. PICK ok \in BOOLEAN :
          /\ Queued(RunCmd(g, n, p, s))
          /\ Becomes(RunCmd(g, n, p, s), {RanMsg(g, ok)})
          /\ UNCHANGED <<queue, taken, appr, pressed, used>>
    BY <2>1 DEF RunRefused
  <2>3. \A x \in {RanMsg(g, ok)} : Plain(x)
    BY DEF Plain, RanMsg
  <2> QED BY <2>2, <2>3, PlainBecomes DEF SameTyped
<1> QED BY <1>1, <1>2, <1>3, <1>4

\* A message sent while a decision is awaited is dropped.
LEMMA DropPlain ==
  ASSUME MessageInv, NEW n \in Messages, HandleSendDrops(n)
  PROVE  Plainly
<1>1. /\ Queued(SendMsg(n)) /\ Becomes(SendMsg(n), {})
      /\ UNCHANGED <<queue, taken, appr, pressed, used>>
  BY DEF HandleSendDrops
<1> QED BY <1>1, PlainBecomes DEF SameTyped

\* Reading the stream and showing its events, up to the end of the stream.
LEMMA ReadPlain ==
  ASSUME MessageInv,
         \/ \E g \in {None} \cup Turns : BeginRead(g)
         \/ \E g \in Turns : ReadEvent(g)
         \/ HandleContent \/ HandleResult \/ HandleStatus \/ HandleProgress
         \/ HandleDiff \/ HandlePlanRequest \/ HandleError
  PROVE  Plainly
<1>0. /\ \A e : Plain(EventMsg(e))
      /\ \A g : Plain(ReadCmd(g)) /\ Plain(Reading(g))
  BY DEF Plain, EventMsg, ReadCmd, Reading
<1>1. CASE \E g \in {None} \cup Turns : BeginRead(g)
  <2>1. PICK g \in {None} \cup Turns : BeginRead(g)
    BY <1>1
  <2>2. Queued(ReadCmd(g)) /\ UNCHANGED <<queue, taken, appr, pressed, used>>
    BY <2>1 DEF BeginRead
  <2>3. PICK new \in {{EventMsg(Event("done"))}, {}, {Reading(g)}} :
          Becomes(ReadCmd(g), new)
    BY <2>1 DEF BeginRead
  <2>4. \A x \in new : Plain(x)
    BY <2>3, <1>0
  <2> QED BY <2>2, <2>3, <2>4, PlainBecomes DEF SameTyped
<1>2. CASE \E g \in Turns : ReadEvent(g)
  <2>1. PICK g \in Turns : ReadEvent(g)
    BY <1>2
  <2>2. Queued(Reading(g)) /\ UNCHANGED <<queue, taken, appr, pressed, used>>
    BY <2>1 DEF ReadEvent
  <2>3. PICK e \in {Event("done"), Head(evs[g])} :
          Becomes(Reading(g), {EventMsg(e)})
    BY <2>1 DEF ReadEvent
  <2> QED BY <2>2, <2>3, <1>0, PlainBecomes DEF SameTyped
<1>3. CASE HandleContent
  <2> DEFINE e == EventMsg(Event("content"))
  <2>1. Queued(e) /\ UNCHANGED <<queue, taken, appr, pressed, used>>
    BY <1>3 DEF HandleContent
  <2>2. PICK new \in {{}, {ReadCmd(ch)}} : Becomes(e, new)
    BY <1>3 DEF HandleContent
  <2>3. \A x \in new : Plain(x)
    BY <2>2, <1>0
  <2> QED BY <2>1, <2>2, <2>3, PlainBecomes DEF SameTyped
<1>4. CASE HandleResult
  <2> DEFINE e == EventMsg(Event("result"))
  <2>1. Queued(e) /\ UNCHANGED <<queue, taken, appr, pressed, used>>
    BY <1>4 DEF HandleResult
  <2>2. PICK new \in {{}, {ReadCmd(ch)}} : Becomes(e, new)
    BY <1>4 DEF HandleResult
  <2>3. \A x \in new : Plain(x)
    BY <2>2, <1>0
  <2> QED BY <2>1, <2>2, <2>3, PlainBecomes DEF SameTyped
<1>5. CASE HandleStatus \/ HandleProgress \/ HandleDiff
           \/ HandlePlanRequest \/ HandleError
  <2>1. PICK k \in {"status", "progress", "diff", "plan", "error"} :
          /\ Queued(EventMsg(Event(k))) /\ Becomes(EventMsg(Event(k)), {})
          /\ UNCHANGED <<queue, taken, appr, pressed, used>>
    BY <1>5 DEF HandleStatus, HandleProgress, HandleDiff, HandlePlanRequest,
                HandleError
  <2> QED BY <2>1, PlainBecomes DEF SameTyped
<1> QED BY <1>1, <1>2, <1>3, <1>4, <1>5

\* What the interface asked of the engine, and the results of its commands.
LEMMA AnswerPlain ==
  ASSUME MessageInv,
         \/ \E w \in {x \in DOMAIN work : "resume" \in DOMAIN x} :
               ResumeApproval(w)
         \/ \E b \in BOOLEAN : HandlePlanAnswer(b)
         \/ \E b \in BOOLEAN, s \in Sessions : ResumePlan(b, s)
         \/ \E s \in Sessions : SteerRuns(s)
         \/ HandleSlash
         \/ \E s \in {"thinking", "approval"} : HandleState(s)
  PROVE  Plainly
<1>0. /\ \A e : Plain(EventMsg(e))
      /\ \A s : Plain(StateMsg(s))
      /\ \A b, s : Plain(PlanCmd(b, s))
  BY DEF Plain, EventMsg, StateMsg, PlanCmd
<1>1. CASE \E w \in {x \in DOMAIN work : "resume" \in DOMAIN x} :
             ResumeApproval(w)
  <2>1. PICK w : ResumeApproval(w)
    BY <1>1
  <2>2. Queued(w) /\ UNCHANGED <<queue, taken, appr, pressed, used>>
    BY <2>1 DEF ResumeApproval
  <2>3. PICK x \in {StateMsg("approval"), StateMsg("thinking"),
                    EventMsg(Event("error"))} : Becomes(w, {x})
    BY <2>1 DEF ResumeApproval
  <2> QED BY <2>2, <2>3, <1>0, PlainBecomes DEF SameTyped
<1>2. CASE \E b \in BOOLEAN : HandlePlanAnswer(b)
  <2>1. PICK b \in BOOLEAN : HandlePlanAnswer(b)
    BY <1>2
  <2>2. /\ Queued(PlanMsg(b)) /\ Becomes(PlanMsg(b), {PlanCmd(b, session)})
        /\ UNCHANGED <<queue, taken, appr, pressed, used>>
    BY <2>1 DEF HandlePlanAnswer
  <2> QED BY <2>2, <1>0, PlainBecomes DEF SameTyped
<1>3. CASE \E b \in BOOLEAN, s \in Sessions : ResumePlan(b, s)
  <2>1. PICK b \in BOOLEAN, s \in Sessions : ResumePlan(b, s)
    BY <1>3
  <2>2. Queued(PlanCmd(b, s)) /\ UNCHANGED <<queue, taken, appr, pressed, used>>
    BY <2>1 DEF ResumePlan
  <2>3. PICK x \in {StateMsg("thinking"), EventMsg(Event("error"))} :
          Becomes(PlanCmd(b, s), {x})
    BY <2>1 DEF ResumePlan
  <2> QED BY <2>2, <2>3, <1>0, PlainBecomes DEF SameTyped
<1>4. CASE \E s \in Sessions : SteerRuns(s)
  <2>1. PICK s \in Sessions : SteerRuns(s)
    BY <1>4
  <2>2. Queued(SteerCmd(s)) /\ UNCHANGED <<queue, taken, appr, pressed, used>>
    BY <2>1 DEF SteerRuns
  <2>3. PICK x \in {StateMsg("thinking"), EventMsg(Event("error"))} :
          Becomes(SteerCmd(s), {x})
    BY <2>1 DEF SteerRuns
  <2> QED BY <2>2, <2>3, <1>0, PlainBecomes DEF SameTyped
<1>5. CASE HandleSlash
  <2>1. /\ Queued(SlashCmd) /\ Becomes(SlashCmd, {})
        /\ UNCHANGED <<queue, taken, appr, pressed, used>>
    BY <1>5 DEF HandleSlash
  <2> QED BY <2>1, PlainBecomes DEF SameTyped
<1>6. CASE \E s \in {"thinking", "approval"} : HandleState(s)
  <2>1. PICK s : /\ Queued(StateMsg(s)) /\ Becomes(StateMsg(s), {})
                 /\ UNCHANGED <<queue, taken, appr, pressed, used>>
    BY <1>6 DEF HandleState
  <2> QED BY <2>1, PlainBecomes DEF SameTyped
<1> QED BY <1>1, <1>2, <1>3, <1>4, <1>5, <1>6

\* The engine's own steps reach the interface by the events they send.
LEMMA EnginePlain ==
  ASSUME MessageInv, EngineNext
  PROVE  Plainly
<1>1. UNCHANGED <<work, queue, taken, appr, pressed>>
  BY DEF EngineNext, Chats, Asks, ShowsDiff, Decides, Reports, Plans,
         PlanApproved, Steered, Fails, Finishes, Frees, EngineFrame
<1>2. UNCHANGED used \/ Spend("chat")
  BY DEF EngineNext, Chats, Asks, ShowsDiff, Decides, Reports, Plans,
         PlanApproved, Steered, Fails, Finishes, Frees, EngineFrame
<1>3. SameTyped
  BY <1>2, SpendKeeps DEF SameTyped, MessageInv
<1> QED BY <1>1, <1>3, PlainStill


-----------------------------------------------------------------------------
(* Steps that move a drafted message. *)

\* A send and a run carry the message they are made for and no other.
LEMMA SendCarries ==
  ASSUME NEW n, NEW k
  PROVE  Carries(SendMsg(k), n) <=> n = k
BY DEF Carries, SendMsg

\* A run carries the message it was made for.
LEMMA RunCarries ==
  ASSUME NEW g, NEW p, NEW s, NEW n, NEW k
  PROVE  Carries(RunCmd(g, k, p, s), n) <=> n = k
BY DEF Carries, RunCmd

\* What carried a message and was taken from the bag leaves none behind; what
\* carries the others stays as it was, unless it goes too.
LEMMA MessageLeaves ==
  ASSUME MessageInv, NEW n \in Messages, NEW w, NEW new,
         Queued(w), Becomes(w, new), Carries(w, n), w \notin new,
         \A x \in new, k \in Messages : Carries(x, k) => k = n
  PROVE  /\ IsABag(work')
         /\ \A v \in DOMAIN work' : Carries(v, n) => v \in new
         /\ \A v \in DOMAIN work', k \in Messages \ {n} : Carries(v, k) =>
              /\ v \in DOMAIN work /\ work'[v] = 1
<1>1. /\ IsABag(work')
      /\ DOMAIN work' \subseteq DOMAIN work \cup new
      /\ \A x \in DOMAIN work \ new :
           x \in DOMAIN work' => work'[x] <= work[x]
      /\ work[w] = 1 /\ w \notin new => w \notin DOMAIN work'
  BY BecomesFacts DEF MessageInv
<1>2. w \in DOMAIN work
  BY DEF Queued
<1>3. work[w] = 1 /\ \A v \in DOMAIN work : Carries(v, n) => v = w
  BY <1>2 DEF MessageInv, Carried
<1>4. \A v \in DOMAIN work' : Carries(v, n) => v \in new
  BY <1>1, <1>3
<1>5. \A v \in DOMAIN work', k \in Messages \ {n} : Carries(v, k) =>
        /\ v \in DOMAIN work /\ work'[v] = 1
  <2> SUFFICES ASSUME NEW v \in DOMAIN work', NEW k \in Messages \ {n},
                      Carries(v, k)
               PROVE  v \in DOMAIN work /\ work'[v] = 1
    OBVIOUS
  <2>1. v \notin new
    OBVIOUS
  <2>2. v \in DOMAIN work /\ work'[v] <= work[v]
    BY <1>1, <2>1
  <2>3. work[v] = 1
    BY <2>2 DEF MessageInv, Carried
  <2>4. work'[v] \in Nat /\ work'[v] > 0
    BY <1>1 DEF IsABag
  <2> QED BY <2>2, <2>3, <2>4
<1> QED BY <1>1, <1>4, <1>5

\* Enter puts a message into the bag that was nowhere before.
LEMMA TypeMessages ==
  ASSUME MessageInv, Type
  PROVE  MessageInv'
<1> DEFINE m == used.typed + 1
<1>1. /\ m \in Messages /\ m \in Nat
      /\ Also(SendMsg(m)) /\ UNCHANGED <<queue, taken>>
      /\ used' = [used EXCEPT !["typed"] = @ + 1]
  BY DEF Type, Spend, MessageInv, Messages
<1>2. DOMAIN used' = DOMAIN used /\ used'.typed = m
  BY <1>1 DEF MessageInv
<1>3. /\ used.typed \in Nat /\ m = used.typed + 1
      /\ used'.typed \in 0..MaxTyped
  BY <1>1, <1>2 DEF MessageInv, Messages
<1> HIDE DEF m
<1>4. \A v \in DOMAIN work : ~Carries(v, m)
  BY <1>1, <1>3 DEF MessageInv, Carried
<1>5. ~Queued(SendMsg(m))
  BY <1>4, SendCarries DEF Queued
<1>6. /\ IsABag(work')
      /\ DOMAIN work' = DOMAIN work \cup {SendMsg(m)}
      /\ \A x \in DOMAIN work \ {SendMsg(m)} : work'[x] = work[x]
      /\ work'[SendMsg(m)] = 1
  BY <1>1, <1>5, AlsoFacts DEF MessageInv
<1>7. \A n \in Messages : n \in Nat
  BY DEF Messages
<1>8. taken[m] = 0 /\ \A i \in DOMAIN queue : queue[i] # m
  BY <1>1, <1>3 DEF MessageInv, InQueue
<1>9. Carried'
  <2> SUFFICES ASSUME NEW w \in DOMAIN work', NEW n \in Messages,
                      Carries(w, n)
               PROVE  /\ work'[w] = 1 /\ n <= used'.typed /\ taken'[n] = 0
                      /\ \A i \in DOMAIN queue' : queue'[i] # n
                      /\ \A v \in DOMAIN work' : Carries(v, n) => v = w
    BY DEF Carried, Carries
  <2>1. CASE w = SendMsg(m)
    <3>1. n = m
      BY <2>1, SendCarries
    <3> QED BY <2>1, <3>1, <1>1, <1>2, <1>3, <1>4, <1>6, <1>8
  <2>2. CASE w # SendMsg(m)
    <3>1. /\ w \in DOMAIN work /\ work[w] = 1 /\ n <= used.typed
          /\ taken[n] = 0 /\ \A i \in DOMAIN queue : queue[i] # n
          /\ \A v \in DOMAIN work : Carries(v, n) => v = w
      BY <2>2, <1>6 DEF MessageInv, Carried
    <3>2. n # m
      BY <3>1, <1>3, <1>7
    <3>3. ~Carries(SendMsg(m), n)
      BY <3>2, SendCarries
    <3>4. work'[w] = 1
      BY <3>1, <2>2, <1>6
    <3>5. n <= used'.typed
      BY <3>1, <1>2, <1>3, <1>7
    <3> QED BY <3>1, <3>3, <3>4, <3>5, <1>1, <1>6
  <2> QED BY <2>1, <2>2
<1>10. InQueue'
  <2>1. \A i \in DOMAIN queue : queue[i] <= used'.typed
    BY <1>2, <1>3 DEF MessageInv, InQueue, Messages
  <2> QED BY <2>1, <1>1 DEF MessageInv, InQueue
<1>11. \A n \in Messages : taken'[n] = 1 => n <= used'.typed
  BY <1>1, <1>2, <1>3, <1>7 DEF MessageInv
<1> QED BY <1>1, <1>2, <1>3, <1>6, <1>9, <1>10, <1>11 DEF MessageInv

\* A message sent during a turn goes from the bag to the end of the queue.
LEMMA QueueMessages ==
  ASSUME MessageInv, NEW n \in Messages, HandleSendQueues(n)
  PROVE  MessageInv'
<1> DEFINE w == SendMsg(n)
<1>1. /\ Queued(w) /\ Becomes(w, {}) /\ queue' = Append(queue, n)
      /\ UNCHANGED <<taken, used>>
  BY DEF HandleSendQueues
<1>2. Carries(w, n)
  BY SendCarries
<1>3. /\ IsABag(work')
      /\ \A v \in DOMAIN work' : ~Carries(v, n)
      /\ \A v \in DOMAIN work', k \in Messages \ {n} : Carries(v, k) =>
           v \in DOMAIN work /\ work'[v] = 1
  <2> HIDE DEF w
  <2> QED BY <1>1, <1>2, MessageLeaves
<1>4. /\ n <= used.typed /\ taken[n] = 0
      /\ \A i \in DOMAIN queue : queue[i] # n
  <2> HIDE DEF w
  <2> QED BY <1>1, <1>2 DEF MessageInv, Carried, Queued
<1>5. /\ queue' \in Seq(Messages) /\ Len(queue') = Len(queue) + 1
      /\ DOMAIN queue' = 1..(Len(queue) + 1) /\ DOMAIN queue = 1..Len(queue)
      /\ Len(queue) \in Nat
      /\ \A i \in 1..Len(queue) : queue'[i] = queue[i]
      /\ queue'[Len(queue) + 1] = n
  BY <1>1 DEF MessageInv
<1>6. Carried'
  <2> SUFFICES ASSUME NEW v \in DOMAIN work', NEW k \in Messages,
                      Carries(v, k)
               PROVE  /\ work'[v] = 1 /\ k <= used'.typed /\ taken'[k] = 0
                      /\ \A i \in DOMAIN queue' : queue'[i] # k
                      /\ \A u \in DOMAIN work' : Carries(u, k) => u = v
    BY DEF Carried, Carries
  <2>1. k # n
    BY <1>3
  <2>2. v \in DOMAIN work /\ work'[v] = 1
        /\ \A u \in DOMAIN work' : Carries(u, k) => u \in DOMAIN work
    BY <1>3, <2>1
  <2>3. /\ k <= used.typed /\ taken[k] = 0
        /\ \A i \in DOMAIN queue : queue[i] # k
        /\ \A u \in DOMAIN work : Carries(u, k) => u = v
    BY <2>2 DEF MessageInv, Carried
  <2>4. \A i \in DOMAIN queue' : queue'[i] # k
    BY <2>1, <2>3, <1>5
  <2> QED BY <2>2, <2>3, <2>4, <1>1
<1>7. InQueue'
  <2>1. \A i \in DOMAIN queue' :
          queue'[i] <= used'.typed /\ taken'[queue'[i]] = 0
    BY <1>1, <1>4, <1>5 DEF MessageInv, InQueue
  <2>2. \A i, j \in DOMAIN queue' : queue'[i] = queue'[j] => i = j
    BY <1>4, <1>5, SMTT(30) DEF MessageInv, InQueue
  <2> QED BY <2>1, <2>2 DEF InQueue
<1> QED BY <1>1, <1>3, <1>5, <1>6, <1>7 DEF MessageInv

\* A message that is sent is carried by the call of the engine from then on.
LEMMA StartMessages ==
  ASSUME MessageInv, NEW n \in Messages, NEW p, HandleSendStarts(n, p)
  PROVE  MessageInv'
<1> DEFINE w == SendMsg(n)
           x == RunCmd(gen', n, p, session)
<1>1. /\ Queued(w) /\ Becomes(w, {x}) /\ UNCHANGED <<queue, taken, used>>
  BY DEF HandleSendStarts
<1>2. Carries(w, n) /\ \A k : Carries(x, k) <=> k = n
  BY SendCarries, RunCarries
<1>3. w # x
  BY DEF SendMsg, RunCmd
<1> HIDE DEF w, x
<1>4. /\ IsABag(work')
      /\ \A v \in DOMAIN work' : Carries(v, n) => v = x
      /\ \A v \in DOMAIN work', k \in Messages \ {n} : Carries(v, k) =>
           v \in DOMAIN work /\ work'[v] = 1
  <2>1. w \notin {x} /\ \A y \in {x}, k \in Messages : Carries(y, k) => k = n
    BY <1>2, <1>3
  <2> QED BY <1>1, <1>2, <2>1, MessageLeaves
<1>5. /\ n <= used.typed /\ taken[n] = 0
      /\ \A i \in DOMAIN queue : queue[i] # n
      /\ \A v \in DOMAIN work : Carries(v, n) => v = w
  BY <1>1, <1>2 DEF MessageInv, Carried, Queued
<1>6. x \in DOMAIN work' /\ work'[x] = 1
  <2>1. x \in {x} \ DOMAIN work
    BY <1>2, <1>3, <1>5
  <2> QED BY <1>1, <2>1, BecomesFacts DEF MessageInv
<1>7. Carried'
  <2> SUFFICES ASSUME NEW v \in DOMAIN work', NEW k \in Messages,
                      Carries(v, k)
               PROVE  /\ work'[v] = 1 /\ k <= used'.typed /\ taken'[k] = 0
                      /\ \A i \in DOMAIN queue' : queue'[i] # k
                      /\ \A u \in DOMAIN work' : Carries(u, k) => u = v
    BY DEF Carried, Carries
  <2>1. CASE k = n
    BY <2>1, <1>1, <1>4, <1>5, <1>6
  <2>2. CASE k # n
    <3>1. v \in DOMAIN work /\ work'[v] = 1
          /\ \A u \in DOMAIN work' : Carries(u, k) => u \in DOMAIN work
      BY <1>4, <2>2
    <3>2. /\ k <= used.typed /\ taken[k] = 0
          /\ \A i \in DOMAIN queue : queue[i] # k
          /\ \A u \in DOMAIN work : Carries(u, k) => u = v
      BY <3>1 DEF MessageInv, Carried
    <3> QED BY <3>1, <3>2, <1>1
  <2> QED BY <2>1, <2>2
<1>8. InQueue'
  BY <1>1 DEF MessageInv, InQueue
<1> QED BY <1>1, <1>4, <1>7, <1>8 DEF MessageInv

\* A message for which a turn starts leaves the bag for good.
LEMMA RunMessages ==
  ASSUME MessageInv, NEW g, NEW n \in Messages, NEW p, NEW s,
         RunStarts(g, n, p, s)
  PROVE  MessageInv'
<1> DEFINE w == RunCmd(g, n, p, s)
<1>1. PICK x \in {RanMsg(g, ok) : ok \in BOOLEAN} :
        /\ Queued(w) /\ Becomes(w, {x})
        /\ taken' = [taken EXCEPT ![n] = @ + 1]
        /\ UNCHANGED <<queue, used>>
  <2>1. PICK y : y = RanMsg(g, TRUE)
    OBVIOUS
  <2>2. /\ Queued(w) /\ Becomes(w, {y})
        /\ taken' = [taken EXCEPT ![n] = @ + 1]
        /\ UNCHANGED <<queue, used>>
    BY <2>1 DEF RunStarts
  <2> QED BY <2>1, <2>2
<1>2. Carries(w, n)
  BY RunCarries
<1>3. w # x /\ \A k : ~Carries(x, k)
  <2>1. DOMAIN x = {"ran", "ok"}
    BY <1>1 DEF RanMsg
  <2>2. "of" \in DOMAIN w
    BY DEF RunCmd
  <2> HIDE DEF w
  <2> QED BY <2>1, <2>2 DEF Carries
<1> HIDE DEF w
<1>4. /\ IsABag(work')
      /\ \A v \in DOMAIN work' : ~Carries(v, n)
      /\ \A v \in DOMAIN work', k \in Messages \ {n} : Carries(v, k) =>
           v \in DOMAIN work /\ work'[v] = 1
  <2>1. w \notin {x} /\ \A y \in {x}, k \in Messages : Carries(y, k) => k = n
    BY <1>3
  <2> QED BY <1>1, <1>2, <1>3, <2>1, MessageLeaves
<1>5. /\ n <= used.typed /\ taken[n] = 0
      /\ \A i \in DOMAIN queue : queue[i] # n
  BY <1>1, <1>2 DEF MessageInv, Carried, Queued
<1>6. /\ taken' \in [Messages -> {0, 1}] /\ taken'[n] = 1
      /\ \A k \in Messages \ {n} : taken'[k] = taken[k]
  BY <1>1, <1>5 DEF MessageInv
<1>7. Carried'
  <2> SUFFICES ASSUME NEW v \in DOMAIN work', NEW k \in Messages,
                      Carries(v, k)
               PROVE  /\ work'[v] = 1 /\ k <= used'.typed /\ taken'[k] = 0
                      /\ \A i \in DOMAIN queue' : queue'[i] # k
                      /\ \A u \in DOMAIN work' : Carries(u, k) => u = v
    BY DEF Carried, Carries
  <2>1. k # n
    BY <1>4
  <2>2. v \in DOMAIN work /\ work'[v] = 1
        /\ \A u \in DOMAIN work' : Carries(u, k) => u \in DOMAIN work
    BY <1>4, <2>1
  <2>3. /\ k <= used.typed /\ taken[k] = 0
        /\ \A i \in DOMAIN queue : queue[i] # k
        /\ \A u \in DOMAIN work : Carries(u, k) => u = v
    BY <2>2 DEF MessageInv, Carried
  <2> QED BY <2>1, <2>2, <2>3, <1>1, <1>6
<1>8. InQueue'
  <2>1. \A i \in DOMAIN queue : queue[i] \in Messages
    BY DEF MessageInv
  <2> QED BY <2>1, <1>1, <1>5, <1>6 DEF MessageInv, InQueue
<1>9. \A k \in Messages : taken'[k] = 1 => k <= used'.typed
  BY <1>1, <1>5, <1>6 DEF MessageInv
<1> QED BY <1>1, <1>4, <1>6, <1>7, <1>8, <1>9 DEF MessageInv

\* At the end of a turn the first message of the queue is sent.
LEMMA DoneMessages ==
  ASSUME MessageInv, HandleDone
  PROVE  MessageInv'
<1> DEFINE e == EventMsg(Event("done"))
<1>1. /\ Queued(e) /\ queue' = Dequeued(queue) /\ UNCHANGED <<taken, used>>
      /\ Becomes(e, IF queue = <<>> THEN {} ELSE {SendMsg(Head(queue))})
  BY DEF HandleDone
<1>2. \A k : ~Carries(e, k)
  BY DEF EventMsg, Carries
<1> HIDE DEF e
<1>3. CASE queue = <<>>
  <2>1. Becomes(e, {}) /\ UNCHANGED <<queue, taken>> /\ SameTyped
    BY <1>1, <1>3 DEF Dequeued, SameTyped
  <2>2. Moved({})
    BY <1>1, <2>1, BecomesMoves DEF MessageInv
  <2> QED BY <2>1, <2>2, MovedMessages
<1>4. CASE queue # <<>>
  <2> DEFINE n == Head(queue)
             x == SendMsg(n)
  <2>1. /\ n \in Messages /\ n = queue[1] /\ 1 \in DOMAIN queue
        /\ queue' = Tail(queue)
    BY <1>1, <1>4 DEF MessageInv, Dequeued
  <2>2. \A k : Carries(x, k) <=> k = n
    BY SendCarries
  <2>3. Becomes(e, {x})
    BY <1>1, <1>4
  <2> HIDE DEF n, x
  <2>4. /\ queue' \in Seq(Messages) /\ DOMAIN queue = 1..Len(queue)
        /\ DOMAIN queue' = 1..(Len(queue) - 1) /\ Len(queue) \in Nat
        /\ \A i \in DOMAIN queue' : i + 1 \in DOMAIN queue
                                    /\ queue'[i] = queue[i + 1]
    BY <1>4, <2>1 DEF MessageInv
  <2>5. /\ n <= used.typed /\ taken[n] = 0
        /\ \A i \in DOMAIN queue' : queue'[i] # n
    <3>1. /\ queue[1] <= used.typed /\ taken[queue[1]] = 0
          /\ \A j \in DOMAIN queue : queue[1] = queue[j] => 1 = j
      BY <2>1 DEF MessageInv, InQueue
    <3>2. \A i \in DOMAIN queue' : i + 1 # 1
      BY <2>4
    <3> QED BY <2>1, <2>4, <3>1, <3>2
  <2>6. \A v \in DOMAIN work : ~Carries(v, n)
    BY <2>1 DEF MessageInv, Carried
  <2>7. x \notin DOMAIN work
    BY <2>2, <2>6
  <2>8. /\ IsABag(work')
        /\ DOMAIN work' \subseteq DOMAIN work \cup {x}
        /\ \A y \in DOMAIN work \ {x} :
             y \in DOMAIN work' => work'[y] <= work[y]
        /\ x \in DOMAIN work' /\ work'[x] = 1
    BY <1>1, <2>3, <2>7, BecomesFacts DEF MessageInv
  <2>9. Carried'
    <3> SUFFICES ASSUME NEW v \in DOMAIN work', NEW k \in Messages,
                        Carries(v, k)
                 PROVE  /\ work'[v] = 1 /\ k <= used'.typed /\ taken'[k] = 0
                        /\ \A i \in DOMAIN queue' : queue'[i] # k
                        /\ \A u \in DOMAIN work' : Carries(u, k) => u = v
      BY DEF Carried, Carries
    <3>1. CASE v = x
      <4>1. k = n
        BY <2>2, <3>1
      <4>2. \A u \in DOMAIN work' : Carries(u, n) => u = x
        BY <2>6, <2>8
      <4> QED BY <3>1, <4>1, <4>2, <1>1, <2>5, <2>8
    <3>2. CASE v # x
      <4>1. v \in DOMAIN work /\ work'[v] <= work[v]
        BY <2>8, <3>2
      <4>2. /\ work[v] = 1 /\ k <= used.typed /\ taken[k] = 0
            /\ \A i \in DOMAIN queue : queue[i] # k
            /\ \A u \in DOMAIN work : Carries(u, k) => u = v
        BY <4>1 DEF MessageInv, Carried
      <4>3. work'[v] \in Nat /\ work'[v] > 0
        BY <2>8 DEF IsABag
      <4>4. work'[v] = 1
        BY <4>1, <4>2, <4>3
      <4>5. k # n
        BY <4>1, <2>6
      <4>6. \A u \in DOMAIN work' : Carries(u, k) => u = v
        BY <2>2, <2>8, <4>2, <4>5
      <4> QED BY <4>2, <4>4, <4>6, <1>1, <2>4
    <3> QED BY <3>1, <3>2
  <2>10. InQueue'
    <3>1. \A i \in DOMAIN queue' :
            queue'[i] <= used'.typed /\ taken'[queue'[i]] = 0
      BY <1>1, <2>4 DEF MessageInv, InQueue
    <3>2. \A i, j \in DOMAIN queue' : queue'[i] = queue'[j] => i = j
      <4>1. \A i, j \in DOMAIN queue' : queue[i + 1] = queue[j + 1] =>
              i + 1 = j + 1
        BY <2>4 DEF MessageInv, InQueue
      <4> QED BY <2>4, <4>1
    <3> QED BY <3>1, <3>2 DEF InQueue
  <2> QED BY <1>1, <2>4, <2>8, <2>9, <2>10 DEF MessageInv
<1> QED BY <1>3, <1>4


-----------------------------------------------------------------------------
(* Steps that move a decision. *)

\* The decisions `dec` for request r are the user's.
Chosen(r, dec) ==
  \/ \E c \in Calls : <<r, c, "always">> \in pressed
  \/ \A c \in DOMAIN dec : dec[c] # "diff" => <<r, c, dec[c]>> \in pressed

\* A batch is a sequence of calls.
LEMMA BatchType ==
  ASSUME NEW r \in Requests
  PROVE  Batches[r] \in Seq(Calls) /\ Len(Batches[r]) \in Nat \ {0}
<1>1. Batches[r] \in Seq(Calls) \ {<<>>}
  BY DEF Requests
<1> QED BY <1>1

\* Without a request there is nothing to decide.
LEMMA NoneActive ==
  ~Active(NoRequest) /\ CallsOf(NoRequest) = {}
<1>1. NoRequest.calls = <<>> /\ NoRequest.index = 1
  BY DEF NoRequest
<1>2. CallsOf(NoRequest) = {}
  BY <1>1 DEF CallsOf
<1> QED BY <1>1, <1>2 DEF Active

\* A key that was pressed for the call now shown was pressed for the request
\* now shown: no call is in two batches.
LEMMA SameRequest ==
  ASSUME DOMAIN appr = DOMAIN NoRequest, Deciding(appr),
         NEW r, NEW call, NEW d, Pressed(r, call, d), Current(appr) = call
  PROVE  <<appr.req, call, d>> \in pressed
<1>1. PICK i \in DOMAIN Batches[r] : Batches[r][i] = call
  BY DEF Pressed
<1>2. /\ appr.index \in DOMAIN Batches[appr.req]
      /\ Batches[appr.req][appr.index] = call
  BY BatchType DEF Deciding, Current
<1>3. r \in Requests /\ appr.req \in Requests
  BY DEF Pressed, Deciding
<1>4. r = appr.req
  BY <1>1, <1>2, <1>3
<1> QED BY <1>4 DEF Pressed

\* handleResponse, for a key that was pressed: the controller stays at a call
\* whose predecessors are decided, and what it sends is the user's choice.
LEMMA ResponseChosen ==
  ASSUME \/ appr = NoRequest
         \/ DOMAIN appr = DOMAIN NoRequest /\ Deciding(appr),
         NEW q, NEW call, NEW d, Pressed(q, call, d), d # "diff",
         NEW r, r = Response(appr, call, d)
  PROVE  /\ ~r.final => \/ r.ctl = NoRequest
                        \/ DOMAIN r.ctl = DOMAIN NoRequest /\ Deciding(r.ctl)
         /\ r.final => Chosen(appr.req, r.dec)
<1>1. CASE appr = NoRequest
  <2>1. ~Active(appr) /\ CallsOf(appr) = {}
    BY <1>1, NoneActive
  <2>2. CASE d = "always"
    <3>1. r = [ctl |-> appr, final |-> TRUE, dec |-> Always(appr)]
      BY <2>1, <2>2 DEF Response
    <3>2. DOMAIN Always(appr) = {}
      BY <2>1 DEF Always
    <3> QED BY <3>1, <3>2 DEF Chosen
  <2>3. CASE d # "always"
    <3>1. r = [ctl |-> appr, final |-> FALSE, dec |-> <<>>]
      BY <2>1, <2>3 DEF Response
    <3> QED BY <3>1, <1>1
  <2> QED BY <2>2, <2>3
<1>2. CASE DOMAIN appr = DOMAIN NoRequest /\ Deciding(appr)
  <2>0. /\ appr.req \in Requests /\ appr.calls = Batches[appr.req]
        /\ appr.calls \in Seq(Calls) /\ Len(appr.calls) \in Nat
        /\ appr.index \in 1..Len(appr.calls)
    BY <1>2, BatchType DEF Deciding
  <2>1. Active(appr)
    BY <2>0 DEF Active
  <2>2. CASE Current(appr) # call
    <3>1. ~Matches(appr, call)
      BY <2>2 DEF Matches
    <3>2. r = [ctl |-> appr, final |-> FALSE, dec |-> <<>>]
      BY <2>1, <3>1 DEF Response
    <3> QED BY <3>2, <1>2
  <2>3. CASE Current(appr) = call
    <3>1. Matches(appr, call) /\ <<appr.req, call, d>> \in pressed
      BY <2>1, <2>3, <1>2, SameRequest DEF Matches
    <3>2. CASE d = "always"
      <4>1. r = [ctl |-> appr, final |-> TRUE, dec |-> Always(appr)]
        BY <2>1, <3>1, <3>2 DEF Response
      <4>2. call \in Calls
        BY <2>0, <2>3 DEF Current
      <4>3. Chosen(appr.req, Always(appr))
        BY <3>1, <3>2, <4>2 DEF Chosen
      <4> QED BY <4>1, <4>3
    <3>3. CASE d # "always"
      <4> DEFINE after == Recorded(appr, call, d)
                 decided == [c \in DOMAIN appr.dec \cup {call} |->
                               IF c = call THEN d ELSE appr.dec[c]]
      <4>1. r = [ctl |-> after, final |-> Complete(after), dec |-> Built(after)]
        BY <2>1, <3>1, <3>3 DEF Response
      <4>2. after = [appr EXCEPT !.index = appr.index + 1, !.dec = decided]
        BY DEF Recorded
      <4>3. /\ DOMAIN after = DOMAIN NoRequest
            /\ after.req = appr.req /\ after.calls = appr.calls
            /\ after.index = appr.index + 1 /\ after.dec = decided
        BY <4>2, <1>2 DEF NoRequest
      <4>4. /\ DOMAIN decided = DOMAIN appr.dec \cup {call}
            /\ \A c \in DOMAIN decided : <<appr.req, c, decided[c]>> \in pressed
        BY <1>2, <3>1 DEF Deciding
      <4>5. DOMAIN decided = {appr.calls[i] : i \in 1..appr.index}
        <5>1. DOMAIN appr.dec = {appr.calls[i] : i \in 1..(appr.index - 1)}
          BY <1>2 DEF Deciding
        <5>2. call = appr.calls[appr.index]
          BY <2>3 DEF Current
        <5>3. 1..appr.index = 1..(appr.index - 1) \cup {appr.index}
          BY <2>0
        <5> HIDE DEF decided
        <5>4. {appr.calls[i] : i \in 1..appr.index} =
                {appr.calls[i] : i \in 1..(appr.index - 1)}
                  \cup {appr.calls[appr.index]}
          <6> DEFINE A == 1..(appr.index - 1)
                     i0 == appr.index
                     C == appr.calls
          <6>1. 1..appr.index = A \cup {i0}
            BY <5>3
          <6> HIDE DEF A, i0, C
          <6>2. {C[i] : i \in A \cup {i0}} = {C[i] : i \in A} \cup {C[i0]}
            OBVIOUS
          <6> QED BY <6>1, <6>2 DEF A, i0, C
        <5> QED BY <4>4, <5>1, <5>2, <5>4, Zenon
      <4> HIDE DEF decided, after
      <4>6. CASE ~Complete(after)
        <5>1. after.index \in 1..Len(after.calls)
          BY <2>0, <4>3, <4>6 DEF Complete
        <5>2. after.index - 1 = appr.index
          BY <2>0, <4>3
        <5>3. DOMAIN after.dec = {after.calls[i] : i \in 1..(after.index - 1)}
          BY <4>3, <4>5, <5>2
        <5>4. \A c \in DOMAIN after.dec :
                <<after.req, c, after.dec[c]>> \in pressed
          BY <4>3, <4>4
        <5>5. Deciding(after)
          BY <2>0, <4>3, <5>1, <5>3, <5>4 DEF Deciding
        <5> QED BY <4>1, <4>3, <4>6, <5>5
      <4>7. CASE Complete(after)
        <5>1. appr.index = Len(appr.calls)
          BY <2>0, <4>3, <4>7 DEF Complete
        <5>2. CallsOf(after) = DOMAIN after.dec
          BY <2>0, <4>3, <4>5, <5>1 DEF CallsOf
        <5>3. /\ DOMAIN Built(after) = DOMAIN decided
              /\ \A c \in DOMAIN decided : Built(after)[c] = decided[c]
          BY <5>2, <4>3 DEF Built
        <5> QED BY <4>1, <4>4, <4>7, <5>3 DEF Chosen
      <4> QED BY <4>6, <4>7
    <3> QED BY <3>2, <3>3
  <2> QED BY <2>2, <2>3
<1> QED BY <1>1, <1>2

\* A key in the dialog answers for the call shown at that moment.
LEMMA KeyApprovals ==
  ASSUME ApprovalInv, MessageInv, NEW d \in Decisions, Key(d)
  PROVE  ApprovalInv'
<1>0. PICK c : c = Current(appr)
  OBVIOUS
<1>00. PICK w : w = ResponseMsg(c, d)
  OBVIOUS
<1>1. /\ Active(appr) /\ Also(w) /\ UNCHANGED appr
      /\ pressed' = pressed \cup {<<appr.req, c, d>>}
  BY <1>0, <1>00 DEF Key
<1>2. DOMAIN appr = DOMAIN NoRequest /\ Deciding(appr)
  BY <1>1, NoneActive DEF ApprovalInv
<1>3. appr.req \in Requests /\ Pressed(appr.req, c, d)'
  <2>1. /\ appr.req \in Requests /\ appr.index \in DOMAIN Batches[appr.req]
        /\ Batches[appr.req][appr.index] = c
    BY <1>0, <1>2, BatchType DEF Deciding, Current
  <2> QED BY <1>1, <2>1 DEF Pressed
<1>4. /\ DOMAIN w = {"respond", "call"} /\ w.call = c /\ w.respond = d
  BY <1>00 DEF ResponseMsg
<1>5. DOMAIN work' = DOMAIN work \cup {w}
  BY <1>1, AlsoFacts DEF MessageInv
<1>6. Deciding(appr)'
  BY <1>1, <1>2 DEF Deciding
<1>7. \A v \in DOMAIN work' : "respond" \in DOMAIN v =>
        \E r \in Requests : Pressed(r, v.call, v.respond)'
  <2> SUFFICES ASSUME NEW v \in DOMAIN work', "respond" \in DOMAIN v
               PROVE  \E r \in Requests : Pressed(r, v.call, v.respond)'
    OBVIOUS
  <2>1. CASE v = w
    <3>1. v.call = c /\ v.respond = d /\ appr' = appr
      BY <1>1, <1>4, <2>1
    <3> QED BY <1>3, <3>1
  <2>2. CASE v # w
    <3>1. PICK r \in Requests : Pressed(r, v.call, v.respond)
      BY <1>5, <2>2 DEF ApprovalInv
    <3>2. Pressed(r, v.call, v.respond)'
      BY <1>1, <3>1 DEF Pressed
    <3> QED BY <3>2
  <2> QED BY <2>1, <2>2
<1>8. AnswersChosen'
  <2> SUFFICES ASSUME NEW v \in DOMAIN work', "resume" \in DOMAIN v
               PROVE  Chosen(v.resume, v.dec)'
    BY DEF AnswersChosen, Chosen
  <2>1. v \in DOMAIN work
    BY <1>4, <1>5
  <2>2. Chosen(v.resume, v.dec)
    BY <2>1 DEF ApprovalInv, AnswersChosen, Chosen
  <2>3. pressed \subseteq pressed'
    BY <1>1
  <2> QED BY <2>2, <2>3 DEF Chosen
<1> QED BY <1>1, <1>2, <1>6, <1>7, <1>8 DEF ApprovalInv

\* A request of the engine opens a new batch at its first call.
LEMMA AskApprovals ==
  ASSUME ApprovalInv, MessageInv, NEW q \in Requests,
         HandleAsk(q, Batches[q])
  PROVE  ApprovalInv'
<1> DEFINE e == EventMsg(AskEvent(q, Batches[q]))
<1>1. /\ Queued(e) /\ Becomes(e, {ReadCmd(ch)})
      /\ appr' = Request(Batches[q], q) /\ UNCHANGED pressed
  BY DEF HandleAsk
<1> HIDE DEF e
<1>2. DOMAIN work' \subseteq DOMAIN work \cup {ReadCmd(ch)}
  BY <1>1, BecomesFacts DEF MessageInv
<1>3. /\ "respond" \notin DOMAIN ReadCmd(ch)
      /\ "resume" \notin DOMAIN ReadCmd(ch)
  BY DEF ReadCmd
<1>4. DOMAIN appr' = DOMAIN NoRequest /\ Deciding(appr)'
  <2>1. /\ DOMAIN appr' = DOMAIN NoRequest /\ appr'.req = q
        /\ appr'.calls = Batches[q] /\ appr'.index = 1 /\ appr'.dec = <<>>
    BY <1>1 DEF Request, NoRequest
  <2>2. 1 \in 1..Len(Batches[q])
    BY BatchType
  <2>3. DOMAIN appr'.dec = {Batches[q][i] : i \in 1..0}
    BY <2>1
  <2> QED BY <2>1, <2>2, <2>3 DEF Deciding
<1>5. AnswersChosen'
  BY <1>1, <1>2, <1>3 DEF ApprovalInv, AnswersChosen
<1>6. \A w \in DOMAIN work' : "respond" \in DOMAIN w =>
        \E r \in Requests : Pressed(r, w.call, w.respond)'
  BY <1>1, <1>2, <1>3 DEF ApprovalInv, Pressed
<1> QED BY <1>4, <1>5, <1>6 DEF ApprovalInv

\* handleApprovalResponse: in each case the elements that come are reads, or
\* carry decisions the user chose.
LEMMA ResponseApprovals ==
  ASSUME ApprovalInv, MessageInv, NEW call \in Calls, NEW d \in Decisions,
         \/ HandleMoreToDecide(call, d)
         \/ HandleDecided(call, d)
         \/ HandleDiffKey(call)
  PROVE  ApprovalInv'
<1> DEFINE r == Response(appr, call, d)
           Answer(dec) == {ResumeCmd(appr.req, dec), ReadCmd(ch)}
<1>1. ASSUME NEW new, NEW w, "respond" \in DOMAIN w, NEW dec,
             Queued(w), Becomes(w, new), new \in {{}, Answer(dec)},
             Chosen(appr.req, dec), UNCHANGED pressed
      PROVE  /\ AnswersChosen'
             /\ \A v \in DOMAIN work' : "respond" \in DOMAIN v =>
                  \E q \in Requests : Pressed(q, v.call, v.respond)'
  <2>1. DOMAIN work' \subseteq DOMAIN work \cup new
    BY <1>1, BecomesFacts DEF MessageInv
  <2>2. /\ DOMAIN ReadCmd(ch) = {"read"}
        /\ DOMAIN ResumeCmd(appr.req, dec) = {"resume", "dec", "ses"}
        /\ ResumeCmd(appr.req, dec).resume = appr.req
        /\ ResumeCmd(appr.req, dec).dec = dec
    BY DEF ReadCmd, ResumeCmd
  <2>3. \A v \in DOMAIN work' :
          v \in DOMAIN work \/ v = ReadCmd(ch) \/ v = ResumeCmd(appr.req, dec)
    BY <1>1, <2>1
  <2>4. AnswersChosen'
    BY <1>1, <2>2, <2>3 DEF ApprovalInv, AnswersChosen, Chosen
  <2>5. \A v \in DOMAIN work' : "respond" \in DOMAIN v =>
          \E q \in Requests : Pressed(q, v.call, v.respond)'
    <3> SUFFICES ASSUME NEW v \in DOMAIN work', "respond" \in DOMAIN v
                 PROVE  \E q \in Requests : Pressed(q, v.call, v.respond)'
      OBVIOUS
    <3>1. v \in DOMAIN work
      BY <2>2, <2>3
    <3>2. PICK q \in Requests : Pressed(q, v.call, v.respond)
      BY <3>1 DEF ApprovalInv
    <3>3. Pressed(q, v.call, v.respond)'
      BY <1>1, <3>2 DEF Pressed
    <3> QED BY <3>3
  <2> QED BY <2>4, <2>5
<1>2. ASSUME NEW j, Queued(ResponseMsg(call, j))
      PROVE  /\ "respond" \in DOMAIN ResponseMsg(call, j)
             /\ \E q \in Requests : Pressed(q, call, j)
  BY <1>2 DEF ApprovalInv, Queued, ResponseMsg
<1>3. CASE HandleMoreToDecide(call, d)
  <2>1. /\ Queued(ResponseMsg(call, d)) /\ d # "diff" /\ ~r.final
        /\ Becomes(ResponseMsg(call, d), {})
        /\ appr' = r.ctl /\ UNCHANGED pressed
    BY <1>3 DEF HandleMoreToDecide
  <2>2. PICK q \in Requests : Pressed(q, call, d)
    BY <1>2, <2>1
  <2>3. \/ appr' = NoRequest
        \/ DOMAIN appr' = DOMAIN NoRequest /\ Deciding(appr')
    BY <2>1, <2>2, ResponseChosen DEF ApprovalInv
  <2>4. Chosen(appr.req, <<>>)
    BY DEF Chosen
  <2>5. Deciding(appr') => Deciding(appr)'
    BY <2>1 DEF Deciding
  <2> HIDE DEF Answer, r
  <2> QED BY <1>1, <1>2, <2>1, <2>3, <2>4, <2>5 DEF ApprovalInv
<1>4. CASE HandleDecided(call, d)
  <2>1. /\ Queued(ResponseMsg(call, d)) /\ r.final
        /\ Becomes(ResponseMsg(call, d), Answer(r.dec))
        /\ appr' = NoRequest /\ UNCHANGED pressed
    BY <1>4 DEF HandleDecided, Cleared
  <2>2. PICK q \in Requests : Pressed(q, call, d)
    BY <1>2, <2>1
  <2>3. d # "diff"
    BY <2>1 DEF Response
  <2>4. Chosen(appr.req, r.dec)
    BY <2>1, <2>2, <2>3, ResponseChosen DEF ApprovalInv
  <2> HIDE DEF Answer, r
  <2> QED BY <1>1, <1>2, <2>1, <2>4 DEF ApprovalInv
<1>5. CASE HandleDiffKey(call)
  <2> DEFINE look == [c \in {call} |-> "diff"]
  <2>1. /\ Queued(ResponseMsg(call, "diff"))
        /\ Becomes(ResponseMsg(call, "diff"), Answer(look))
        /\ UNCHANGED <<appr, pressed>>
    BY <1>5 DEF HandleDiffKey
  <2>2. Chosen(appr.req, look)
    BY DEF Chosen
  <2>3. Deciding(appr) => Deciding(appr)'
    BY <2>1 DEF Deciding
  <2> HIDE DEF Answer, look
  <2> QED BY <1>1, <1>2, <2>1, <2>2, <2>3 DEF ApprovalInv
<1> QED BY <1>3, <1>4, <1>5


-----------------------------------------------------------------------------
(* The invariant is kept. *)

\* Every step keeps the stream and the cancel function of the last send.
LEMMA ScreenStep ==
  ASSUME ScreenInv, EngineInv, MessageInv, [Next]_vars
  PROVE  ScreenInv'
<1> USE DEF ScreenInv, LatestStream
<1>1. CASE UserNext
  BY <1>1 DEF UserNext, Type, Key, PlanKey, Slash, Steer, Cancel
<1>2. CASE SendNext
  <2>1. CASE \E n \in Messages, p \in BOOLEAN : HandleSendStarts(n, p)
    <3>1. /\ gen < MaxTurns /\ gen' = gen + 1
          /\ holds' = gen' /\ ch' = None
          /\ state' = "thinking" /\ stopped' = FALSE /\ plan' = plan
      BY <2>1 DEF HandleSendStarts
    <3>2. gen' \in 0..MaxTurns
      BY <3>1
    <3> QED BY <3>1, <3>2
  <2> QED BY <1>2, <2>1 DEF SendNext, HandleSendQueues, HandleSendDrops
<1>3. CASE RunNext
  <2>1. PICK g \in Turns :
          \/ \E ok \in BOOLEAN : HandleStale(g, ok)
          \/ HandleRefused(g)
          \/ HandleStarted(g)
          \/ \E n \in Messages, p \in BOOLEAN, s \in Sessions :
                RunRefused(g, n, p, s) \/ RunStarts(g, n, p, s)
    BY <1>3 DEF RunNext
  <2>2. CASE HandleRefused(g) \/ HandleStarted(g)
    BY <2>2 DEF HandleRefused, HandleStarted, IsCurrent
  <2>3. CASE \E ok \in BOOLEAN : HandleStale(g, ok)
    BY <2>3 DEF HandleStale
  <2>4. CASE \E n \in Messages, p \in BOOLEAN, s \in Sessions :
               RunRefused(g, n, p, s) \/ RunStarts(g, n, p, s)
    BY <2>4 DEF RunRefused, RunStarts
  <2> QED BY <2>1, <2>2, <2>3, <2>4
<1>4. CASE ReadNext
  BY <1>4 DEF ReadNext, BeginRead, ReadEvent, HandleContent, HandleResult,
              HandleStatus, HandleProgress, HandleDiff, HandlePlanRequest,
              HandleError,
              HandleDone
<1>5. CASE AnswerNext
  <2>1. UNCHANGED <<gen, holds, ch, stopped>>
    BY <1>5 DEF AnswerNext, HandleAsk, HandleMoreToDecide, HandleDecided,
                HandleDiffKey, ResumeApproval, HandlePlanAnswer, ResumePlan,
                SteerRuns, HandleSlash, HandleState
  <2>2. plan' \in {plan, FALSE}
    BY <1>5 DEF AnswerNext, HandleAsk, HandleMoreToDecide, HandleDecided,
                HandleDiffKey, ResumeApproval, HandlePlanAnswer, ResumePlan,
                SteerRuns, HandleSlash, HandleState
  <2>3. state' \in {state, "idle", "thinking", "approval", "error"}
    BY <1>5 DEF AnswerNext, HandleAsk, HandleMoreToDecide, HandleDecided,
                HandleDiffKey, ResumeApproval, HandlePlanAnswer, ResumePlan,
                SteerRuns, HandleSlash, HandleState
  <2> QED BY <2>1, <2>2, <2>3
<1>6. CASE EngineNext
  BY <1>6 DEF EngineNext, Chats, Asks, ShowsDiff, Decides, Reports, Plans,
              PlanApproved, Steered, Fails, Finishes, Frees, EngineFrame
<1>7. CASE UNCHANGED vars
  BY <1>7 DEF vars
<1> QED BY <1>1, <1>2, <1>3, <1>4, <1>5, <1>6, <1>7 DEF Next

\* Every step keeps the engine's record and its turns.
LEMMA EngineStep ==
  ASSUME ScreenInv, EngineInv, MessageInv, [Next]_vars
  PROVE  EngineInv'
<1> USE DEF EngineInv
<1>0. {holds} \ {None} \subseteq Turns
  BY DEF ScreenInv, LatestStream, Turns, None
<1>1. CASE UserNext
  BY <1>0, <1>1 DEF UserNext, Type, Key, PlanKey, Slash, Steer, Cancel
<1>2. CASE SendNext
  BY <1>2 DEF SendNext, HandleSendQueues, HandleSendDrops, HandleSendStarts
<1>3. CASE RunNext
  <2>1. PICK g \in Turns :
          \/ \E ok \in BOOLEAN : HandleStale(g, ok)
          \/ HandleRefused(g)
          \/ HandleStarted(g)
          \/ \E n \in Messages, p \in BOOLEAN, s \in Sessions :
                RunRefused(g, n, p, s) \/ RunStarts(g, n, p, s)
    BY <1>3 DEF RunNext
  <2>2. CASE \E n \in Messages, p \in BOOLEAN, s \in Sessions :
                RunStarts(g, n, p, s)
    <3>1. PICK n \in Messages, p \in BOOLEAN, s \in Sessions :
            RunStarts(g, n, p, s)
      BY <2>2
    <3>2. /\ eng' = [Off EXCEPT !.at = "model", !.turn = g, !.plan = p,
                                !.req = eng.req, !.ses = s]
          /\ UNCHANGED <<ended, done>>
      BY <3>1 DEF RunStarts
    <3>3. /\ DOMAIN eng' = DOMAIN Off /\ eng'.at = "model"
          /\ eng'.turn = g /\ eng'.req = eng.req
      BY <3>2 DEF Off
    <3> QED BY <3>2, <3>3
  <2>3. CASE ~\E n \in Messages, p \in BOOLEAN, s \in Sessions :
                RunStarts(g, n, p, s)
    <3>1. CASE HandleRefused(g) \/ \E ok \in BOOLEAN : HandleStale(g, ok)
      <4>1. UNCHANGED <<eng, ended>> /\ done' = done \cup {g}
        BY <3>1 DEF HandleStale, HandleRefused
      <4> QED BY <4>1
    <3>2. CASE \/ HandleStarted(g)
               \/ \E n \in Messages, p \in BOOLEAN, s \in Sessions :
                     RunRefused(g, n, p, s)
      <4>1. UNCHANGED <<eng, ended, done>>
        BY <3>2 DEF HandleStarted, RunRefused
      <4> QED BY <4>1
    <3> QED BY <2>1, <2>3, <3>1, <3>2
  <2> QED BY <2>2, <2>3
<1>4. CASE ReadNext
  BY <1>0, <1>4 DEF ReadNext, BeginRead, ReadEvent, HandleContent,
              HandleResult, HandleStatus, HandleProgress, HandleDiff,
              HandlePlanRequest,
              HandleError, HandleDone
<1>5. CASE AnswerNext
  <2>1. CASE UNCHANGED engVars /\ UNCHANGED done
    BY <2>1
  <2>2. CASE /\ UNCHANGED <<ended, done>>
             /\ \/ eng' = eng
                \/ \E v : eng' = [eng EXCEPT !.box = v]
                \/ \E v : eng' = [eng EXCEPT !.planBox = v]
                \/ \E v : eng' = [eng EXCEPT !.steer = v]
    <3>1. DOMAIN eng' = DOMAIN eng /\ eng'.at = eng.at
          /\ eng'.turn = eng.turn /\ eng'.req = eng.req
      BY <2>2 DEF Off
    <3> QED BY <3>1, <2>2
  <2>3. CASE \E w \in {x \in DOMAIN work : "resume" \in DOMAIN x} :
               ResumeApproval(w)
    BY <2>3, <2>2 DEF ResumeApproval
  <2>4. CASE \E b \in BOOLEAN, s \in Sessions : ResumePlan(b, s)
    BY <2>4, <2>2 DEF ResumePlan
  <2>5. CASE \E s \in Sessions : SteerRuns(s)
    BY <2>5, <2>2 DEF SteerRuns
  <2> QED BY <1>5, <2>1, <2>3, <2>4, <2>5
          DEF AnswerNext, HandleAsk, HandleMoreToDecide, HandleDecided,
              HandleDiffKey, HandlePlanAnswer, HandleSlash, HandleState
<1>6. CASE EngineNext
  <2>1. UNCHANGED done
    BY <1>6 DEF EngineNext, Chats, Asks, ShowsDiff, Decides, Reports, Plans,
                PlanApproved, Steered, Fails, Finishes, Frees, EngineFrame
  <2>2. CASE \E r \in Requests : Asks(r)
    <3>1. PICK r \in Requests : Asks(r)
      BY <2>2
    <3>2. /\ eng' = [eng EXCEPT !.at = "asked", !.req = r,
                                !.calls = Batches[r]]
          /\ eng.at = "model" /\ UNCHANGED ended
      BY <3>1 DEF Asks, EngineFrame
    <3>3. DOMAIN eng' = DOMAIN eng /\ eng'.at = "asked"
          /\ eng'.turn = eng.turn /\ eng'.req = r
      BY <3>2 DEF Off
    <3>4. r \in 0..Len(Batches)
      BY DEF Requests
    <3> QED BY <2>1, <3>2, <3>3, <3>4
  <2>3. CASE Frees
    <3>1. /\ eng' = [Off EXCEPT !.req = eng.req] /\ eng.turn \in Turns
          /\ ended' = ended \cup {eng.turn}
      BY <2>3 DEF Frees
    <3>2. DOMAIN eng' = DOMAIN Off /\ eng'.at = "off" /\ eng'.turn = None
          /\ eng'.req = eng.req
      BY <3>1 DEF Off
    <3> QED BY <2>1, <3>1, <3>2
  <2>4. CASE \/ \E k \in Chat : Chats(k)
             \/ ShowsDiff \/ Decides \/ Reports \/ Plans \/ PlanApproved
             \/ Steered \/ Fails \/ Finishes
    <3>1. /\ DOMAIN eng' = DOMAIN eng /\ eng'.turn = eng.turn
          /\ eng'.req = eng.req
          /\ eng'.at \in {"model", "asked", "running", "planned", "over"}
          /\ eng.at # "off"
      BY <2>4 DEF Chats, ShowsDiff, Decides, Reports, Plans, PlanApproved,
                  Steered, Fails, Finishes, EngineFrame, Off
    <3>2. UNCHANGED ended
      BY <2>4 DEF Chats, ShowsDiff, Decides, Reports, Plans, PlanApproved,
                  Steered, Fails, Finishes, EngineFrame
    <3> QED BY <2>1, <3>1, <3>2
  <2> QED BY <1>6, <2>2, <2>3, <2>4 DEF EngineNext
<1>7. CASE UNCHANGED vars
  BY <1>7 DEF vars
<1> QED BY <1>1, <1>2, <1>3, <1>4, <1>5, <1>6, <1>7 DEF Next

\* The messages and the decisions: a step is plain, or one of those above.
LEMMA HistoryStep ==
  ASSUME MessageInv, ApprovalInv, [Next]_vars
  PROVE  MessageInv' /\ ApprovalInv'
<1>1. CASE Plainly
  BY <1>1, PlainlyKeeps
<1>2. ASSUME NEW new, Moved(new), UNCHANGED <<appr, pressed>>,
             \A x \in new : /\ "respond" \notin DOMAIN x
                            /\ "resume" \notin DOMAIN x
      PROVE  ApprovalInv'
  BY <1>2, MovedApprovals
<1>3. ASSUME NEW w, NEW new, Queued(w), Becomes(w, new),
             \A x \in new : DOMAIN x \cap {"send", "of"} = {},
             UNCHANGED <<queue, taken, used>>
      PROVE  MessageInv'
  <2>1. Moved(new)
    BY <1>3, BecomesMoves DEF MessageInv
  <2>2. \A x \in new, n \in Messages : ~Carries(x, n)
    BY <1>3 DEF Carries
  <2> QED BY <1>3, <2>1, <2>2, MovedMessages DEF SameTyped
<1>4. IsABag(work) /\ DOMAIN used = {"typed", "keys", "esc", "chat", "slash"}
  BY DEF MessageInv
<1>5. CASE UserNext
  <2>1. CASE Type
    <3>1. Also(SendMsg(used.typed + 1)) /\ UNCHANGED <<appr, pressed>>
      BY <2>1 DEF Type
    <3>2. Moved({SendMsg(used.typed + 1)})
      BY <3>1, <1>4, AlsoMoves
    <3>3. \A x \in {SendMsg(used.typed + 1)} :
            "respond" \notin DOMAIN x /\ "resume" \notin DOMAIN x
      BY DEF SendMsg
    <3> QED BY <2>1, <3>1, <3>2, <3>3, <1>2, TypeMessages
  <2>2. CASE \E d \in Decisions : Key(d)
    <3>1. PICK d \in Decisions : Key(d)
      BY <2>2
    <3>2. /\ Also(ResponseMsg(Current(appr), d)) /\ Spend("keys")
          /\ UNCHANGED <<queue, taken>>
      BY <3>1 DEF Key
    <3>3. Moved({ResponseMsg(Current(appr), d)})
      BY <3>2, <1>4, AlsoMoves
    <3>4. \A x \in {ResponseMsg(Current(appr), d)}, n \in Messages :
            ~Carries(x, n)
      BY DEF ResponseMsg, Carries
    <3>5. SameTyped
      BY <3>2, <1>4, SpendKeeps
    <3>6. MessageInv'
      BY <3>2, <3>3, <3>4, <3>5, MovedMessages
    <3> QED BY <3>1, <3>6, KeyApprovals
  <2> QED BY <1>1, <1>5, <2>1, <2>2, UserPlain DEF UserNext
<1>6. CASE SendNext
  <2>1. PICK n \in Messages :
          \/ HandleSendQueues(n)
          \/ HandleSendDrops(n)
          \/ \E planned \in BOOLEAN : HandleSendStarts(n, planned)
    BY <1>6 DEF SendNext
  <2>2. CASE HandleSendQueues(n)
    <3>1. /\ Queued(SendMsg(n)) /\ Becomes(SendMsg(n), {})
          /\ UNCHANGED <<appr, pressed>>
      BY <2>2 DEF HandleSendQueues
    <3>2. Moved({})
      BY <3>1, <1>4, BecomesMoves
    <3> QED BY <2>2, <3>1, <3>2, <1>2, QueueMessages
  <2>3. CASE HandleSendDrops(n)
    BY <2>3, <1>1, DropPlain
  <2>4. CASE \E planned \in BOOLEAN : HandleSendStarts(n, planned)
    <3>1. PICK p \in BOOLEAN : HandleSendStarts(n, p)
      BY <2>4
    <3>2. PICK x : x = RunCmd(gen', n, p, session)
      OBVIOUS
    <3>3. /\ Queued(SendMsg(n)) /\ Becomes(SendMsg(n), {x})
          /\ UNCHANGED <<appr, pressed>>
      BY <3>1, <3>2 DEF HandleSendStarts
    <3>4. Moved({x})
      BY <3>3, <1>4, BecomesMoves
    <3>5. \A y \in {x} : "respond" \notin DOMAIN y /\ "resume" \notin DOMAIN y
      BY <3>2 DEF RunCmd
    <3> QED BY <3>1, <3>3, <3>4, <3>5, <1>2, StartMessages
  <2> QED BY <2>1, <2>2, <2>3, <2>4
<1>7. CASE RunNext
  <2>1. PICK g \in Turns :
          \/ \E ok \in BOOLEAN : HandleStale(g, ok)
          \/ HandleRefused(g)
          \/ HandleStarted(g)
          \/ \E n \in Messages, p \in BOOLEAN, s \in Sessions :
                RunRefused(g, n, p, s) \/ RunStarts(g, n, p, s)
    BY <1>7 DEF RunNext
  <2>2. CASE \E n \in Messages, p \in BOOLEAN, s \in Sessions :
               RunStarts(g, n, p, s)
    <3>1. PICK n \in Messages, p \in BOOLEAN, s \in Sessions :
            RunStarts(g, n, p, s)
      BY <2>2
    <3>2. PICK ok \in BOOLEAN :
            /\ Queued(RunCmd(g, n, p, s))
            /\ Becomes(RunCmd(g, n, p, s), {RanMsg(g, ok)})
            /\ UNCHANGED <<appr, pressed>>
      BY <3>1 DEF RunStarts
    <3>3. Moved({RanMsg(g, ok)})
      BY <3>2, <1>4, BecomesMoves
    <3>4. \A x \in {RanMsg(g, ok)} :
            "respond" \notin DOMAIN x /\ "resume" \notin DOMAIN x
      BY DEF RanMsg
    <3> QED BY <3>1, <3>2, <3>3, <3>4, <1>2, RunMessages
  <2> QED BY <2>1, <2>2, <1>1, RunPlain
<1>8. CASE ReadNext
  <2>1. CASE HandleDone
    <3>1. PICK new \in {{}, {SendMsg(Head(queue))}} :
            /\ Queued(EventMsg(Event("done")))
            /\ Becomes(EventMsg(Event("done")), new)
      BY <2>1 DEF HandleDone
    <3>2. Moved(new) /\ UNCHANGED <<appr, pressed>>
      BY <2>1, <3>1, <1>4, BecomesMoves DEF HandleDone
    <3>3. \A x \in new : "respond" \notin DOMAIN x /\ "resume" \notin DOMAIN x
      BY <3>1 DEF SendMsg
    <3> QED BY <2>1, <3>2, <3>3, <1>2, DoneMessages
  <2> QED BY <1>1, <1>8, <2>1, ReadPlain DEF ReadNext
<1>9. CASE AnswerNext
  <2>1. CASE \E r \in Requests : HandleAsk(r, Batches[r])
    <3>1. PICK r \in Requests : HandleAsk(r, Batches[r])
      BY <2>1
    <3>2. PICK e : e = EventMsg(AskEvent(r, Batches[r]))
      OBVIOUS
    <3>3. /\ Queued(e) /\ Becomes(e, {ReadCmd(ch)})
          /\ UNCHANGED <<queue, taken, used>>
      BY <3>1, <3>2 DEF HandleAsk
    <3>4. \A x \in {ReadCmd(ch)} : DOMAIN x \cap {"send", "of"} = {}
      BY DEF ReadCmd
    <3>5. MessageInv'
      BY <3>3, <3>4, <1>3
    <3> QED BY <3>1, <3>5, AskApprovals
  <2>2. CASE \E c \in Calls : \/ \E d \in Decisions :
                                   \/ HandleMoreToDecide(c, d)
                                   \/ HandleDecided(c, d)
                              \/ HandleDiffKey(c)
    <3>1. PICK c \in Calls, d \in Decisions :
            \/ HandleMoreToDecide(c, d)
            \/ HandleDecided(c, d)
            \/ HandleDiffKey(c)
      BY <2>2 DEF Decisions
    <3>2. PICK k \in Decisions :
            /\ Queued(ResponseMsg(c, k))
            /\ \/ Becomes(ResponseMsg(c, k), {})
               \/ \E q, dec : Becomes(ResponseMsg(c, k),
                                      {ResumeCmd(q, dec), ReadCmd(ch)})
            /\ UNCHANGED <<queue, taken, used>>
      BY <3>1 DEF HandleMoreToDecide, HandleDecided, HandleDiffKey, Decisions
    <3>3. PICK new : /\ Becomes(ResponseMsg(c, k), new)
                     /\ \A x \in new : DOMAIN x \cap {"send", "of"} = {}
      <4>1. CASE Becomes(ResponseMsg(c, k), {})
        BY <4>1
      <4>2. CASE \E q, dec : Becomes(ResponseMsg(c, k),
                                     {ResumeCmd(q, dec), ReadCmd(ch)})
        <5>1. PICK q, dec : Becomes(ResponseMsg(c, k),
                                    {ResumeCmd(q, dec), ReadCmd(ch)})
          BY <4>2
        <5>2. \A x \in {ResumeCmd(q, dec), ReadCmd(ch)} :
                DOMAIN x \cap {"send", "of"} = {}
          BY DEF ResumeCmd, ReadCmd
        <5> QED BY <5>1, <5>2
      <4> QED BY <3>2, <4>1, <4>2
    <3>4. MessageInv'
      BY <3>2, <3>3, <1>3
    <3> QED BY <3>1, <3>4, ResponseApprovals
  <2> QED BY <1>1, <1>9, <2>1, <2>2, AnswerPlain DEF AnswerNext
<1>10. CASE EngineNext
  BY <1>1, <1>10, EnginePlain
<1>11. CASE UNCHANGED vars
  BY <1>1, <1>11, PlainStill DEF vars, SameTyped
<1> QED BY <1>5, <1>6, <1>7, <1>8, <1>9, <1>10, <1>11 DEF Next

-----------------------------------------------------------------------------
(* The theorems. *)

\* Nothing has been typed, sent or asked.
LEMMA UiInit == Init => UiInv
<1> SUFFICES ASSUME Init PROVE UiInv
  OBVIOUS
<1>1. work = EmptyBag /\ DOMAIN work = {} /\ IsABag(work)
  BY DEF Init, EmptyBag, SetToBag, IsABag
<1>2. ScreenInv
  <2>1. gen \in 0..MaxTurns
    BY DEF Init
  <2> QED BY <2>1 DEF Init, ScreenInv, LatestStream
<1>3. EngineInv
  BY DEF Init, EngineInv, Off
<1>4. MessageInv
  BY <1>1 DEF Init, MessageInv, Carried, InQueue
<1>5. ApprovalInv
  BY <1>1 DEF Init, ApprovalInv, AnswersChosen
<1> QED BY <1>2, <1>3, <1>4, <1>5 DEF UiInv

\* Every step keeps the invariant.
LEMMA UiStep == UiInv /\ [Next]_vars => UiInv'
BY ScreenStep, EngineStep, HistoryStep DEF UiInv

\* The invariant holds in every behaviour.
THEOREM UiInvariant == Spec => []UiInv
BY UiInit, UiStep, PTL DEF Spec

\* The types of the loop's state; the controller's index is within its batch.
THEOREM TypeCorrect == Spec => []TypeOK
<1>1. ASSUME UiInv PROVE TypeOK
  <2>1. /\ appr.calls \in Seq(Calls)
        /\ appr.index \in 1..(Len(appr.calls) + 1)
        /\ DOMAIN appr.dec \subseteq CallsOf(appr)
    <3>1. CASE appr = NoRequest
      BY <3>1 DEF NoRequest
    <3>2. CASE Deciding(appr)
      <4>1. /\ appr.calls \in Seq(Calls) /\ Len(appr.calls) \in Nat
            /\ appr.index \in 1..Len(appr.calls)
        BY <3>2, BatchType DEF Deciding
      <4>2. 1..(appr.index - 1) \subseteq DOMAIN appr.calls
        BY <4>1
      <4>3. DOMAIN appr.dec \subseteq CallsOf(appr)
        BY <3>2, <4>2 DEF Deciding, CallsOf
      <4> QED BY <4>1, <4>3
    <3> QED BY <1>1, <3>1, <3>2 DEF UiInv, ApprovalInv
  <2>2. {holds, ch} \subseteq {None} \cup Turns
    BY <1>1 DEF UiInv, ScreenInv, LatestStream, Turns, None
  <2> QED BY <1>1, <2>1, <2>2
          DEF TypeOK, UiInv, ScreenInv, EngineInv, MessageInv
<1> QED BY <1>1, UiInvariant, PTL

\* A late answer of the engine attaches no stream and no cancel function to
\* a newer send (handleRunTurnResult), for any number of turns.
THEOREM LastSendOnly == Spec => []LatestStream
<1>1. UiInv => LatestStream
  BY DEF UiInv, ScreenInv
<1> QED BY <1>1, UiInvariant, PTL

\* A drafted message starts at most one turn (handleSend, enqueueMessage,
\* sendNextQueuedCmd), for any number of messages and turns.
THEOREM AtMostOneTurn == Spec => []SentOnce
<1>1. UiInv => SentOnce
  BY DEF UiInv, MessageInv, SentOnce
<1> QED BY <1>1, UiInvariant, PTL

\* What the controller sends was chosen by the user for the call shown
\* (handleResponse), for any batches, keys and number of requests.
THEOREM UserChose == Spec => []AnswersChosen
<1>1. UiInv => AnswersChosen
  BY DEF UiInv, ApprovalInv
<1> QED BY <1>1, UiInvariant, PTL
-----------------------------------------------------------------------------
(* Counting commands and messages.                                         *)

\* The copies in the bag, one by one.
Tokens(B) == {t \in (DOMAIN B) \X Nat : t[2] \in 1..B[t[1]]}

\* Those of the elements of a set.
Among(B, S) == {t \in Tokens(B) : t[1] \in S}

\* A copy, by the number of copies.
LEMMA TokenCopies ==
  ASSUME NEW B, IsABag(B), NEW x, NEW k
  PROVE  <<x, k>> \in Tokens(B) <=> k \in 1..Copies(B, x)
<1>1. \A y \in DOMAIN B : B[y] \in Nat
  BY DEF IsABag
<1>2. CASE x \in DOMAIN B
  BY <1>1, <1>2 DEF Tokens, Copies
<1>3. CASE x \notin DOMAIN B
  <2>1. 1..Copies(B, x) = {}
    BY <1>3 DEF Copies
  <2> QED BY <1>3, <2>1 DEF Tokens
<1> QED BY <1>2, <1>3

\* A step takes one copy of w out and puts one copy of each new element in.
LEMMA TokenStep ==
  ASSUME NEW w, NEW new, IsABag(work), Queued(w), w \notin new,
         Becomes(w, new)
  PROVE  LET out == <<w, Copies(work, w)>>
             in == {<<x, Copies(work', x)>> : x \in new}
         IN  /\ out \in Tokens(work)
             /\ Tokens(work') = (Tokens(work) \ {out}) \cup in
             /\ Tokens(work) \cap in = {}
<1> DEFINE out == <<w, Copies(work, w)>>
           in == {<<x, Copies(work', x)>> : x \in new}
<1>1. /\ IsABag(work')
      /\ \A x : Copies(work', x) =
                  Copies(work, x) - (IF x = w THEN 1 ELSE 0)
                                  + (IF x \in new THEN 1 ELSE 0)
  BY BecomesCopies
<1>2. \A x : Copies(work, x) \in Nat /\ Copies(work', x) \in Nat
  BY <1>1 DEF IsABag, Copies
<1>3. Copies(work, w) >= 1
  BY DEF Queued, Copies, IsABag
<1>4. out \in Tokens(work)
  BY <1>2, <1>3, TokenCopies
<1>5. \A x, k : /\ <<x, k>> \in Tokens(work) <=> k \in 1..Copies(work, x)
                /\ <<x, k>> \in Tokens(work') <=> k \in 1..Copies(work', x)
  BY <1>1, TokenCopies
<1>6. \A t \in Tokens(work) \cup Tokens(work') : t = <<t[1], t[2]>>
  BY DEF Tokens
<1>7. Tokens(work) \cap in = {}
  <2> SUFFICES ASSUME NEW x \in new,
                      <<x, Copies(work', x)>> \in Tokens(work)
               PROVE  FALSE
    OBVIOUS
  <2>1. Copies(work', x) = Copies(work, x) + 1
    BY <1>1, <1>2
  <2>2. Copies(work', x) \in 1..Copies(work, x)
    BY <1>5
  <2> QED BY <1>2, <2>1, <2>2
<1>8. ASSUME NEW x, NEW k
      PROVE  <<x, k>> \in Tokens(work') <=>
               \/ <<x, k>> \in Tokens(work) /\ <<x, k>> # out
               \/ <<x, k>> \in in
  <2>1. <<x, k>> \in in <=> x \in new /\ k = Copies(work', x)
    OBVIOUS
  <2>2. <<x, k>> = out <=> x = w /\ k = Copies(work, w)
    OBVIOUS
  <2>3. CASE x \in new
    <3>1. x # w /\ Copies(work', x) = Copies(work, x) + 1
      BY <1>1, <1>2, <2>3
    <3>2. k \in 1..Copies(work', x) <=>
            k \in 1..Copies(work, x) \/ k = Copies(work', x)
      BY <3>1, <1>2
    <3> QED BY <3>1, <3>2, <1>5, <2>1, <2>2, <2>3
  <2>4. CASE x = w
    <3>1. x \notin new /\ Copies(work', x) = Copies(work, x) - 1
      BY <1>1, <1>2, <2>4
    <3>2. k \in 1..Copies(work', x) <=>
            k \in 1..Copies(work, x) /\ k # Copies(work, x)
      BY <3>1, <1>2, <1>3, <2>4
    <3> QED BY <3>1, <3>2, <1>5, <2>1, <2>2, <2>4
  <2>5. CASE x \notin new /\ x # w
    <3>1. Copies(work', x) = Copies(work, x)
      BY <1>1, <1>2, <2>5
    <3> QED BY <3>1, <1>5, <2>1, <2>2, <2>5
  <2> QED BY <2>3, <2>4, <2>5
<1>9. Tokens(work') = (Tokens(work) \ {out}) \cup in
  <2> HIDE DEF out
  <2>1. \A t \in in : t = <<t[1], t[2]>>
    OBVIOUS
  <2> HIDE DEF in
  <2> QED BY <1>6, <1>8, <2>1
<1> QED BY <1>4, <1>7, <1>9

\* So the number of copies of elements of S falls by one if w is among them
\* and grows by the number of new elements that are.
LEMMA Tally ==
  ASSUME NEW w, NEW new, IsABag(work), IsFiniteSet(Tokens(work)),
         Queued(w), w \notin new, IsFiniteSet(new), Becomes(w, new), NEW S
  PROVE  /\ IsFiniteSet(Tokens(work'))
         /\ IsFiniteSet(Among(work, S)) /\ IsFiniteSet(Among(work', S))
         /\ Cardinality(Among(work, S)) \in Nat
         /\ Cardinality(new \cap S) \in Nat
         /\ Cardinality(Among(work', S)) =
              Cardinality(Among(work, S)) - (IF w \in S THEN 1 ELSE 0)
              + Cardinality(new \cap S)
<1> DEFINE out == <<w, Copies(work, w)>>
           token(x) == <<x, Copies(work', x)>>
           in(X) == {token(x) : x \in X}
<1>1. /\ out \in Tokens(work)
      /\ Tokens(work') = (Tokens(work) \ {out}) \cup in(new)
      /\ Tokens(work) \cap in(new) = {}
  BY TokenStep
<1>2. ASSUME NEW X, IsFiniteSet(X)
      PROVE  IsFiniteSet(in(X)) /\ Cardinality(in(X)) = Cardinality(X)
  <2> DEFINE f == [x \in X |-> token(x)]
  <2>1. f \in [X -> in(X)]
    OBVIOUS
  <2>2. \A t \in in(X) : \E x \in X : f[x] = t
    OBVIOUS
  <2>3. \A x, y \in X : f[x] = f[y] => x = y
    OBVIOUS
  <2>4. f \in Injection(X, in(X))
    BY <2>1, <2>3 DEF Injection, IsInjective
  <2>5. f \in Surjection(X, in(X))
    BY <2>1, <2>2 DEF Surjection
  <2>6. ExistsBijection(X, in(X))
    BY <2>4, <2>5 DEF ExistsBijection, Bijection
  <2> HIDE DEF f, in
  <2> QED BY <2>6, <1>2, FS_Bijection
<1>3. Among(work', S) =
        (Among(work, S) \ {out}) \cup in(new \cap S)
  <2>1. \A t \in in(new) : t[1] \in S <=> t \in in(new \cap S)
    OBVIOUS
  <2>2. in(new \cap S) \subseteq in(new)
    OBVIOUS
  <2> HIDE DEF in, out
  <2> QED BY <1>1, <2>1, <2>2 DEF Among
<1>4. Among(work, S) \cap in(new \cap S) = {}
  BY <1>1 DEF Among
<1>5. out \in Among(work, S) <=> w \in S
  BY <1>1 DEF Among
<1>6. Among(work, S) \in SUBSET Tokens(work)
  BY DEF Among
<1>7. IsFiniteSet(Among(work, S)) /\ Cardinality(Among(work, S)) \in Nat
  BY <1>6, FS_Subset, FS_CardinalityType
<1>8. IsFiniteSet(new \cap S) /\ Cardinality(new \cap S) \in Nat
  <2>1. new \cap S \in SUBSET new
    OBVIOUS
  <2> QED BY <2>1, FS_Subset, FS_CardinalityType
<1>9. /\ IsFiniteSet(in(new)) /\ IsFiniteSet(in(new \cap S))
      /\ Cardinality(in(new \cap S)) = Cardinality(new \cap S)
  BY <1>2, <1>8
<1> HIDE DEF in, out
<1>10. IsFiniteSet(Tokens(work'))
  <2>1. PICK base, more : base = Tokens(work) \ {out} /\ more = in(new)
    OBVIOUS
  <2>2. IsFiniteSet(base) /\ IsFiniteSet(more)
    BY <1>9, <2>1, FS_RemoveElement
  <2>3. IsFiniteSet(base \cup more)
    BY <2>2, FS_Union
  <2> QED BY <1>1, <2>1, <2>3
<1>11. PICK rest : rest = Among(work, S) \ {out}
  OBVIOUS
<1>12. /\ IsFiniteSet(rest)
       /\ Cardinality(rest) =
            Cardinality(Among(work, S)) - (IF w \in S THEN 1 ELSE 0)
  <2>1. /\ IsFiniteSet(Among(work, S) \ {out})
        /\ Cardinality(Among(work, S) \ {out}) =
             IF out \in Among(work, S) THEN Cardinality(Among(work, S)) - 1
                                       ELSE Cardinality(Among(work, S))
    BY <1>7, FS_RemoveElement
  <2> QED BY <1>5, <1>7, <1>11, <2>1
<1>13. rest \cap in(new \cap S) = {}
  BY <1>4, <1>11
<1>14. PICK more : more = in(new \cap S)
  OBVIOUS
<1>15. /\ IsFiniteSet(rest \cup more)
       /\ Cardinality(rest \cup more) =
            Cardinality(rest) + Cardinality(more)
                              - Cardinality(rest \cap more)
  BY <1>9, <1>12, <1>14, FS_Union
<1>16. Cardinality(rest \cap more) = 0
  BY <1>13, <1>14, FS_EmptySet
<1>17. Cardinality(rest) \in Nat /\ Cardinality(more) \in Nat
  BY <1>9, <1>12, <1>14, FS_CardinalityType
<1> QED
  BY <1>3, <1>7, <1>8, <1>9, <1>10, <1>11, <1>12, <1>14, <1>15, <1>16, <1>17

\* What the user adds is counted where it is among S.
LEMMA AlsoTally ==
  ASSUME NEW w, IsABag(work), IsFiniteSet(Tokens(work)), Also(w), NEW S,
         w \notin S
  PROVE  IsFiniteSet(Tokens(work')) /\ Among(work', S) = Among(work, S)
<1>1. /\ IsABag(work')
      /\ DOMAIN work' = DOMAIN work \cup {w}
      /\ \A x \in DOMAIN work \ {w} : work'[x] = work[x]
      /\ \A x : Copies(work', x) = Copies(work, x) + (IF x = w THEN 1 ELSE 0)
  BY AlsoFacts
<1>2. Among(work', S) = Among(work, S)
  BY <1>1 DEF Among, Tokens
<1>3. Tokens(work') = Tokens(work) \cup {<<w, Copies(work', w)>>}
  <2>1. \A t \in Tokens(work) \cup Tokens(work') : t = <<t[1], t[2]>>
    BY DEF Tokens
  <2>2. ASSUME NEW x, NEW k
        PROVE  <<x, k>> \in Tokens(work') <=>
                 \/ <<x, k>> \in Tokens(work)
                 \/ x = w /\ k = Copies(work', w)
    <3>1. /\ <<x, k>> \in Tokens(work) <=> k \in 1..Copies(work, x)
          /\ <<x, k>> \in Tokens(work') <=> k \in 1..Copies(work', x)
      BY <1>1, TokenCopies
    <3>2. Copies(work, x) \in Nat
      BY DEF IsABag, Copies
    <3>3. Copies(work', x) = Copies(work, x) + (IF x = w THEN 1 ELSE 0)
      BY <1>1
    <3> QED BY <3>1, <3>2, <3>3
  <2>3. \A t : t \in Tokens(work') <=>
                 t \in Tokens(work) \/ t = <<w, Copies(work', w)>>
    BY <2>1, <2>2
  <2> QED BY <2>3
<1>4. PICK base, t : base = Tokens(work) /\ t = <<w, Copies(work', w)>>
  OBVIOUS
<1>5. IsFiniteSet(base \cup {t})
  BY <1>4, FS_AddElement
<1> QED BY <1>2, <1>3, <1>4, <1>5

-----------------------------------------------------------------------------
(* Who reads the stream, and how many reads are spent. *)

Kinds == {"content", "status", "progress", "result", "ask", "diff", "plan",
          "error", "done"}
Notes == [kind : Kinds, req : Nat, calls : Seq(Calls)]

\* The events of each turn name requests of their engine; those of the batch
\* the engine asks about now are in the channel of its turn.
NotesInv ==
  /\ evs \in [Turns -> Seq(Notes)]
  /\ \A g \in Turns : \A i \in DOMAIN evs[g] :
       /\ evs[g][i].req <= eng.req
       /\ eng.calls # <<>> /\ evs[g][i].req = eng.req => g = eng.turn
  /\ eng.calls \in Seq(Calls)
  /\ eng.calls # <<>> => eng.at \in {"asked", "running"} /\ eng.req # 0
  /\ eng.at = "asked" => eng.calls # <<>>

\* What the controller sends is a look at one call, or decides a batch.
Modest(dec) ==
  \/ \E c : DOMAIN dec = {c}
  \/ \A c \in DOMAIN dec : dec[c] # "diff"

\* Nobody names a request the engine has not made.
NamesInv ==
  /\ appr.req \in 0..eng.req
  /\ \A c \in DOMAIN appr.dec : appr.dec[c] # "diff"
  /\ \A w \in DOMAIN work :
       /\ "event" \in DOMAIN w =>
            w.event.req \in 0..eng.req /\ "resume" \notin DOMAIN w
       /\ "resume" \in DOMAIN w => w.resume \in 0..eng.req /\ Modest(w.dec)
  /\ eng.box # <<>> => eng.box[1] \in 0..eng.req /\ Modest(eng.box[2])

\* The command or message w is about the start of turn g.
Starts(w, g) ==
  \/ "run" \in DOMAIN w /\ w.run = g
  \/ "ran" \in DOMAIN w /\ w.ran = g

\* A turn is started once.
StartInv ==
  \A w \in DOMAIN work, g \in Turns : Starts(w, g) =>
    /\ g <= gen /\ work[w] = 1
    /\ \A v \in DOMAIN work : Starts(v, g) => v = w

\* The interface has not been told yet that turn g started.
Unattached(g) == g > gen \/ \E w \in DOMAIN work : Starts(w, g)

\* The element w names request r.
Names(w, r) ==
  \/ "event" \in DOMAIN w /\ w.event.req = r
  \/ "resume" \in DOMAIN w /\ w.resume = r

\* The request was read from its channel.
Quoted(r) ==
  \/ appr.req = r
  \/ \E w \in DOMAIN work : Names(w, r)
  \/ eng.box # <<>> /\ eng.box[1] = r

\* The positions of the diff previews in a channel.
Previews(s) == {i \in DOMAIN s : s[i].kind = "diff"}

Asking(g) == eng.turn = g /\ eng.calls # <<>>

\* Until then nobody reads its events, and none of them is a preview, for
\* nobody knows what it asks.
Unseen(g) ==
  /\ ch # g
  /\ ReadCmd(g) \notin DOMAIN work /\ Reading(g) \notin DOMAIN work
  /\ Previews(evs[g]) = {}
  /\ Asking(g) => ~Quoted(eng.req)

UnseenInv == \A g \in Turns : Unattached(g) => Unseen(g)

\* The elements that read the stream, or whose handler will.
Reads(w) ==
  \/ w \in {ReadCmd(ch), Reading(ch)}
  \/ "event" \in DOMAIN w /\ w.event.kind # "diff"

\* The answers on their way to the batch the engine asks about.
Answers(w) == "resume" \in DOMAIN w /\ w.resume = eng.req

Readers == Cardinality({t \in Tokens(work) : Reads(t[1])})
Answering == Cardinality({t \in Tokens(work) : Answers(t[1])})
Boxed == IF eng.box # <<>> /\ eng.box[1] = eng.req THEN 1 ELSE 0

\* A preview takes a reader away: its handler does not read on.  So many
\* previews wait in the channel, or may be sent into it.
Owed ==
  Cardinality(Previews(evs[ch]))
  + (IF Asking(ch) THEN Answering + Boxed ELSE 0)

Shown == ch # None /\ ~stopped /\ ~quiet

\* There is a reader more than the previews will take.
Served == Shown => Readers >= 1 + Owed

AttendInv ==
  /\ NotesInv /\ NamesInv /\ StartInv /\ UnseenInv
  /\ IsFiniteSet(Tokens(work)) /\ Served

-----------------------------------------------------------------------------
(* What a step puts into the bag. *)

\* An element the invariant does not speak of.
Neutral(x) ==
  DOMAIN x \cap {"event", "resume", "run", "ran", "read", "reading"} = {}

\* An event, made up by the interface or read from a channel.
Heard(x) ==
  /\ DOMAIN x = {"event"}
  /\ \/ x.event.req = 0
     \/ \E g \in Turns : /\ Reading(g) \in DOMAIN work
                         /\ evs[g] # <<>> /\ x.event = evs[g][1]

Answered(x) ==
  /\ DOMAIN x = {"resume", "dec", "ses"}
  /\ x.resume = appr.req /\ Modest(x.dec)

Sent(x) ==
  /\ gen' = gen + 1
  /\ DOMAIN x = {"run", "of", "planned", "ses"} /\ x.run = gen + 1

\* The run of a turn has its result, and is no longer there.
Ran(x) ==
  \E w \in DOMAIN work, g \in Turns :
    /\ Starts(w, g) /\ w \notin DOMAIN work'
    /\ DOMAIN x = {"ran", "ok"} /\ x.ran = g

Arrives(x) ==
  \/ Neutral(x) \/ Heard(x) \/ Answered(x) \/ Sent(x) \/ Ran(x)
  \/ x = ReadCmd(ch')
  \/ /\ x = Reading(ch') /\ ch' = ch
     /\ ReadCmd(ch) \in DOMAIN work

\* One element at most is about the start of a turn.
Opens(x) == Sent(x) \/ Ran(x)

Arriving ==
  \E new : /\ Moved(new)
           /\ \A x \in new : Arrives(x)
           /\ \A x, y \in new : Opens(x) => y = x

\* The shapes of the elements.
LEMMA Shapes ==
  /\ \A n : Neutral(SendMsg(n))
  /\ \A c, d : Neutral(ResponseMsg(c, d))
  /\ \A b : Neutral(PlanMsg(b))
  /\ \A b, s : Neutral(PlanCmd(b, s))
  /\ Neutral(SlashCmd)
  /\ \A s : Neutral(SteerCmd(s)) /\ Neutral(StateMsg(s))
BY DEF Neutral, SendMsg, ResponseMsg, PlanMsg, PlanCmd, SlashCmd, SteerCmd,
       StateMsg

\* The ends of a stream and the errors name no request.
LEMMA MadeUp == \A k : Heard(EventMsg(Event(k)))
BY DEF Heard, EventMsg, Event, None

\* One way to put elements into the bag.
LEMMA ArrivingBecomes ==
  ASSUME IsABag(work), NEW w, NEW new, Queued(w), Becomes(w, new),
         \A x \in new : Arrives(x),
         \A x, y \in new : Opens(x) => y = x
  PROVE  Arriving
BY BecomesMoves DEF Arriving

\* Another.
LEMMA ArrivingAlso ==
  ASSUME IsABag(work), NEW w, Also(w), Neutral(w)
  PROVE  Arriving
<1>1. Moved({w})
  BY AlsoMoves
<1>2. \A x \in {w} : Arrives(x)
  BY DEF Arrives
<1> QED BY <1>1, <1>2 DEF Arriving

\* The user puts in nothing the invariant speaks of.
LEMMA UserArrives ==
  ASSUME IsABag(work), UserNext
  PROVE  Arriving
<1>1. \/ \E w : Also(w) /\ Neutral(w)
      \/ UNCHANGED work
  BY Shapes DEF UserNext, Type, Key, PlanKey, Slash, Steer, Cancel
<1>2. CASE UNCHANGED work
  BY <1>2, StillMoves DEF Arriving
<1> QED BY <1>1, <1>2, ArrivingAlso

\* A send is queued, is dropped, or asks for a turn.
LEMMA SendArrives ==
  ASSUME IsABag(work), SendNext
  PROVE  Arriving
<1>1. PICK n \in Messages :
        \/ HandleSendQueues(n)
        \/ HandleSendDrops(n)
        \/ \E planned \in BOOLEAN : HandleSendStarts(n, planned)
  BY DEF SendNext
<1>2. CASE HandleSendQueues(n) \/ HandleSendDrops(n)
  <2>1. Queued(SendMsg(n)) /\ Becomes(SendMsg(n), {})
    BY <1>2 DEF HandleSendQueues, HandleSendDrops
  <2> QED BY <2>1, ArrivingBecomes
<1>3. CASE \E planned \in BOOLEAN : HandleSendStarts(n, planned)
  <2>1. PICK p \in BOOLEAN : HandleSendStarts(n, p)
    BY <1>3
  <2>2. PICK x : x = RunCmd(gen', n, p, session)
    OBVIOUS
  <2>3. Queued(SendMsg(n)) /\ Becomes(SendMsg(n), {x}) /\ gen' = gen + 1
    BY <2>1, <2>2 DEF HandleSendStarts
  <2>4. Sent(x)
    BY <2>2, <2>3 DEF Sent, RunCmd
  <2> QED BY <2>3, <2>4, ArrivingBecomes DEF Arrives
<1> QED BY <1>1, <1>2, <1>3

\* A run has its result; a result attaches the stream, or is dropped.
LEMMA RunArrives ==
  ASSUME IsABag(work), StartInv, RunNext
  PROVE  Arriving
<1>1. PICK g \in Turns :
        \/ \E ok \in BOOLEAN : HandleStale(g, ok)
        \/ HandleRefused(g)
        \/ HandleStarted(g)
        \/ \E n \in Messages, p \in BOOLEAN, s \in Sessions :
              RunRefused(g, n, p, s) \/ RunStarts(g, n, p, s)
  BY DEF RunNext
<1>2. CASE HandleRefused(g) \/ \E ok \in BOOLEAN : HandleStale(g, ok)
  <2>1. PICK ok \in BOOLEAN :
          Queued(RanMsg(g, ok)) /\ Becomes(RanMsg(g, ok), {})
    BY <1>2 DEF HandleStale, HandleRefused
  <2> QED BY <2>1, ArrivingBecomes
<1>3. CASE HandleStarted(g)
  <2>1. PICK w : Queued(w) /\ Becomes(w, {ReadCmd(g)}) /\ ch' = g
    BY <1>3 DEF HandleStarted
  <2>2. \A x \in {ReadCmd(g)} : Arrives(x)
    BY <2>1 DEF Arrives
  <2> QED BY <2>1, <2>2, ArrivingBecomes
<1>4. CASE \E n \in Messages, p \in BOOLEAN, s \in Sessions :
              RunRefused(g, n, p, s) \/ RunStarts(g, n, p, s)
  <2>1. PICK n \in Messages, p \in BOOLEAN, s \in Sessions :
          RunRefused(g, n, p, s) \/ RunStarts(g, n, p, s)
    BY <1>4
  <2>2. PICK w : w = RunCmd(g, n, p, s)
    OBVIOUS
  <2>3. PICK ok \in BOOLEAN : Queued(w) /\ Becomes(w, {RanMsg(g, ok)})
    BY <2>1, <2>2 DEF RunRefused, RunStarts
  <2>4. PICK x : x = RanMsg(g, ok)
    OBVIOUS
  <2>5. w \in DOMAIN work /\ Starts(w, g) /\ w # x
    BY <2>2, <2>3, <2>4 DEF Queued, Starts, RunCmd, RanMsg
  <2>6. work[w] = 1
    BY <2>5 DEF StartInv
  <2>7. w \notin DOMAIN work'
    BY <2>3, <2>4, <2>5, <2>6, BecomesFacts
  <2>8. Ran(x)
    BY <2>4, <2>5, <2>7 DEF Ran, RanMsg
  <2> QED BY <2>3, <2>4, <2>8, ArrivingBecomes DEF Arrives
<1> QED BY <1>1, <1>2, <1>3, <1>4

\* A read begins, or has an event; an event is shown.
LEMMA ReadArrives ==
  ASSUME IsABag(work), NotesInv, ReadNext
  PROVE  Arriving
<1>1. CASE \E g \in {None} \cup Turns : BeginRead(g)
  <2>1. PICK g \in {None} \cup Turns : BeginRead(g)
    BY <1>1
  <2>2. Queued(ReadCmd(g)) /\ ch' = ch
    BY <2>1 DEF BeginRead
  <2>3. \/ Becomes(ReadCmd(g), {EventMsg(Event("done"))})
        \/ Becomes(ReadCmd(g), {})
        \/ g = ch /\ Becomes(ReadCmd(g), {Reading(g)})
    BY <2>1 DEF BeginRead
  <2>4. Arrives(EventMsg(Event("done")))
    BY MadeUp DEF Arrives
  <2>5. g = ch => Arrives(Reading(g))
    BY <2>2 DEF Arrives, Queued
  <2> QED BY <2>2, <2>3, <2>4, <2>5, ArrivingBecomes
<1>2. CASE \E g \in Turns : ReadEvent(g)
  <2>1. PICK g \in Turns : ReadEvent(g)
    BY <1>2
  <2>2. Reading(g) \in DOMAIN work /\ Queued(Reading(g))
    BY <2>1 DEF ReadEvent, Queued
  <2>3. CASE /\ evs[g] # <<>>
             /\ Becomes(Reading(g), {EventMsg(Head(evs[g]))})
    <3>1. evs[g][1] = Head(evs[g])
      BY <2>3 DEF NotesInv
    <3>2. Heard(EventMsg(Head(evs[g])))
      BY <2>2, <2>3, <3>1 DEF Heard, EventMsg
    <3> QED BY <2>2, <2>3, <3>2, ArrivingBecomes DEF Arrives
  <2>4. CASE Becomes(Reading(g), {EventMsg(Event("done"))})
    BY <2>2, <2>4, MadeUp, ArrivingBecomes DEF Arrives
  <2> QED BY <2>1, <2>3, <2>4 DEF ReadEvent
<1>3. CASE HandleContent \/ HandleResult
  <2>1. PICK e, new : /\ new \in {{}, {ReadCmd(ch)}}
                      /\ Queued(e) /\ Becomes(e, new) /\ ch' = ch
    <3>1. CASE HandleContent
      BY <3>1 DEF HandleContent
    <3>2. CASE HandleResult
      BY <3>2 DEF HandleResult
    <3> QED BY <1>3, <3>1, <3>2
  <2>2. Arrives(ReadCmd(ch))
    BY <2>1 DEF Arrives
  <2> QED BY <2>1, <2>2, ArrivingBecomes
<1>4. CASE HandleStatus \/ HandleProgress \/ HandleDiff
           \/ HandlePlanRequest \/ HandleError
  <2>1. PICK k \in {"status", "progress", "diff", "plan", "error"} :
          Queued(EventMsg(Event(k))) /\ Becomes(EventMsg(Event(k)), {})
    BY <1>4 DEF HandleStatus, HandleProgress, HandleDiff, HandlePlanRequest,
                HandleError
  <2> QED BY <2>1, ArrivingBecomes
<1>5. CASE HandleDone
  <2>1. PICK new \in {{}, {SendMsg(Head(queue))}} :
          /\ Queued(EventMsg(Event("done")))
          /\ Becomes(EventMsg(Event("done")), new)
    BY <1>5 DEF HandleDone
  <2>2. Arrives(SendMsg(Head(queue)))
    BY Shapes DEF Arrives
  <2> QED BY <2>1, <2>2, ArrivingBecomes
<1> QED BY <1>1, <1>2, <1>3, <1>4, <1>5 DEF ReadNext

\* The controller never decides a batch by "diff", and does not change the
\* request it is about.
LEMMA ResponseModest ==
  ASSUME DOMAIN appr = DOMAIN NoRequest, NEW call, NEW d \in Decisions,
         \A c \in DOMAIN appr.dec : appr.dec[c] # "diff"
  PROVE  LET r == Response(appr, call, d)
         IN  /\ r.ctl.req = appr.req
             /\ \A c \in DOMAIN r.ctl.dec : r.ctl.dec[c] # "diff"
             /\ r.final => d # "diff" /\ Modest(r.dec)
<1> DEFINE after == Recorded(appr, call, d)
           open == [ctl |-> appr, final |-> FALSE, dec |-> <<>>]
           r == Response(appr, call, d)
<1>1. CASE r = open
  BY <1>1
<1>2. CASE d = "always" /\ r = [ctl |-> appr, final |-> TRUE,
                                dec |-> Always(appr)]
  <2>1. \A c \in DOMAIN Always(appr) : Always(appr)[c] = "yes"
    BY DEF Always
  <2> QED BY <1>2, <2>1 DEF Modest
<1>3. CASE /\ d \in {"yes", "no"}
           /\ r = [ctl |-> after, final |-> Complete(after),
                   dec |-> Built(after)]
  <2>1. /\ after.req = appr.req
        /\ after.dec = [c \in DOMAIN appr.dec \cup {call} |->
                          IF c = call THEN d ELSE appr.dec[c]]
    BY DEF Recorded, NoRequest
  <2>2. \A c \in DOMAIN after.dec : after.dec[c] # "diff"
    BY <1>3, <2>1
  <2>3. \A c \in DOMAIN Built(after) : Built(after)[c] # "diff"
    BY <2>2 DEF Built
  <2> HIDE DEF after
  <2> QED BY <1>3, <2>1, <2>2, <2>3 DEF Modest
<1>4. r = open \/ d = "always" \/ d \in {"yes", "no"}
  BY DEF Response, Decisions
<1> QED BY <1>1, <1>2, <1>3, <1>4 DEF Response

\* The answers of the user and their results.
LEMMA AnswerArrives ==
  ASSUME IsABag(work), ApprovalInv, NamesInv, AnswerNext
  PROVE  Arriving
<1>1. CASE \E r \in Requests : HandleAsk(r, Batches[r])
  <2>1. PICK e : Queued(e) /\ Becomes(e, {ReadCmd(ch)}) /\ ch' = ch
    BY <1>1 DEF HandleAsk
  <2>2. Arrives(ReadCmd(ch))
    BY <2>1 DEF Arrives
  <2> QED BY <2>1, <2>2, ArrivingBecomes
<1>2. CASE \E c \in Calls, d \in Decisions :
             HandleMoreToDecide(c, d) \/ HandleDecided(c, d)
  <2>1. PICK c \in Calls, d \in Decisions :
          HandleMoreToDecide(c, d) \/ HandleDecided(c, d)
    BY <1>2
  <2>2. CASE HandleMoreToDecide(c, d)
    <3>1. Queued(ResponseMsg(c, d)) /\ Becomes(ResponseMsg(c, d), {})
      BY <2>2 DEF HandleMoreToDecide
    <3> QED BY <3>1, ArrivingBecomes
  <2>3. CASE HandleDecided(c, d)
    <3>1. PICK x : x = ResumeCmd(appr.req, Response(appr, c, d).dec)
      OBVIOUS
    <3>2. /\ Queued(ResponseMsg(c, d)) /\ ch' = ch
          /\ Becomes(ResponseMsg(c, d), {x, ReadCmd(ch)})
          /\ Response(appr, c, d).final
      BY <2>3, <3>1 DEF HandleDecided
    <3>3. DOMAIN appr = DOMAIN NoRequest
      BY DEF ApprovalInv
    <3>4. Modest(Response(appr, c, d).dec)
      BY <3>2, <3>3, ResponseModest DEF NamesInv
    <3>5. Answered(x)
      BY <3>1, <3>4 DEF Answered, ResumeCmd
    <3>6. Arrives(x) /\ Arrives(ReadCmd(ch))
      BY <3>2, <3>5 DEF Arrives
    <3>7. ~Opens(x) /\ ~Opens(ReadCmd(ch))
      BY <3>5 DEF Answered, ReadCmd, Opens, Sent, Ran
    <3> QED BY <3>2, <3>6, <3>7, ArrivingBecomes
  <2> QED BY <2>1, <2>2, <2>3
<1>3. CASE \E c \in Calls : HandleDiffKey(c)
  <2>1. PICK c \in Calls : HandleDiffKey(c)
    BY <1>3
  <2>2. PICK look : look = [k \in {c} |-> "diff"]
    OBVIOUS
  <2>3. PICK x : x = ResumeCmd(appr.req, look)
    OBVIOUS
  <2>4. /\ Queued(ResponseMsg(c, "diff")) /\ ch' = ch
        /\ Becomes(ResponseMsg(c, "diff"), {x, ReadCmd(ch)})
    BY <2>1, <2>2, <2>3 DEF HandleDiffKey
  <2>5. Modest(look)
    BY <2>2 DEF Modest
  <2>6. Answered(x)
    BY <2>3, <2>5 DEF Answered, ResumeCmd
  <2>7. Arrives(x) /\ Arrives(ReadCmd(ch))
    BY <2>4, <2>6 DEF Arrives
  <2>8. ~Opens(x) /\ ~Opens(ReadCmd(ch))
    BY <2>6 DEF Answered, ReadCmd, Opens, Sent, Ran
  <2> QED BY <2>4, <2>7, <2>8, ArrivingBecomes
<1>4. CASE \E w \in {x \in DOMAIN work : "resume" \in DOMAIN x} :
             ResumeApproval(w)
  <2>1. PICK w, x : /\ x \in {StateMsg("approval"), StateMsg("thinking"),
                               EventMsg(Event("error"))}
                    /\ Queued(w) /\ Becomes(w, {x})
    BY <1>4 DEF ResumeApproval
  <2>2. Arrives(x)
    BY <2>1, Shapes, MadeUp DEF Arrives
  <2> QED BY <2>1, <2>2, ArrivingBecomes
<1>5. CASE \E b \in BOOLEAN : HandlePlanAnswer(b)
  <2>1. PICK b \in BOOLEAN : /\ Queued(PlanMsg(b))
                             /\ Becomes(PlanMsg(b), {PlanCmd(b, session)})
    BY <1>5 DEF HandlePlanAnswer
  <2>2. Arrives(PlanCmd(b, session))
    BY Shapes DEF Arrives
  <2> QED BY <2>1, <2>2, ArrivingBecomes
<1>6. CASE \/ \E b \in BOOLEAN, s \in Sessions : ResumePlan(b, s)
           \/ \E s \in Sessions : SteerRuns(s)
  <2>1. PICK w, x : /\ x \in {StateMsg("thinking"), EventMsg(Event("error"))}
                    /\ Queued(w) /\ Becomes(w, {x})
    BY <1>6 DEF ResumePlan, SteerRuns
  <2>2. Arrives(x)
    BY <2>1, Shapes, MadeUp DEF Arrives
  <2> QED BY <2>1, <2>2, ArrivingBecomes
<1>7. CASE HandleSlash \/ \E s \in {"thinking", "approval"} : HandleState(s)
  <2>1. PICK w : Queued(w) /\ Becomes(w, {})
    BY <1>7 DEF HandleSlash, HandleState
  <2> QED BY <2>1, ArrivingBecomes
<1> QED BY <1>1, <1>2, <1>3, <1>4, <1>5, <1>6, <1>7 DEF AnswerNext

\* Every step.
LEMMA StepArrives ==
  ASSUME UiInv, NotesInv, NamesInv, StartInv, [Next]_vars
  PROVE  Arriving
<1>1. IsABag(work) /\ ApprovalInv
  BY DEF UiInv, MessageInv
<1>2. CASE EngineNext \/ UNCHANGED vars
  <2>1. UNCHANGED work
    BY <1>2 DEF EngineNext, Chats, Asks, ShowsDiff, Decides, Reports, Plans,
                PlanApproved, Steered, Fails, Finishes, Frees, EngineFrame,
                vars
  <2> QED BY <1>1, <2>1, StillMoves DEF Arriving
<1> QED BY <1>1, <1>2, UserArrives, SendArrives, RunArrives, ReadArrives,
           AnswerArrives DEF Next

-----------------------------------------------------------------------------
(* How the engine and the controller move. *)

\* The events a step of the engine sends.
Sends(es) ==
  /\ es \in Seq(Notes)
  /\ \/ eng.turn \in Turns /\ Emit(es)
     \/ es = <<>> /\ UNCHANGED evs
  /\ \A i \in DOMAIN es :
       /\ \/ es[i].req = 0
          \/ eng'.req = eng.req + 1 /\ es[i].req = eng'.req
       /\ es[i].kind = "diff" => ShowsDiff

\* What the engine asks about: nothing changes, or it is dropped, or a batch
\* is asked for.
Keeps ==
  /\ eng'.calls = eng.calls /\ eng'.req = eng.req /\ eng'.turn = eng.turn
  /\ eng.calls # <<>> => eng'.at \in {"asked", "running"}
  /\ eng'.at = "asked" => eng.at = "asked"

Drops == eng'.calls = <<>> /\ eng'.req = eng.req /\ eng'.at # "asked"

Opening ==
  /\ eng'.req = eng.req + 1 /\ eng'.turn = eng.turn /\ eng.turn \in Turns
  /\ eng'.calls \in Seq(Calls) \ {<<>>} /\ eng'.at = "asked"
  /\ eng.calls = <<>>
  /\ eng'.box = eng.box /\ UNCHANGED <<work, appr, ch, gen>>

\* The box holds what it held, nothing, or an answer that was on its way.
Boxes ==
  \/ eng'.box = eng.box
  \/ eng'.box = <<>>
  \/ \E w \in DOMAIN work : /\ "resume" \in DOMAIN w
                            /\ eng'.box = <<w.resume, w.dec>>

\* An event is one the interface can be told of.
LEMMA EventType ==
  /\ \A k \in Kinds : Event(k) \in Notes /\ Event(k).req = 0
                       /\ Event(k).kind = k
  /\ \A r \in Requests : /\ AskEvent(r, Batches[r]) \in Notes
                         /\ AskEvent(r, Batches[r]).req = r
                         /\ AskEvent(r, Batches[r]).kind = "ask"
<1>1. ASSUME NEW k \in Kinds
      PROVE  Event(k) \in Notes /\ Event(k).req = 0 /\ Event(k).kind = k
  <2>1. <<>> \in Seq(Calls)
    OBVIOUS
  <2> QED BY <2>1 DEF Event, Notes, None
<1>2. ASSUME NEW r \in Requests
      PROVE  /\ AskEvent(r, Batches[r]) \in Notes
             /\ AskEvent(r, Batches[r]).req = r
             /\ AskEvent(r, Batches[r]).kind = "ask"
  <2>1. r \in Nat
    BY DEF Requests
  <2>2. PICK c \in Seq(Calls) : c = Batches[r]
    BY BatchType
  <2>3. AskEvent(r, c) \in Notes
    BY <2>1 DEF AskEvent, Notes, Kinds
  <2> QED BY <2>2, <2>3 DEF AskEvent
<1> QED BY <1>1, <1>2

\* One event is sent.
LEMMA SendsOne ==
  ASSUME eng.turn \in Turns, NEW e \in Notes, Emit(<<e>>), e.kind # "diff",
         e.req = 0 \/ (eng'.req = eng.req + 1 /\ e.req = eng'.req)
  PROVE  Sends(<<e>>)
<1>1. <<e>> \in Seq(Notes) /\ \A i \in DOMAIN <<e>> : <<e>>[i] = e
  OBVIOUS
<1> QED BY <1>1 DEF Sends

\* An event about no request.
LEMMA SendsEvent ==
  ASSUME EngineInv, eng.at # "off", NEW k \in Kinds, k # "diff",
         Emit(<<Event(k)>>)
  PROVE  Sends(<<Event(k)>>)
<1>1. PICK e : e = Event(k)
  OBVIOUS
<1>2. e \in Notes /\ e.kind # "diff" /\ e.req = 0 /\ Emit(<<e>>)
  BY <1>1, EventType
<1>3. eng.turn \in Turns
  BY DEF EngineInv
<1> QED BY <1>1, <1>2, <1>3, SendsOne

\* Events of one kind are sent.
LEMMA SendsMany ==
  ASSUME EngineInv, eng.at # "off", NEW k \in Kinds, NEW n \in Nat,
         NEW es, es = [i \in 1..n |-> Event(k)], Emit(es),
         k = "diff" => ShowsDiff
  PROVE  Sends(es)
<1>1. es \in Seq(Notes) /\ DOMAIN es = 1..n
  BY EventType
<1>2. \A i \in DOMAIN es : es[i].req = 0 /\ es[i].kind = k
  BY <1>1, EventType
<1> QED BY <1>1, <1>2 DEF Sends, EngineInv

\* A look is at one call.
LEMMA FewPreviews ==
  ASSUME NamesInv, ShowsDiff
  PROVE  Cardinality(DOMAIN eng.box[2] \cap Asked) \in {0, 1}
<1>1. /\ eng.box # <<>>
      /\ \A c \in DOMAIN eng.box[2] : eng.box[2][c] = "diff"
  BY DEF ShowsDiff, DiffOnly
<1>2. Modest(eng.box[2])
  BY <1>1 DEF NamesInv
<1>3. PICK shown : shown = DOMAIN eng.box[2] \cap Asked
  OBVIOUS
<1>4. shown = {} \/ \E c : shown = {c}
  <2>1. CASE \E c : DOMAIN eng.box[2] = {c}
    <3>1. PICK c : DOMAIN eng.box[2] = {c}
      BY <2>1
    <3>2. shown \subseteq {c}
      BY <1>3, <3>1
    <3>3. shown = {} \/ shown = {c}
      BY <3>2
    <3> QED BY <3>3
  <2>2. CASE DOMAIN eng.box[2] = {}
    BY <1>3, <2>2
  <2> QED BY <1>1, <1>2, <2>1, <2>2 DEF Modest
<1> QED BY <1>3, <1>4, FS_EmptySet, FS_Singleton

\* The engine's own steps.
LEMMA EngineSends ==
  ASSUME EngineInv, NotesInv, NamesInv, EngineNext
  PROVE  /\ \E es : Sends(es)
         /\ Keeps \/ Drops \/ Opening
         /\ Boxes
         /\ UNCHANGED <<work, appr, ch, gen>>
<1>0. DOMAIN eng = DOMAIN Off /\ eng.req \in Nat
  BY DEF EngineInv
<1> USE DEF EngineFrame
<1>1. CASE \E k \in Chat : Chats(k)
  <2>1. PICK k \in {"content", "status", "progress", "result"} : Chats(k)
    BY <1>1 DEF Told, Tools
  <2>2. Sends(<<Event(k)>>)
    BY <2>1, SendsEvent DEF Chats, Kinds
  <2>3. UNCHANGED <<eng, work, appr, ch, gen>>
    BY <2>1 DEF Chats
  <2> QED BY <2>2, <2>3 DEF Keeps, Boxes, NotesInv
<1>2. CASE \E r \in Requests : Asks(r)
  <2>1. PICK r \in Requests : Asks(r)
    BY <1>2
  <2>2. /\ eng' = [eng EXCEPT !.at = "asked", !.req = r,
                              !.calls = Batches[r]]
        /\ eng.at = "model" /\ r = eng.req + 1
        /\ Emit(<<AskEvent(r, Batches[r])>>)
        /\ UNCHANGED <<work, appr, ch, gen>>
    BY <2>1 DEF Asks
  <2>3. /\ eng'.at = "asked" /\ eng'.req = r /\ eng'.calls = Batches[r]
        /\ eng'.turn = eng.turn /\ eng'.box = eng.box
    BY <2>2, <1>0 DEF Off
  <2>4. Batches[r] \in Seq(Calls) \ {<<>>}
    BY BatchType
  <2>5. eng.calls = <<>> /\ eng.turn \in Turns
    BY <2>2 DEF NotesInv, EngineInv
  <2>6. Sends(<<AskEvent(r, Batches[r])>>)
    BY <2>2, <2>3, <2>5, EventType, SendsOne
  <2> QED BY <2>2, <2>3, <2>4, <2>5, <2>6 DEF Opening, Boxes
<1>3. CASE ShowsDiff
  <2> DEFINE n == Cardinality(DOMAIN eng.box[2] \cap Asked)
             es == [i \in 1..n |-> Event("diff")]
  <2>1. /\ eng' = [eng EXCEPT !.box = <<>>] /\ eng.at = "asked"
        /\ Emit(es) /\ UNCHANGED <<work, appr, ch, gen>>
    BY <1>3 DEF ShowsDiff
  <2>2. /\ eng'.at = eng.at /\ eng'.req = eng.req /\ eng'.calls = eng.calls
        /\ eng'.turn = eng.turn /\ eng'.box = <<>>
    BY <2>1, <1>0 DEF Off
  <2>3. n \in Nat
    BY <1>3, FewPreviews
  <2> HIDE DEF n
  <2>4. Sends(es)
    BY <1>3, <2>1, <2>3, SendsMany DEF Kinds
  <2> QED BY <2>1, <2>2, <2>4 DEF Keeps, Boxes
<1>4. CASE Decides
  <2>1. /\ eng' = [eng EXCEPT !.at = "running", !.box = <<>>]
        /\ UNCHANGED <<evs, work, appr, ch, gen>>
    BY <1>4 DEF Decides
  <2>2. /\ eng'.at = "running" /\ eng'.req = eng.req
        /\ eng'.calls = eng.calls
        /\ eng'.turn = eng.turn /\ eng'.box = <<>>
    BY <2>1, <1>0 DEF Off
  <2>3. Sends(<<>>)
    BY <2>1 DEF Sends
  <2> QED BY <2>1, <2>2, <2>3 DEF Keeps, Boxes
<1>5. CASE Reports
  <2> DEFINE es == [i \in DOMAIN eng.calls |-> Event("result")]
  <2>1. /\ eng' = [eng EXCEPT !.at = "model", !.calls = <<>>]
        /\ eng.at = "running"
        /\ Emit(es) /\ UNCHANGED <<work, appr, ch, gen>>
    BY <1>5 DEF Reports
  <2>2. /\ eng'.at = "model" /\ eng'.req = eng.req
        /\ eng'.calls = <<>> /\ eng'.box = eng.box
    BY <2>1, <1>0 DEF Off
  <2>3. PICK n \in Nat : DOMAIN eng.calls = 1..n
    BY DEF NotesInv
  <2>4. es = [i \in 1..n |-> Event("result")]
    BY <2>3
  <2> HIDE DEF es
  <2>5. Sends(es)
    BY <2>1, <2>3, <2>4, SendsMany DEF Kinds
  <2> QED BY <2>1, <2>2, <2>5 DEF Drops, Boxes
<1>6. CASE Plans \/ Steered \/ Finishes
  <2>1. PICK k \in {"plan", "status", "done"} : Emit(<<Event(k)>>)
    BY <1>6 DEF Plans, Steered, Finishes
  <2>2. /\ eng.at = "model" /\ eng'.calls = eng.calls /\ eng'.req = eng.req
        /\ eng'.at \in {"planned", "model", "over"} /\ eng'.box = eng.box
        /\ UNCHANGED <<work, appr, ch, gen>>
    BY <1>6, <1>0 DEF Plans, Steered, Finishes, Off
  <2>3. eng.calls = <<>>
    BY <2>2 DEF NotesInv
  <2>4. Sends(<<Event(k)>>)
    BY <2>1, <2>2, SendsEvent DEF Kinds
  <2> QED BY <2>2, <2>3, <2>4 DEF Drops, Boxes
<1>7. CASE PlanApproved
  <2>1. /\ eng.at = "planned" /\ eng'.calls = eng.calls
        /\ eng'.req = eng.req /\ eng'.at = "model" /\ eng'.box = eng.box
        /\ UNCHANGED <<evs, work, appr, ch, gen>>
    BY <1>7, <1>0 DEF PlanApproved, Off
  <2>2. eng.calls = <<>>
    BY <2>1 DEF NotesInv
  <2>3. Sends(<<>>)
    BY <2>1 DEF Sends
  <2> QED BY <2>1, <2>2, <2>3 DEF Drops, Boxes
<1>8. CASE Fails
  <2>1. /\ eng.at # "off" /\ eng'.calls = <<>>
        /\ eng'.req = eng.req /\ eng'.at = "over" /\ eng'.box = eng.box
        /\ Emit(<<Event("error")>>) \/ UNCHANGED evs
        /\ UNCHANGED <<work, appr, ch, gen>>
    BY <1>8, <1>0 DEF Fails, Off
  <2>2. Sends(<<Event("error")>>) \/ Sends(<<>>)
    <3>1. CASE Emit(<<Event("error")>>)
      BY <2>1, <3>1, SendsEvent DEF Kinds
    <3>2. CASE UNCHANGED evs
      BY <3>2 DEF Sends
    <3> QED BY <2>1, <3>1, <3>2
  <2> QED BY <2>1, <2>2 DEF Drops, Boxes
<1>9. CASE Frees
  <2>1. /\ eng'.calls = <<>>
        /\ eng'.req = eng.req /\ eng'.at = "off" /\ eng'.box = <<>>
        /\ UNCHANGED <<evs, work, appr, ch, gen>>
    BY <1>9 DEF Frees, Off
  <2>2. Sends(<<>>)
    BY <2>1 DEF Sends
  <2> QED BY <2>1, <2>2 DEF Drops, Boxes
<1> QED BY <1>1, <1>2, <1>3, <1>4, <1>5, <1>6, <1>7, <1>8, <1>9
        DEF EngineNext

\* The other steps: they ask about nothing new and send nothing.
LEMMA OthersMove ==
  ASSUME EngineInv, NotesInv,
         UserNext \/ SendNext \/ RunNext \/ ReadNext \/ AnswerNext
         \/ UNCHANGED vars
  PROVE  /\ Keeps \/ Drops
         /\ Boxes
         /\ UNCHANGED evs \/ \E g \in Turns : ReadEvent(g)
<1>0. DOMAIN eng = DOMAIN Off
  BY DEF EngineInv
<1>1. ASSUME UNCHANGED eng PROVE Keeps /\ Boxes
  <2>1. eng.calls # <<>> => eng.at \in {"asked", "running"}
    BY DEF NotesInv
  <2> QED BY <1>1, <2>1 DEF Keeps, Boxes
<1>2. CASE \E g \in Turns, n \in Messages, p \in BOOLEAN, s \in Sessions :
             RunStarts(g, n, p, s)
  <2>1. /\ eng'.calls = <<>> /\ eng'.req = eng.req /\ eng'.at = "model"
        /\ eng'.box = <<>> /\ UNCHANGED evs
    BY <1>2 DEF RunStarts, Off
  <2> QED BY <2>1 DEF Drops, Boxes
<1>3. CASE \E w \in {x \in DOMAIN work : "resume" \in DOMAIN x} :
             ResumeApproval(w)
  <2>1. PICK w \in DOMAIN work : "resume" \in DOMAIN w /\ ResumeApproval(w)
    BY <1>3
  <2>2. /\ UNCHANGED eng \/ eng' = [eng EXCEPT !.box = <<w.resume, w.dec>>]
        /\ UNCHANGED evs
    BY <2>1 DEF ResumeApproval
  <2>3. CASE eng' = [eng EXCEPT !.box = <<w.resume, w.dec>>]
    <3>1. /\ eng'.at = eng.at /\ eng'.req = eng.req
          /\ eng'.calls = eng.calls /\ eng'.turn = eng.turn
          /\ eng'.box = <<w.resume, w.dec>>
      BY <2>3, <1>0 DEF Off
    <3> QED BY <2>1, <2>2, <3>1 DEF Keeps, Boxes, NotesInv
  <2> QED BY <1>1, <2>2, <2>3
<1>4. CASE \/ \E b \in BOOLEAN, s \in Sessions : ResumePlan(b, s)
           \/ \E s \in Sessions : SteerRuns(s)
  <2>1. /\ eng'.at = eng.at /\ eng'.req = eng.req /\ eng'.calls = eng.calls
        /\ eng'.turn = eng.turn /\ eng'.box = eng.box /\ UNCHANGED evs
    BY <1>4, <1>0 DEF ResumePlan, SteerRuns, Off
  <2> QED BY <2>1 DEF Keeps, Boxes, NotesInv
<1>5. CASE UserNext
  BY <1>1, <1>5 DEF UserNext, Type, Key, PlanKey, Slash, Steer, Cancel
<1>6. CASE SendNext
  BY <1>1, <1>6 DEF SendNext, HandleSendQueues, HandleSendDrops,
                    HandleSendStarts
<1>7. CASE RunNext
  <2>1. PICK g \in Turns :
          \/ \E ok \in BOOLEAN : HandleStale(g, ok)
          \/ HandleRefused(g)
          \/ HandleStarted(g)
          \/ \E n \in Messages, p \in BOOLEAN, s \in Sessions :
                RunRefused(g, n, p, s) \/ RunStarts(g, n, p, s)
    BY <1>7 DEF RunNext
  <2>2. \/ UNCHANGED <<eng, evs>>
        \/ \E n \in Messages, p \in BOOLEAN, s \in Sessions :
              RunStarts(g, n, p, s)
    BY <2>1 DEF HandleStale, HandleRefused, HandleStarted, RunRefused
  <2> QED BY <1>1, <1>2, <2>2
<1>8. CASE ReadNext
  <2>1. UNCHANGED eng
    BY <1>8 DEF ReadNext, BeginRead, ReadEvent, HandleContent, HandleResult,
                HandleStatus, HandleProgress, HandleDiff, HandlePlanRequest,
                HandleError,
                HandleDone
  <2>2. UNCHANGED evs \/ \E g \in Turns : ReadEvent(g)
    BY <1>8 DEF ReadNext, BeginRead, HandleContent, HandleResult,
                HandleStatus, HandleProgress, HandleDiff, HandlePlanRequest,
                HandleError,
                HandleDone
  <2> QED BY <2>1, <2>2, <1>1
<1>9. CASE AnswerNext
  <2>1. CASE UNCHANGED <<eng, evs>>
    BY <2>1, <1>1
  <2> QED BY <1>9, <1>3, <1>4, <2>1
          DEF AnswerNext, HandleAsk, HandleMoreToDecide, HandleDecided,
              HandleDiffKey, HandlePlanAnswer, HandleSlash, HandleState
<1>10. CASE UNCHANGED vars
  BY <1>1, <1>10 DEF vars
<1> QED BY <1>5, <1>6, <1>7, <1>8, <1>9, <1>10

-----------------------------------------------------------------------------
(* The requests and the starts. *)

\* The channels after the engine sent: one has grown.
LEMMA SendsFacts ==
  ASSUME NotesInv, NEW es, Sends(es)
  PROVE  /\ evs' \in [Turns -> Seq(Notes)]
         /\ \A g \in Turns \ {eng.turn} : evs'[g] = evs[g]
         /\ eng.turn \in Turns => evs'[eng.turn] = evs[eng.turn] \o es
         /\ \A g \in Turns : \A i \in DOMAIN evs'[g] :
              \/ i \in DOMAIN evs[g] /\ evs'[g][i] = evs[g][i]
              \/ /\ g = eng.turn
                 /\ \E j \in DOMAIN es : evs'[g][i] = es[j]
<1>1. evs \in [Turns -> Seq(Notes)] /\ es \in Seq(Notes)
  BY DEF NotesInv, Sends
<1>2. CASE eng.turn \in Turns /\ Emit(es)
  <2>1. PICK s \in Seq(Notes) : s = evs[eng.turn]
    BY <1>1, <1>2
  <2>2. /\ s \o es \in Seq(Notes)
        /\ \A i \in DOMAIN (s \o es) :
             \/ i \in DOMAIN s /\ (s \o es)[i] = s[i]
             \/ i - Len(s) \in DOMAIN es /\ (s \o es)[i] = es[i - Len(s)]
    BY <1>1
  <2>3. evs' = [evs EXCEPT ![eng.turn] = s \o es]
    BY <1>2, <2>1 DEF Emit
  <2>4. /\ evs'[eng.turn] = s \o es
        /\ \A g \in Turns \ {eng.turn} : evs'[g] = evs[g]
        /\ evs' \in [Turns -> Seq(Notes)]
    BY <1>1, <1>2, <2>2, <2>3
  <2>5. \A i \in DOMAIN evs'[eng.turn] :
          \/ i \in DOMAIN s /\ evs'[eng.turn][i] = s[i]
          \/ \E j \in DOMAIN es : evs'[eng.turn][i] = es[j]
    BY <2>2, <2>4
  <2>6. evs'[eng.turn] = evs[eng.turn] \o es
    BY <2>1, <2>4
  <2>7. \A g \in Turns : \A i \in DOMAIN evs'[g] :
          \/ i \in DOMAIN evs[g] /\ evs'[g][i] = evs[g][i]
          \/ g = eng.turn /\ \E j \in DOMAIN es : evs'[g][i] = es[j]
    <3>1. ASSUME NEW g \in Turns, NEW i \in DOMAIN evs'[g]
          PROVE  \/ i \in DOMAIN evs[g] /\ evs'[g][i] = evs[g][i]
                 \/ g = eng.turn /\ \E j \in DOMAIN es : evs'[g][i] = es[j]
      <4>1. CASE g = eng.turn
        BY <2>1, <2>5, <4>1
      <4>2. CASE g # eng.turn
        BY <2>4, <4>2
      <4> QED BY <4>1, <4>2
    <3> QED BY <3>1
  <2> QED BY <2>4, <2>6, <2>7
<1>3. CASE es = <<>> /\ UNCHANGED evs
  <2>1. \A g \in Turns : evs[g] \o es = evs[g]
    BY <1>1, <1>3
  <2> QED BY <1>1, <1>3, <2>1
<1> QED BY <1>2, <1>3 DEF Sends

\* The channels after a read: one has lost its first event.
LEMMA ReadFacts ==
  ASSUME NotesInv, NEW g \in Turns, ReadEvent(g)
  PROVE  /\ evs' \in [Turns -> Seq(Notes)]
         /\ \A h \in Turns \ {g} : evs'[h] = evs[h]
         /\ \A h \in Turns : \A i \in DOMAIN evs'[h] :
              \E j \in DOMAIN evs[h] : evs'[h][i] = evs[h][j]
<1>1. evs \in [Turns -> Seq(Notes)]
  BY DEF NotesInv
<1>2. CASE evs[g] # <<>> /\ evs' = [evs EXCEPT ![g] = Tail(@)]
  <2>1. PICK s \in Seq(Notes) : s = evs[g]
    BY <1>1
  <2>2. /\ Tail(s) \in Seq(Notes)
        /\ \A i \in DOMAIN Tail(s) :
             i + 1 \in DOMAIN s /\ Tail(s)[i] = s[i + 1]
    BY <1>2, <2>1
  <2>3. /\ evs'[g] = Tail(s)
        /\ \A h \in Turns \ {g} : evs'[h] = evs[h]
        /\ evs' \in [Turns -> Seq(Notes)]
    BY <1>1, <1>2, <2>1, <2>2
  <2>4. \A i \in DOMAIN evs'[g] : \E j \in DOMAIN evs[g] :
          evs'[g][i] = evs[g][j]
    BY <2>1, <2>2, <2>3
  <2> QED BY <2>3, <2>4
<1>3. CASE UNCHANGED evs
  BY <1>1, <1>3
<1> QED BY <1>2, <1>3 DEF ReadEvent

\* Every step keeps what the channels hold in line with the engine.
LEMMA NotesStep ==
  ASSUME EngineInv, NotesInv, NamesInv, [Next]_vars
  PROVE  NotesInv'
<1>1. /\ eng.req \in Nat /\ evs \in [Turns -> Seq(Notes)]
      /\ \A g \in Turns : \A i \in DOMAIN evs[g] :
           /\ evs[g][i].req <= eng.req /\ evs[g][i].req \in Nat
           /\ eng.calls # <<>> /\ evs[g][i].req = eng.req => g = eng.turn
      /\ eng.calls \in Seq(Calls)
      /\ eng.calls # <<>> => eng.at \in {"asked", "running"} /\ eng.req # 0
      /\ eng.at = "asked" => eng.calls # <<>>
  <2>1. eng.req \in Nat
    BY DEF EngineInv
  <2>2. \A g \in Turns : \A i \in DOMAIN evs[g] : evs[g][i].req \in Nat
    <3>1. \A g \in Turns : \A i \in DOMAIN evs[g] : evs[g][i] \in Notes
      BY DEF NotesInv
    <3> QED BY <3>1 DEF Notes
  <2> QED BY <2>1, <2>2 DEF NotesInv
<1>2. Keeps \/ Drops \/ Opening
  BY EngineSends, OthersMove DEF Next
<1>3. /\ eng'.calls \in Seq(Calls)
      /\ eng'.calls # <<>> => eng'.at \in {"asked", "running"} /\ eng'.req # 0
      /\ eng'.at = "asked" => eng'.calls # <<>>
      /\ eng'.req \in Nat /\ eng'.req >= eng.req
  <2>1. CASE Keeps
    BY <1>1, <2>1 DEF Keeps
  <2>2. CASE Drops
    BY <1>1, <2>2 DEF Drops
  <2>3. CASE Opening
    BY <1>1, <2>3 DEF Opening
  <2> QED BY <1>2, <2>1, <2>2, <2>3
<1>4. ASSUME NEW g \in Turns, NEW n \in Nat, n <= eng.req,
             eng.calls # <<>> /\ n = eng.req => g = eng.turn
      PROVE  /\ n <= eng'.req
             /\ eng'.calls # <<>> /\ n = eng'.req => g = eng'.turn
  BY <1>1, <1>2, <1>3, <1>4 DEF Keeps, Drops, Opening
<1>5. CASE EngineNext
  <2>1. PICK es : Sends(es)
    BY <1>5, EngineSends
  <2>2. evs' \in [Turns -> Seq(Notes)]
    BY <2>1, SendsFacts
  <2>3. ASSUME NEW g \in Turns, NEW i \in DOMAIN evs'[g]
        PROVE  /\ evs'[g][i].req <= eng'.req
               /\ eng'.calls # <<>> /\ evs'[g][i].req = eng'.req
                    => g = eng'.turn
    <3>1. CASE i \in DOMAIN evs[g] /\ evs'[g][i] = evs[g][i]
      BY <1>1, <1>4, <3>1
    <3>2. CASE /\ g = eng.turn
               /\ \E j \in DOMAIN es : evs'[g][i] = es[j]
      <4>1. \/ evs'[g][i].req = 0
            \/ eng'.req = eng.req + 1 /\ evs'[g][i].req = eng'.req
        BY <2>1, <3>2 DEF Sends
      <4>2. CASE evs'[g][i].req = 0
        BY <1>3, <4>2
      <4>3. CASE eng'.req = eng.req + 1 /\ evs'[g][i].req = eng'.req
        <5>1. Opening
          BY <1>1, <1>2, <4>3 DEF Keeps, Drops
        <5> QED BY <1>3, <3>2, <4>3, <5>1 DEF Opening
      <4> QED BY <4>1, <4>2, <4>3
    <3> QED BY <2>1, <3>1, <3>2, SendsFacts
  <2> QED BY <1>3, <2>2, <2>3 DEF NotesInv
<1>6. CASE \E g \in Turns : ReadEvent(g)
  <2>1. PICK g \in Turns : ReadEvent(g)
    BY <1>6
  <2>2. /\ evs' \in [Turns -> Seq(Notes)]
        /\ \A h \in Turns : \A i \in DOMAIN evs'[h] :
             \E j \in DOMAIN evs[h] : evs'[h][i] = evs[h][j]
    BY <2>1, ReadFacts
  <2>3. ASSUME NEW h \in Turns, NEW i \in DOMAIN evs'[h]
        PROVE  /\ evs'[h][i].req <= eng'.req
               /\ eng'.calls # <<>> /\ evs'[h][i].req = eng'.req
                    => h = eng'.turn
    <3>1. PICK j \in DOMAIN evs[h] : evs'[h][i] = evs[h][j]
      BY <2>2
    <3> QED BY <1>1, <1>4, <3>1
  <2> QED BY <1>3, <2>2, <2>3 DEF NotesInv
<1>7. CASE UNCHANGED evs
  <2>1. \A g \in Turns : \A i \in DOMAIN evs[g] :
          /\ evs[g][i].req <= eng'.req
          /\ eng'.calls # <<>> /\ evs[g][i].req = eng'.req => g = eng'.turn
    BY <1>1, <1>4
  <2> QED BY <1>1, <1>3, <1>7, <2>1 DEF NotesInv
<1> QED BY <1>5, <1>6, <1>7, OthersMove DEF Next

\* The controller goes on, is cleared, or is given the request of an event.
Controls ==
  \/ appr' = appr
  \/ appr'.req = 0 /\ DOMAIN appr'.dec = {}
  \/ /\ DOMAIN appr'.dec = {}
     /\ \E w \in DOMAIN work :
          "event" \in DOMAIN w /\ appr'.req = w.event.req
  \/ /\ appr'.req = appr.req
     /\ \A c \in DOMAIN appr'.dec : appr'.dec[c] # "diff"

\* Every step moves the controller so.
LEMMA StepControls ==
  ASSUME ApprovalInv, NamesInv, [Next]_vars
  PROVE  Controls
<1>1. CASE UNCHANGED appr
  BY <1>1 DEF Controls
<1>2. CASE \E r \in Requests : HandleAsk(r, Batches[r])
  <2>1. PICK r \in Requests : HandleAsk(r, Batches[r])
    BY <1>2
  <2>2. PICK w : w = EventMsg(AskEvent(r, Batches[r]))
    OBVIOUS
  <2>3. w \in DOMAIN work /\ appr' = Request(Batches[r], r)
    BY <2>1, <2>2 DEF HandleAsk, Queued
  <2>4. "event" \in DOMAIN w /\ w.event.req = r
    BY <2>2 DEF EventMsg, AskEvent
  <2>5. appr'.req = r /\ DOMAIN appr'.dec = {}
    BY <2>3 DEF Request
  <2> QED BY <2>3, <2>4, <2>5 DEF Controls
<1>3. CASE \E c \in Calls, d \in Decisions : HandleMoreToDecide(c, d)
  <2>1. PICK c \in Calls, d \in Decisions : HandleMoreToDecide(c, d)
    BY <1>3
  <2>2. appr' = Response(appr, c, d).ctl
    BY <2>1 DEF HandleMoreToDecide
  <2> QED BY <2>2, ResponseModest DEF ApprovalInv, NamesInv, Controls
<1>4. CASE \E c \in Calls, d \in Decisions : HandleDecided(c, d)
  <2>1. appr' = NoRequest
    BY <1>4 DEF HandleDecided, Cleared
  <2>2. appr'.req = 0 /\ DOMAIN appr'.dec = {}
    BY <2>1 DEF NoRequest, None
  <2> QED BY <2>2 DEF Controls
<1>5. CASE UserNext
  BY <1>1, <1>5 DEF UserNext, Type, Key, PlanKey, Slash, Steer, Cancel
<1>6. CASE SendNext
  BY <1>1, <1>6 DEF SendNext, HandleSendQueues, HandleSendDrops,
                    HandleSendStarts
<1>7. CASE RunNext
  <2>1. PICK g \in Turns :
          \/ \E ok \in BOOLEAN : HandleStale(g, ok)
          \/ HandleRefused(g)
          \/ HandleStarted(g)
          \/ \E n \in Messages, p \in BOOLEAN, s \in Sessions :
                RunRefused(g, n, p, s) \/ RunStarts(g, n, p, s)
    BY <1>7 DEF RunNext
  <2>2. UNCHANGED appr
    BY <2>1 DEF HandleStale, HandleRefused, HandleStarted, RunRefused,
                RunStarts
  <2> QED BY <1>1, <2>2
<1>8. CASE ReadNext
  BY <1>1, <1>8 DEF ReadNext, BeginRead, ReadEvent, HandleContent,
              HandleResult, HandleStatus, HandleProgress, HandleDiff,
              HandlePlanRequest,
              HandleError, HandleDone
<1>9. CASE AnswerNext
  BY <1>1, <1>2, <1>3, <1>4, <1>9
     DEF AnswerNext, HandleDiffKey, ResumeApproval, HandlePlanAnswer,
         ResumePlan, SteerRuns, HandleSlash, HandleState
<1>10. CASE EngineNext
  BY <1>1, <1>10 DEF EngineNext, Chats, Asks, ShowsDiff, Decides, Reports,
              Plans, PlanApproved, Steered, Fails, Finishes, Frees,
              EngineFrame
<1>11. CASE UNCHANGED vars
  BY <1>1, <1>11 DEF vars
<1> QED BY <1>5, <1>6, <1>7, <1>8, <1>9, <1>10, <1>11 DEF Next

\* Every step keeps the names among the requests that were made.
LEMMA NamesStep ==
  ASSUME UiInv, NotesInv, NamesInv, StartInv, [Next]_vars
  PROVE  NamesInv'
<1>1. /\ eng.req \in Nat /\ eng'.req \in Nat /\ eng'.req >= eng.req
  <2>1. Keeps \/ Drops \/ Opening
    BY EngineSends, OthersMove DEF Next, UiInv
  <2>2. eng.req \in Nat
    BY DEF UiInv, EngineInv
  <2> QED BY <2>1, <2>2 DEF Keeps, Drops, Opening
<1>2. /\ appr'.req \in 0..eng'.req
      /\ \A c \in DOMAIN appr'.dec : appr'.dec[c] # "diff"
  <2>1. Controls
    BY StepControls DEF UiInv
  <2>2. CASE appr' = appr
    BY <1>1, <2>2 DEF NamesInv
  <2>3. CASE appr'.req = 0 /\ DOMAIN appr'.dec = {}
    BY <1>1, <2>3
  <2>4. CASE /\ DOMAIN appr'.dec = {}
             /\ \E w \in DOMAIN work :
                  "event" \in DOMAIN w /\ appr'.req = w.event.req
    BY <1>1, <2>4 DEF NamesInv
  <2>5. CASE /\ appr'.req = appr.req
             /\ \A c \in DOMAIN appr'.dec : appr'.dec[c] # "diff"
    BY <1>1, <2>5 DEF NamesInv
  <2> QED BY <2>1, <2>2, <2>3, <2>4, <2>5 DEF Controls
<1>3. PICK new : Moved(new) /\ \A x \in new : Arrives(x)
  BY StepArrives DEF Arriving, UiInv
<1>4. ASSUME NEW w \in DOMAIN work'
      PROVE  /\ "event" \in DOMAIN w =>
                  w.event.req \in 0..eng'.req /\ "resume" \notin DOMAIN w
             /\ "resume" \in DOMAIN w =>
                  w.resume \in 0..eng'.req /\ Modest(w.dec)
  <2>1. CASE w \in DOMAIN work
    BY <1>1, <2>1 DEF NamesInv
  <2>2. CASE Heard(w)
    <3>1. w.event.req \in 0..eng.req
      <4>1. CASE w.event.req = 0
        BY <1>1, <4>1
      <4>2. CASE \E g \in Turns : evs[g] # <<>> /\ w.event = evs[g][1]
        <5>1. PICK g \in Turns : evs[g] # <<>> /\ w.event = evs[g][1]
          BY <4>2
        <5>2. evs[g] \in Seq(Notes) /\ 1 \in DOMAIN evs[g]
          BY <5>1 DEF NotesInv
        <5>3. evs[g][1] \in Notes /\ evs[g][1].req <= eng.req
          BY <5>2 DEF NotesInv
        <5> QED BY <1>1, <5>1, <5>3 DEF Notes
      <4> QED BY <2>2, <4>1, <4>2 DEF Heard
    <3> QED BY <1>1, <2>2, <3>1 DEF Heard
  <2>3. CASE Answered(w)
    BY <1>1, <2>3 DEF Answered, NamesInv
  <2>4. CASE Neutral(w) \/ Sent(w) \/ Ran(w) \/ w = ReadCmd(ch')
             \/ w = Reading(ch')
    BY <2>4 DEF Neutral, Sent, Ran, ReadCmd, Reading
  <2> QED BY <1>3, <2>1, <2>2, <2>3, <2>4 DEF Moved, Arrives
<1>5. eng'.box # <<>> => eng'.box[1] \in 0..eng'.req /\ Modest(eng'.box[2])
  <2>1. Boxes
    BY EngineSends, OthersMove DEF Next, UiInv
  <2>2. CASE eng'.box = eng.box
    BY <1>1, <2>2 DEF NamesInv
  <2>3. CASE \E w \in DOMAIN work : /\ "resume" \in DOMAIN w
                                    /\ eng'.box = <<w.resume, w.dec>>
    BY <1>1, <2>3 DEF NamesInv
  <2> QED BY <2>1, <2>2, <2>3 DEF Boxes
<1> QED BY <1>2, <1>4, <1>5 DEF NamesInv

\* Every step keeps the sends counted by the generation.
LEMMA GenGrows ==
  ASSUME gen \in Nat, [Next]_vars
  PROVE  gen' \in Nat /\ gen' >= gen
<1>1. gen' = gen \/ gen' = gen + 1
  <2>1. CASE UserNext
    BY <2>1 DEF UserNext, Type, Key, PlanKey, Slash, Steer, Cancel
  <2>2. CASE SendNext
    BY <2>2 DEF SendNext, HandleSendQueues, HandleSendDrops,
                HandleSendStarts
  <2>3. CASE RunNext
    <3>1. PICK g \in Turns :
            \/ \E ok \in BOOLEAN : HandleStale(g, ok)
            \/ HandleRefused(g)
            \/ HandleStarted(g)
            \/ \E n \in Messages, p \in BOOLEAN, s \in Sessions :
                  RunRefused(g, n, p, s) \/ RunStarts(g, n, p, s)
      BY <2>3 DEF RunNext
    <3> QED BY <3>1 DEF HandleStale, HandleRefused, HandleStarted,
                        RunRefused, RunStarts
  <2>4. CASE ReadNext
    BY <2>4 DEF ReadNext, BeginRead, ReadEvent, HandleContent,
                HandleResult, HandleStatus, HandleProgress, HandleDiff,
                HandlePlanRequest,
                HandleError, HandleDone
  <2>5. CASE AnswerNext
    BY <2>5 DEF AnswerNext, HandleAsk, HandleMoreToDecide, HandleDecided,
                HandleDiffKey, ResumeApproval, HandlePlanAnswer,
                ResumePlan, SteerRuns, HandleSlash, HandleState
  <2>6. CASE EngineNext
    BY <2>6 DEF EngineNext, Chats, Asks, ShowsDiff, Decides, Reports, Plans,
                PlanApproved, Steered, Fails, Finishes, Frees, EngineFrame
  <2>7. CASE UNCHANGED vars
    BY <2>7 DEF vars
  <2> QED BY <2>1, <2>2, <2>3, <2>4, <2>5, <2>6, <2>7 DEF Next
<1> QED BY <1>1

\* What is about the start of a turn, of those that came.
LEMMA Openers ==
  ASSUME NEW x, NEW g, Arrives(x), Starts(x, g)
  PROVE  Opens(x)
BY DEF Arrives, Starts, Opens, Neutral, Heard, Answered, ReadCmd, Reading

\* Every step keeps the start of a turn in one place.
LEMMA StartStep ==
  ASSUME UiInv, NotesInv, NamesInv, StartInv, [Next]_vars
  PROVE  StartInv'
<1>1. PICK new : /\ Moved(new) /\ \A x \in new : Arrives(x)
                 /\ \A x, y \in new : Opens(x) => y = x
  BY StepArrives DEF Arriving
<1>2. gen \in Nat /\ gen' \in Nat /\ gen' >= gen
  BY GenGrows DEF UiInv, ScreenInv
<1>3. ASSUME NEW w \in DOMAIN work', NEW g \in Turns, Starts(w, g)
      PROVE  /\ g <= gen' /\ work'[w] = 1
             /\ \A v \in DOMAIN work' : Starts(v, g) => v = w
  <2>0. work'[w] \in Nat /\ work'[w] > 0
    BY <1>1 DEF Moved, IsABag
  <2>1. CASE w \in DOMAIN work /\ w \notin new
    <3>1. g <= gen /\ work[w] = 1
          /\ \A v \in DOMAIN work : Starts(v, g) => v = w
      BY <1>3, <2>1 DEF StartInv
    <3>2. work'[w] = 1
      BY <1>1, <2>0, <2>1, <3>1 DEF Moved
    <3>3. ASSUME NEW v \in DOMAIN work', Starts(v, g), v # w
          PROVE  FALSE
      <4>1. v \in new /\ v \notin DOMAIN work
        BY <1>1, <3>1, <3>3 DEF Moved
      <4>2. Opens(v)
        BY <1>1, <3>3, <4>1, Openers
      <4>3. CASE Sent(v)
        BY <1>2, <3>1, <3>3, <4>3 DEF Sent, Starts, Turns
      <4>4. CASE Ran(v)
        <5>1. PICK u \in DOMAIN work, h \in Turns :
                /\ Starts(u, h) /\ u \notin DOMAIN work'
                /\ DOMAIN v = {"ran", "ok"} /\ v.ran = h
          BY <4>4 DEF Ran
        <5>2. h = g
          BY <3>3, <5>1 DEF Starts
        <5> QED BY <3>1, <5>1, <5>2
      <4> QED BY <4>2, <4>3, <4>4 DEF Opens
    <3> QED BY <1>2, <3>1, <3>2, <3>3 DEF Turns
  <2>2. CASE w \in new
    <3>1. Opens(w)
      BY <1>1, <1>3, <2>2, Openers
    <3>2. CASE Sent(w)
      <4>1. g = gen + 1 /\ gen' = gen + 1
        BY <1>3, <3>2 DEF Sent, Starts
      <4>2. \A v \in DOMAIN work : ~Starts(v, g)
        BY <1>2, <4>1 DEF StartInv
      <4>3. w \notin DOMAIN work
        BY <1>3, <4>2
      <4>4. work'[w] = 1
        BY <1>1, <2>2, <4>3 DEF Moved
      <4>5. \A v \in DOMAIN work' : Starts(v, g) => v = w
        BY <1>1, <2>2, <3>1, <4>2 DEF Moved
      <4> QED BY <1>2, <4>1, <4>4, <4>5
    <3>3. CASE Ran(w)
      <4>1. PICK u \in DOMAIN work, h \in Turns :
              /\ Starts(u, h) /\ u \notin DOMAIN work'
              /\ DOMAIN w = {"ran", "ok"} /\ w.ran = h
        BY <3>3 DEF Ran
      <4>2. h = g
        BY <1>3, <4>1 DEF Starts
      <4>3. g <= gen /\ \A v \in DOMAIN work : Starts(v, g) => v = u
        BY <4>1, <4>2 DEF StartInv
      <4>4. \A v \in DOMAIN work' : Starts(v, g) => v \notin DOMAIN work
        BY <4>1, <4>3
      <4>5. work'[w] = 1
        BY <1>1, <1>3, <2>2, <4>4 DEF Moved
      <4>6. \A v \in DOMAIN work' : Starts(v, g) => v = w
        BY <1>1, <2>2, <3>1, <4>4 DEF Moved
      <4> QED BY <1>2, <4>3, <4>5, <4>6 DEF Turns
    <3> QED BY <3>1, <3>2, <3>3 DEF Opens
  <2> QED BY <1>1, <2>1, <2>2 DEF Moved
<1> QED BY <1>3 DEF StartInv, Starts

\* The stream is attached to a turn once it started, and only then.
LEMMA Attaches ==
  ASSUME [Next]_vars, ch' # ch, ch' # None
  PROVE  \E g \in Turns : HandleStarted(g) /\ ch' = g
<1>1. CASE UserNext
  BY <1>1 DEF UserNext, Type, Key, PlanKey, Slash, Steer, Cancel
<1>2. CASE SendNext
  BY <1>2 DEF SendNext, HandleSendQueues, HandleSendDrops, HandleSendStarts
<1>3. CASE RunNext
  <2>1. PICK g \in Turns :
          \/ \E ok \in BOOLEAN : HandleStale(g, ok)
          \/ HandleRefused(g)
          \/ HandleStarted(g)
          \/ \E n \in Messages, p \in BOOLEAN, s \in Sessions :
                RunRefused(g, n, p, s) \/ RunStarts(g, n, p, s)
    BY <1>3 DEF RunNext
  <2> QED BY <2>1 DEF HandleStale, HandleRefused, HandleStarted, RunRefused,
                      RunStarts
<1>4. CASE ReadNext
  BY <1>4 DEF ReadNext, BeginRead, ReadEvent, HandleContent, HandleResult,
              HandleStatus, HandleProgress, HandleDiff, HandlePlanRequest,
              HandleError,
              HandleDone
<1>5. CASE AnswerNext
  BY <1>5 DEF AnswerNext, HandleAsk, HandleMoreToDecide, HandleDecided,
              HandleDiffKey, ResumeApproval, HandlePlanAnswer, ResumePlan,
              SteerRuns, HandleSlash, HandleState
<1>6. CASE EngineNext
  BY <1>6 DEF EngineNext, Chats, Asks, ShowsDiff, Decides, Reports, Plans,
              PlanApproved, Steered, Fails, Finishes, Frees, EngineFrame
<1>7. CASE UNCHANGED vars
  BY <1>7 DEF vars
<1> QED BY <1>1, <1>2, <1>3, <1>4, <1>5, <1>6, <1>7 DEF Next

\* Once the interface was told that a turn started, nothing is about its
\* start any more.
LEMMA StartedLeaves ==
  ASSUME IsABag(work), gen \in Nat, StartInv, NEW g \in Turns,
         HandleStarted(g)
  PROVE  ~Unattached(g)'
<1>1. PICK w, x : w = RanMsg(g, TRUE) /\ x = ReadCmd(g)
  OBVIOUS
<1>2. /\ Queued(w) /\ Becomes(w, {x})
      /\ Starts(w, g) /\ ~Starts(x, g) /\ x # w /\ gen' = gen
  BY <1>1 DEF HandleStarted, Starts, RanMsg, ReadCmd
<1>3. w \in DOMAIN work
  BY <1>2 DEF Queued
<1>4. /\ g <= gen /\ work[w] = 1
      /\ \A v \in DOMAIN work : Starts(v, g) => v = w
  BY <1>2, <1>3 DEF StartInv
<1>5. DOMAIN work' \subseteq DOMAIN work \cup {x} /\ w \notin DOMAIN work'
  BY <1>2, <1>4, BecomesFacts
<1>6. \A v \in DOMAIN work' : ~Starts(v, g)
  BY <1>2, <1>4, <1>5
<1>7. ~(g > gen')
  BY <1>2, <1>4 DEF Turns
<1> QED BY <1>6, <1>7 DEF Unattached, Starts

\* What is unattached after a step was so before.
LEMMA StillUnattached ==
  ASSUME UiInv, NotesInv, NamesInv, StartInv, [Next]_vars,
         NEW g \in Turns, Unattached(g)'
  PROVE  Unattached(g)
<1>1. gen \in Nat /\ gen' \in Nat /\ gen' >= gen
  BY GenGrows DEF UiInv, ScreenInv
<1>2. CASE g > gen'
  BY <1>1, <1>2 DEF Unattached, Turns
<1>3. CASE \E w \in DOMAIN work' : Starts(w, g)
  <2>1. PICK w \in DOMAIN work' : Starts(w, g)
    BY <1>3
  <2>2. CASE w \in DOMAIN work
    BY <2>1, <2>2 DEF Unattached
  <2>3. CASE w \notin DOMAIN work
    <3>1. Arrives(w)
      BY <2>3, StepArrives DEF Arriving, Moved
    <3>2. Opens(w)
      BY <2>1, <3>1, Openers
    <3>3. CASE Sent(w)
      BY <1>1, <2>1, <3>3 DEF Sent, Starts, Unattached
    <3>4. CASE Ran(w)
      BY <2>1, <3>4 DEF Ran, Starts, Unattached
    <3> QED BY <3>2, <3>3, <3>4 DEF Opens
  <2> QED BY <2>2, <2>3
<1> QED BY <1>2, <1>3 DEF Unattached, Starts

\* Every step keeps the events of a turn that is not attached unread.
LEMMA UnseenStep ==
  ASSUME UiInv, NotesInv, NamesInv, StartInv, UnseenInv, [Next]_vars
  PROVE  UnseenInv'
<1> SUFFICES ASSUME NEW g \in Turns, Unattached(g)'
             PROVE  Unseen(g)'
  BY DEF UnseenInv
<1>1. Unseen(g)
  BY StillUnattached DEF UnseenInv
<1>2. ch' # g
  <2>1. g # None
    BY DEF Turns, None
  <2>2. IsABag(work) /\ gen \in Nat
    BY DEF UiInv, MessageInv, ScreenInv
  <2> QED BY <1>1, <2>1, <2>2, Attaches, StartedLeaves DEF Unseen
<1>3. PICK new : Moved(new) /\ \A x \in new : Arrives(x)
  BY StepArrives DEF Arriving
<1>4. ReadCmd(g) \notin DOMAIN work' /\ Reading(g) \notin DOMAIN work'
  <2>1. ASSUME NEW x \in {ReadCmd(g), Reading(g)}
        PROVE  ~Arrives(x)
    <3>1. DOMAIN x = {"read"} \/ DOMAIN x = {"reading"}
      BY DEF ReadCmd, Reading
    <3>2. ~Neutral(x) /\ ~Heard(x) /\ ~Answered(x) /\ ~Sent(x) /\ ~Ran(x)
      BY <3>1 DEF Neutral, Heard, Answered, Sent, Ran
    <3>3. x # ReadCmd(ch') /\ x # Reading(ch')
      <4>1. /\ ReadCmd(ch').read = ch' /\ ReadCmd(g).read = g
            /\ Reading(ch').reading = ch' /\ Reading(g).reading = g
            /\ DOMAIN ReadCmd(ch') = {"read"} /\ DOMAIN ReadCmd(g) = {"read"}
            /\ DOMAIN Reading(ch') = {"reading"}
            /\ DOMAIN Reading(g) = {"reading"}
        BY DEF ReadCmd, Reading
      <4> QED BY <1>2, <4>1
    <3> QED BY <3>2, <3>3 DEF Arrives
  <2> QED BY <1>1, <1>3, <2>1 DEF Moved, Unseen
<1>5. eng.req \in Nat
  BY DEF UiInv, EngineInv
<1>6. Previews(evs'[g]) = {}
  <2>1. CASE EngineNext
    <3>1. PICK es : Sends(es)
      BY <2>1, EngineSends DEF UiInv
    <3>2. ~(g = eng.turn /\ ShowsDiff)
      <4> SUFFICES ASSUME g = eng.turn, ShowsDiff PROVE FALSE
        OBVIOUS
      <4>1. eng.box # <<>> /\ eng.box[1] = eng.req /\ eng.at = "asked"
        BY DEF ShowsDiff
      <4>2. Asking(g)
        BY <4>1 DEF Asking, NotesInv
      <4>3. Quoted(eng.req)
        BY <4>1 DEF Quoted
      <4> QED BY <1>1, <4>2, <4>3 DEF Unseen
    <3>3. ASSUME NEW i \in DOMAIN evs'[g], evs'[g][i].kind = "diff"
          PROVE  FALSE
      <4>1. CASE i \in DOMAIN evs[g] /\ evs'[g][i] = evs[g][i]
        BY <1>1, <3>3, <4>1 DEF Unseen, Previews
      <4>2. CASE g = eng.turn /\ \E j \in DOMAIN es : evs'[g][i] = es[j]
        BY <3>1, <3>2, <3>3, <4>2 DEF Sends
      <4> QED BY <3>1, <4>1, <4>2, SendsFacts
    <3> QED BY <3>3 DEF Previews
  <2>2. CASE \E h \in Turns : ReadEvent(h)
    <3>1. PICK h \in Turns : ReadEvent(h)
      BY <2>2
    <3>2. h # g
      BY <1>1, <3>1 DEF ReadEvent, Queued, Unseen
    <3>3. evs'[g] = evs[g]
      BY <3>1, <3>2, ReadFacts
    <3> QED BY <1>1, <3>3 DEF Unseen
  <2>3. CASE UNCHANGED evs
    BY <1>1, <2>3 DEF Unseen
  <2> QED BY <2>1, <2>2, <2>3, OthersMove DEF Next, UiInv
<1>7. Asking(g)' => ~Quoted(eng.req)'
  <2> SUFFICES ASSUME eng'.turn = g, eng'.calls # <<>>,
                      \/ appr'.req = eng'.req
                      \/ \E w \in DOMAIN work' : Names(w, eng'.req)
                      \/ eng'.box # <<>> /\ eng'.box[1] = eng'.req
               PROVE  FALSE
    BY DEF Asking, Quoted, Names
  <2>1. Keeps \/ Opening
    BY EngineSends, OthersMove DEF Next, UiInv, Drops
  <2>2. CASE Opening
    <3>1. eng'.req = eng.req + 1 /\ eng'.box = eng.box
          /\ UNCHANGED <<work, appr>>
      BY <2>2 DEF Opening
    <3>2. appr.req <= eng.req /\ (eng.box # <<>> => eng.box[1] <= eng.req)
      BY <1>5 DEF NamesInv
    <3>3. \A w \in DOMAIN work : ~Names(w, eng.req + 1)
      BY <1>5 DEF NamesInv, Names
    <3>4. appr.req \in Int /\ (eng.box # <<>> => eng.box[1] \in Int)
      BY <1>5 DEF NamesInv
    <3> QED BY <1>5, <3>1, <3>2, <3>3, <3>4
  <2>3. CASE Keeps
    <3>1. eng'.req = eng.req /\ Asking(g)
      BY <2>3 DEF Keeps, Asking
    <3>2. ~Quoted(eng.req)
      BY <1>1, <3>1 DEF Unseen
    <3>3. eng.req # 0
      BY <3>1 DEF Asking, NotesInv
    <3>4. appr'.req # eng.req
      <4>1. Controls
        BY StepControls DEF UiInv
      <4> QED BY <3>2, <3>3, <4>1 DEF Controls, Quoted, Names
    <3>5. ASSUME NEW w \in DOMAIN work', Names(w, eng.req)
          PROVE  FALSE
      <4>1. w \notin DOMAIN work
        BY <3>2, <3>5 DEF Quoted
      <4>2. Arrives(w)
        BY <1>3, <4>1 DEF Moved
      <4>3. CASE Heard(w)
        <5>1. w.event.req = eng.req
          BY <3>5, <4>3 DEF Heard, Names
        <5>2. PICK h \in Turns : /\ Reading(h) \in DOMAIN work
                                 /\ evs[h] # <<>> /\ w.event = evs[h][1]
          BY <3>3, <4>3, <5>1 DEF Heard
        <5>3. evs[h] \in Seq(Notes) /\ 1 \in DOMAIN evs[h]
          BY <5>2 DEF NotesInv
        <5>4. h = eng.turn
          BY <3>1, <5>1, <5>2, <5>3 DEF NotesInv, Asking
        <5> QED BY <1>1, <3>1, <5>2, <5>4 DEF Asking, Unseen
      <4>4. CASE Answered(w)
        BY <3>2, <3>5, <4>4 DEF Answered, Names, Quoted
      <4>5. CASE Neutral(w) \/ Sent(w) \/ Ran(w) \/ w = ReadCmd(ch')
                 \/ w = Reading(ch')
        BY <3>5, <4>5 DEF Neutral, Sent, Ran, ReadCmd, Reading, Names
      <4> QED BY <4>2, <4>3, <4>4, <4>5 DEF Arrives
    <3>6. ~(eng'.box # <<>> /\ eng'.box[1] = eng.req)
      <4>1. Boxes
        BY EngineSends, OthersMove DEF Next, UiInv
      <4> QED BY <3>2, <4>1 DEF Boxes, Quoted, Names
    <3> QED BY <3>1, <3>4, <3>5, <3>6
  <2> QED BY <2>1, <2>2, <2>3
<1> QED BY <1>2, <1>4, <1>6, <1>7 DEF Unseen, ReadCmd, Reading, Previews

-----------------------------------------------------------------------------
(* The readers and what they owe. *)

\* One element is replaced by a few others.
Swap(w, new) ==
  Queued(w) /\ w \notin new /\ IsFiniteSet(new) /\ Becomes(w, new)

ReadsIn(new) == Cardinality({x \in new : Reads(x)})
AnswersIn(new) == Cardinality({x \in new : Answers(x)})

\* Copies are counted.
LEMMA CopiesType ==
  ASSUME IsABag(work)
  PROVE  \A x : Copies(work, x) \in Nat
BY DEF Copies, IsABag

\* What is taken out was there, and what is put in is.
LEMMA SwapKeys ==
  ASSUME IsABag(work), NEW w, NEW new, Swap(w, new)
  PROVE  w \in DOMAIN work /\ new \subseteq DOMAIN work'
<1>1. w \in DOMAIN work /\ Queued(w) /\ Becomes(w, new) /\ w \notin new
  BY DEF Swap, Queued
<1>2. \A x : Copies(work', x) =
              Copies(work, x) - (IF x = w THEN 1 ELSE 0)
                              + (IF x \in new THEN 1 ELSE 0)
  BY <1>1, BecomesCopies
<1>3. \A x \in new : Copies(work', x) = Copies(work, x) + 1
  BY <1>1, <1>2, CopiesType
<1>4. ASSUME NEW x \in new, x \notin DOMAIN work' PROVE FALSE
  <2>1. Copies(work', x) = 0
    BY <1>4 DEF Copies
  <2> QED BY <1>3, <2>1, CopiesType
<1> QED BY <1>1, <1>4

\* The readers after such a step, while the stream is the same.
LEMMA ReadersStep ==
  ASSUME IsABag(work), IsFiniteSet(Tokens(work)), NEW w, NEW new,
         Swap(w, new), ch' = ch
  PROVE  /\ Readers \in Nat /\ ReadsIn(new) \in Nat
         /\ Readers' = Readers - (IF Reads(w) THEN 1 ELSE 0) + ReadsIn(new)
<1> DEFINE S == {x \in DOMAIN work \cup DOMAIN work' : Reads(x)}
<1>1. w \in DOMAIN work /\ new \subseteq DOMAIN work'
  BY SwapKeys
<1>2. \A x : Reads(x)' <=> Reads(x)
  BY DEF Reads, ReadCmd, Reading
<1>3. Among(work, S) = {t \in Tokens(work) : Reads(t[1])}
  BY DEF Among, Tokens
<1>4. Among(work', S) = {t \in Tokens(work') : Reads(t[1])}
  BY DEF Among, Tokens
<1>5. {t \in Tokens(work') : Reads(t[1])} =
        {t \in Tokens(work') : Reads(t[1])'}
  BY <1>2
<1>6. new \cap S = {x \in new : Reads(x)}
  BY <1>1
<1>7. w \in S <=> Reads(w)
  BY <1>1
<1> HIDE DEF S
<1>8. /\ Cardinality(Among(work, S)) \in Nat
      /\ Cardinality(new \cap S) \in Nat
      /\ Cardinality(Among(work', S)) =
           Cardinality(Among(work, S)) - (IF w \in S THEN 1 ELSE 0)
           + Cardinality(new \cap S)
  <2>1. PICK T : T = S
    OBVIOUS
  <2>2. /\ Cardinality(Among(work, T)) \in Nat
        /\ Cardinality(new \cap T) \in Nat
        /\ Cardinality(Among(work', T)) =
             Cardinality(Among(work, T)) - (IF w \in T THEN 1 ELSE 0)
             + Cardinality(new \cap T)
    BY Tally DEF Swap
  <2> QED BY <2>1, <2>2
<1>9. Readers' = Cardinality(Among(work', S))
  BY <1>4, <1>5 DEF Readers
<1> QED BY <1>3, <1>6, <1>7, <1>8, <1>9 DEF Readers, ReadsIn

\* The answers after such a step, while the engine asks about the same.
LEMMA AnswersStep ==
  ASSUME IsABag(work), IsFiniteSet(Tokens(work)), NEW w, NEW new,
         Swap(w, new), eng'.req = eng.req
  PROVE  /\ Answering \in Nat /\ AnswersIn(new) \in Nat
         /\ Answering' = Answering - (IF Answers(w) THEN 1 ELSE 0)
                         + AnswersIn(new)
<1> DEFINE S == {x \in DOMAIN work \cup DOMAIN work' : Answers(x)}
<1>1. w \in DOMAIN work /\ new \subseteq DOMAIN work'
  BY SwapKeys
<1>2. \A x : Answers(x)' <=> Answers(x)
  BY DEF Answers
<1>3. Among(work, S) = {t \in Tokens(work) : Answers(t[1])}
  BY DEF Among, Tokens
<1>4. Among(work', S) = {t \in Tokens(work') : Answers(t[1])}
  BY DEF Among, Tokens
<1>5. {t \in Tokens(work') : Answers(t[1])} =
        {t \in Tokens(work') : Answers(t[1])'}
  BY <1>2
<1>6. new \cap S = {x \in new : Answers(x)}
  BY <1>1
<1>7. w \in S <=> Answers(w)
  BY <1>1
<1> HIDE DEF S
<1>8. /\ Cardinality(Among(work, S)) \in Nat
      /\ Cardinality(new \cap S) \in Nat
      /\ Cardinality(Among(work', S)) =
           Cardinality(Among(work, S)) - (IF w \in S THEN 1 ELSE 0)
           + Cardinality(new \cap S)
  <2>1. PICK T : T = S
    OBVIOUS
  <2>2. /\ Cardinality(Among(work, T)) \in Nat
        /\ Cardinality(new \cap T) \in Nat
        /\ Cardinality(Among(work', T)) =
             Cardinality(Among(work, T)) - (IF w \in T THEN 1 ELSE 0)
             + Cardinality(new \cap T)
    BY Tally DEF Swap
  <2> QED BY <2>1, <2>2
<1>9. Answering' = Cardinality(Among(work', S))
  BY <1>4, <1>5 DEF Answering
<1> QED BY <1>3, <1>6, <1>7, <1>8, <1>9 DEF Answering, AnswersIn

\* The bag stays finite.
LEMMA SwapFinite ==
  ASSUME IsABag(work), IsFiniteSet(Tokens(work)), NEW w, NEW new,
         Swap(w, new)
  PROVE  IsFiniteSet(Tokens(work))'
<1>1. PICK S : S = {}
  OBVIOUS
<1> QED BY <1>1, Tally DEF Swap

\* What the counts are.
LEMMA CountTypes ==
  ASSUME UiInv, NotesInv, IsFiniteSet(Tokens(work))
  PROVE  /\ Readers \in Nat /\ Answering \in Nat /\ Boxed \in {0, 1}
         /\ \A g \in Turns : /\ IsFiniteSet(Previews(evs[g]))
                             /\ Cardinality(Previews(evs[g])) \in Nat
         /\ ch # None => ch \in Turns
         /\ ch \in Turns => Owed \in Nat
<1>1. Readers \in Nat /\ Answering \in Nat
  <2>1. PICK R, A : /\ R = {t \in Tokens(work) : Reads(t[1])}
                    /\ A = {t \in Tokens(work) : Answers(t[1])}
    OBVIOUS
  <2>2. R \in SUBSET Tokens(work) /\ A \in SUBSET Tokens(work)
    BY <2>1
  <2>3. Cardinality(R) \in Nat /\ Cardinality(A) \in Nat
    BY <2>2, FS_Subset, FS_CardinalityType
  <2> QED BY <2>1, <2>3 DEF Readers, Answering
<1>2. Boxed \in {0, 1}
  BY DEF Boxed
<1>3. ASSUME NEW g \in Turns
      PROVE  /\ IsFiniteSet(Previews(evs[g]))
             /\ Cardinality(Previews(evs[g])) \in Nat
  <2>1. PICK s \in Seq(Notes) : s = evs[g]
    BY DEF NotesInv
  <2>2. Previews(s) \in SUBSET (1..Len(s)) /\ Len(s) \in Nat
    BY DEF Previews
  <2>3. IsFiniteSet(1..Len(s))
    BY <2>2, FS_Interval
  <2>4. IsFiniteSet(Previews(s))
    BY <2>2, <2>3, FS_Subset
  <2> QED BY <2>1, <2>4, FS_CardinalityType
<1>4. ch # None => ch \in Turns
  BY DEF UiInv, ScreenInv, LatestStream, Turns, None
<1>5. ch \in Turns => Owed \in Nat
  BY <1>1, <1>2, <1>3 DEF Owed
<1> QED BY <1>1, <1>2, <1>3, <1>4, <1>5

-----------------------------------------------------------------------------
(* The balance of readers and previews. *)

Takes(w) == IF Reads(w) THEN 1 ELSE 0
Settles(w) == IF Answers(w) THEN 1 ELSE 0

\* While the stream is shown, a step takes no reader away but with a preview,
\* and brings one for every answer it brings.
Balanced(w, new) ==
  Shown' =>
    /\ Shown /\ ch' = ch /\ eng'.req = eng.req
    /\ Asking(ch)' => Asking(ch)
    /\ \E p \in {0, 1} :
         /\ Cardinality(Previews(evs[ch])) =
              Cardinality(Previews(evs'[ch])) + p
         /\ Takes(w) <= ReadsIn(new) + p
         /\ Takes(w) + Boxed' + AnswersIn(new) <=
              ReadsIn(new) + p + Boxed + Settles(w)

\* The bag can be counted, and there are readers enough.
Enough == IsFiniteSet(Tokens(work)) /\ Served

\* Then there are readers enough afterwards.
LEMMA BalancedServed ==
  ASSUME UiInv, NotesInv, Enough, NEW w, NEW new, Swap(w, new),
         Balanced(w, new), NotesInv'
  PROVE  Enough'
<1>1. IsABag(work)
  BY DEF UiInv, MessageInv
<1>2. IsFiniteSet(Tokens(work))'
  BY <1>1, SwapFinite DEF Enough
<1> SUFFICES ASSUME Shown'
             PROVE  Readers' >= 1 + Owed'
  BY <1>2 DEF Enough, Served
<1>3. /\ Shown /\ ch' = ch /\ eng'.req = eng.req
      /\ Asking(ch)' => Asking(ch)
  BY DEF Balanced
<1>4. PICK p \in {0, 1} :
        /\ Cardinality(Previews(evs[ch])) =
             Cardinality(Previews(evs'[ch])) + p
        /\ Takes(w) <= ReadsIn(new) + p
        /\ Takes(w) + Boxed' + AnswersIn(new) <=
             ReadsIn(new) + p + Boxed + Settles(w)
  BY DEF Balanced
<1>5. Readers >= 1 + Owed
  BY <1>3 DEF Enough, Served
<1>6. /\ Readers \in Nat /\ ReadsIn(new) \in Nat
      /\ Readers' = Readers - Takes(w) + ReadsIn(new)
  BY <1>1, <1>3, ReadersStep DEF Enough, Takes
<1>7. /\ Answering \in Nat /\ AnswersIn(new) \in Nat
      /\ Answering' = Answering - Settles(w) + AnswersIn(new)
  BY <1>1, <1>3, AnswersStep DEF Enough, Settles
<1>8. Boxed \in {0, 1} /\ Boxed' \in {0, 1}
  BY DEF Boxed
<1>9. Takes(w) \in {0, 1} /\ Settles(w) \in {0, 1}
  BY DEF Takes, Settles
<1>10. ch \in Turns
  BY <1>3 DEF Shown, UiInv, ScreenInv, LatestStream, Turns, None
<1>11. PICK a, b : /\ a = Cardinality(Previews(evs[ch]))
                   /\ b = Cardinality(Previews(evs'[ch]))
  OBVIOUS
<1>12. a \in Nat
  BY <1>10, <1>11, CountTypes DEF Enough
<1>13. b \in Int
  <2>1. PICK s \in Seq(Notes) : s = evs'[ch]
    BY <1>10 DEF NotesInv
  <2>2. Previews(s) \in SUBSET (1..Len(s)) /\ Len(s) \in Nat
    BY DEF Previews
  <2>3. IsFiniteSet(1..Len(s))
    BY <2>2, FS_Interval
  <2>4. IsFiniteSet(Previews(s))
    BY <2>2, <2>3, FS_Subset
  <2> QED BY <1>11, <2>1, <2>4, FS_CardinalityType
<1>14. PICK o, q, r, r1, n, n1, x, x1, in, ans, tk, st :
         /\ o = Owed /\ q = Owed' /\ r = Readers /\ r1 = Readers'
         /\ n = Answering /\ n1 = Answering' /\ x = Boxed /\ x1 = Boxed'
         /\ in = ReadsIn(new) /\ ans = AnswersIn(new)
         /\ tk = Takes(w) /\ st = Settles(w)
  OBVIOUS
<1>15. o = IF Asking(ch) THEN a + (n + x) ELSE a
  BY <1>11, <1>12, <1>14 DEF Owed
<1>16. q = IF Asking(ch)' THEN b + (n1 + x1) ELSE b
  BY <1>3, <1>11, <1>13, <1>14 DEF Owed, Previews, Asking
<1>17. /\ r \in Nat /\ n \in Nat /\ x \in {0, 1} /\ x1 \in {0, 1}
       /\ in \in Nat /\ ans \in Nat /\ tk \in {0, 1} /\ st \in {0, 1}
       /\ r1 = r - tk + in /\ n1 = n - st + ans /\ r >= 1 + o
       /\ a = b + p /\ tk <= in + p /\ tk + x1 + ans <= in + p + x + st
  BY <1>4, <1>5, <1>6, <1>7, <1>8, <1>9, <1>11, <1>14
<1>18. CASE Asking(ch)'
  <2>1. o = a + (n + x) /\ q = b + (n1 + x1)
    BY <1>3, <1>15, <1>16, <1>18
  <2>2. r1 >= 1 + q
    BY <1>12, <1>13, <1>17, <2>1
  <2> QED BY <1>14, <2>2
<1>19. CASE ~Asking(ch)'
  <2>1. o >= a /\ q = b
    BY <1>12, <1>15, <1>16, <1>17, <1>19
  <2>2. o \in Int
    BY <1>12, <1>15, <1>17
  <2>3. r1 >= 1 + q
    BY <1>12, <1>13, <1>17, <2>1, <2>2
  <2> QED BY <1>14, <2>3
<1> QED BY <1>18, <1>19

\* What is read or answers, of what there is.
LEMMA Counted ==
  ASSUME ch # None
  PROVE  /\ \A x : Neutral(x) => ~Reads(x) /\ ~Answers(x)
         /\ \A e : /\ ~Answers(EventMsg(e))
                   /\ Reads(EventMsg(e)) <=> e.kind # "diff"
         /\ \A g : /\ Reads(ReadCmd(g)) <=> g = ch
                   /\ Reads(Reading(g)) <=> g = ch
                   /\ ~Answers(ReadCmd(g)) /\ ~Answers(Reading(g))
         /\ \A r, d : ~Reads(ResumeCmd(r, d))
         /\ \A g, n, p, s : /\ ~Reads(RunCmd(g, n, p, s))
                            /\ ~Answers(RunCmd(g, n, p, s))
         /\ \A g, ok : ~Reads(RanMsg(g, ok)) /\ ~Answers(RanMsg(g, ok))
<1>1. /\ DOMAIN ReadCmd(ch) = {"read"} /\ DOMAIN Reading(ch) = {"reading"}
      /\ ReadCmd(ch).read = ch /\ Reading(ch).reading = ch
  BY DEF ReadCmd, Reading
<1>2. \A x : Neutral(x) => ~Reads(x) /\ ~Answers(x)
  BY <1>1 DEF Neutral, Reads, Answers
<1>3. \A e : /\ ~Answers(EventMsg(e))
             /\ Reads(EventMsg(e)) <=> e.kind # "diff"
  <2>1. \A e : DOMAIN EventMsg(e) = {"event"} /\ EventMsg(e).event = e
    BY DEF EventMsg
  <2> QED BY <1>1, <2>1 DEF Reads, Answers
<1>4. \A g : /\ Reads(ReadCmd(g)) <=> g = ch
             /\ Reads(Reading(g)) <=> g = ch
             /\ ~Answers(ReadCmd(g)) /\ ~Answers(Reading(g))
  <2>1. \A g : /\ DOMAIN ReadCmd(g) = {"read"} /\ ReadCmd(g).read = g
               /\ DOMAIN Reading(g) = {"reading"} /\ Reading(g).reading = g
    BY DEF ReadCmd, Reading
  <2>2. \A g : ReadCmd(g) # Reading(ch) /\ Reading(g) # ReadCmd(ch)
    BY <2>1
  <2>3. \A g : /\ (ReadCmd(g) = ReadCmd(ch) <=> g = ch)
               /\ (Reading(g) = Reading(ch) <=> g = ch)
    BY <2>1
  <2> QED BY <2>1, <2>2, <2>3 DEF Reads, Answers
<1>5. /\ \A x : DOMAIN x \cap {"event", "read", "reading"} = {} => ~Reads(x)
      /\ \A x : "resume" \notin DOMAIN x => ~Answers(x)
  BY <1>1 DEF Reads, Answers
<1>6. ASSUME NEW r, NEW d PROVE ~Reads(ResumeCmd(r, d))
  <2>1. DOMAIN ResumeCmd(r, d) \cap {"event", "read", "reading"} = {}
    BY DEF ResumeCmd
  <2> QED BY <1>5, <2>1
<1>7. ASSUME NEW g, NEW n, NEW p, NEW s
      PROVE  ~Reads(RunCmd(g, n, p, s)) /\ ~Answers(RunCmd(g, n, p, s))
  <2>1. /\ DOMAIN RunCmd(g, n, p, s) \cap {"event", "read", "reading"} = {}
        /\ "resume" \notin DOMAIN RunCmd(g, n, p, s)
    BY DEF RunCmd
  <2> QED BY <1>5, <2>1
<1>8. ASSUME NEW g, NEW ok
      PROVE  ~Reads(RanMsg(g, ok)) /\ ~Answers(RanMsg(g, ok))
  <2>1. /\ DOMAIN RanMsg(g, ok) \cap {"event", "read", "reading"} = {}
        /\ "resume" \notin DOMAIN RanMsg(g, ok)
    BY DEF RanMsg
  <2> QED BY <1>5, <2>1
<1> QED BY <1>2, <1>3, <1>4, <1>6, <1>7, <1>8

\* Counting none, one and two.
LEMMA CountFew ==
  /\ ReadsIn({}) = 0 /\ AnswersIn({}) = 0
  /\ \A x : ReadsIn({x}) = Takes(x) /\ AnswersIn({x}) = Settles(x)
  /\ \A x, y : /\ Reads(y) /\ ~Reads(x) => ReadsIn({x, y}) = 1
               /\ ~Answers(y) => AnswersIn({x, y}) = Settles(x)
<1>0. /\ \A S : S = {} => Cardinality(S) = 0
      /\ \A S, x : S = {x} => Cardinality(S) = 1
  BY FS_EmptySet, FS_Singleton
<1>1. ReadsIn({}) = 0 /\ AnswersIn({}) = 0
  <2>1. {x \in {} : Reads(x)} = {} /\ {x \in {} : Answers(x)} = {}
    OBVIOUS
  <2> QED BY <1>0, <2>1 DEF ReadsIn, AnswersIn
<1>2. ASSUME NEW x PROVE ReadsIn({x}) = Takes(x) /\ AnswersIn({x}) = Settles(x)
  <2>1. {y \in {x} : Reads(y)} = IF Reads(x) THEN {x} ELSE {}
    OBVIOUS
  <2>2. {y \in {x} : Answers(y)} = IF Answers(x) THEN {x} ELSE {}
    OBVIOUS
  <2> QED BY <1>0, <2>1, <2>2 DEF ReadsIn, AnswersIn, Takes, Settles
<1>3. ASSUME NEW x, NEW y
      PROVE  /\ Reads(y) /\ ~Reads(x) => ReadsIn({x, y}) = 1
             /\ ~Answers(y) => AnswersIn({x, y}) = Settles(x)
  <2>1. Reads(y) /\ ~Reads(x) => {z \in {x, y} : Reads(z)} = {y}
    OBVIOUS
  <2>2. ~Answers(y) =>
          {z \in {x, y} : Answers(z)} = IF Answers(x) THEN {x} ELSE {}
    OBVIOUS
  <2> QED BY <1>0, <2>1, <2>2 DEF ReadsIn, AnswersIn, Settles
<1> QED BY <1>1, <1>2, <1>3

-----------------------------------------------------------------------------
(* Every step leaves readers enough. *)

\* One message goes, and nothing, one thing or two come.
LEMMA Swaps ==
  ASSUME NEW w, Queued(w)
  PROVE  /\ Becomes(w, {}) => Swap(w, {})
         /\ \A x : Becomes(w, {x}) /\ x # w => Swap(w, {x})
         /\ \A x, y : Becomes(w, {x, y}) /\ x # w /\ y # w => Swap(w, {x, y})
<1>1. IsFiniteSet({})
  BY FS_EmptySet
<1>2. \A x : IsFiniteSet({x})
  BY FS_Singleton
<1>3. ASSUME NEW x, NEW y PROVE IsFiniteSet({x, y})
  <2>1. PICK one : one = {x}
    OBVIOUS
  <2>2. IsFiniteSet(one \cup {y})
    BY <1>2, <2>1, FS_AddElement
  <2>3. one \cup {y} = {x, y}
    BY <2>1
  <2> QED BY <2>2, <2>3
<1> QED BY <1>1, <1>2, <1>3 DEF Swap

\* Nothing is read from a channel.
LEMMA Steady ==
  ASSUME UiInv, NotesInv, NotesInv', Enough, NEW w, NEW new, Swap(w, new),
         UNCHANGED evs,
         Shown' => /\ Shown /\ ch' = ch /\ eng'.req = eng.req
                   /\ Asking(ch)' => Asking(ch)
                   /\ Takes(w) <= ReadsIn(new)
                   /\ Takes(w) + Boxed' + AnswersIn(new) <=
                        ReadsIn(new) + Boxed + Settles(w)
  PROVE  Enough'
<1>1. ASSUME Shown'
      PROVE  \E p \in {0, 1} :
               /\ Cardinality(Previews(evs[ch])) =
                    Cardinality(Previews(evs'[ch])) + p
               /\ Takes(w) <= ReadsIn(new) + p
               /\ Takes(w) + Boxed' + AnswersIn(new) <=
                    ReadsIn(new) + p + Boxed + Settles(w)
  <2>1. ch \in Turns
    BY <1>1 DEF Shown, UiInv, ScreenInv, LatestStream, Turns, None
  <2>2. PICK a : a = Cardinality(Previews(evs[ch]))
    OBVIOUS
  <2>3. a \in Nat /\ a = Cardinality(Previews(evs'[ch]))
    BY <2>1, <2>2, CountTypes DEF Enough
  <2>4. /\ ReadsIn(new) \in Nat /\ AnswersIn(new) \in Nat
    <3>1. IsABag(work) /\ IsFiniteSet(Tokens(work))
      BY DEF UiInv, MessageInv, Enough
    <3> QED BY <1>1, <3>1, ReadersStep, AnswersStep
  <2>5. /\ Takes(w) \in {0, 1} /\ Settles(w) \in {0, 1}
        /\ Boxed \in {0, 1} /\ Boxed' \in {0, 1}
    BY DEF Takes, Settles, Boxed
  <2>6. PICK in, ans, t, s, b, b1 :
          /\ in = ReadsIn(new) /\ ans = AnswersIn(new) /\ t = Takes(w)
          /\ s = Settles(w) /\ b = Boxed /\ b1 = Boxed'
    OBVIOUS
  <2>7. t <= in + 0 /\ t + b1 + ans <= in + 0 + b + s /\ a = a + 0
    BY <1>1, <2>3, <2>4, <2>5, <2>6
  <2> QED BY <2>2, <2>3, <2>6, <2>7
<1>2. Balanced(w, new)
  BY <1>1 DEF Balanced
<1> QED BY <1>2, BalancedServed

\* The engine does nothing either.
LEMMA Calm ==
  ASSUME UiInv, NotesInv, NotesInv', Enough, NEW w, NEW new, Swap(w, new),
         UNCHANGED <<eng, evs>>,
         Shown' => /\ Shown /\ ch' = ch
                   /\ Takes(w) <= ReadsIn(new)
                   /\ Takes(w) + AnswersIn(new) <= ReadsIn(new)
  PROVE  Enough'
<1>1. ASSUME Shown'
      PROVE  /\ Shown /\ ch' = ch /\ eng'.req = eng.req
             /\ Asking(ch)' => Asking(ch)
             /\ Takes(w) <= ReadsIn(new)
             /\ Takes(w) + Boxed' + AnswersIn(new) <=
                  ReadsIn(new) + Boxed + Settles(w)
  <2>1. ReadsIn(new) \in Nat /\ AnswersIn(new) \in Nat
    <3>1. IsABag(work) /\ IsFiniteSet(Tokens(work))
      BY DEF UiInv, MessageInv, Enough
    <3> QED BY <1>1, <3>1, ReadersStep, AnswersStep
  <2>2. Boxed' = Boxed /\ (Asking(ch)' => Asking(ch))
    BY <1>1 DEF Boxed, Asking
  <2>3. Takes(w) \in {0, 1} /\ Settles(w) \in {0, 1} /\ Boxed \in {0, 1}
    BY DEF Takes, Settles, Boxed
  <2>4. PICK in, ans, t, s, b :
          /\ in = ReadsIn(new) /\ ans = AnswersIn(new) /\ t = Takes(w)
          /\ s = Settles(w) /\ b = Boxed
    OBVIOUS
  <2>5. t + b + ans <= in + b + s
    BY <1>1, <2>1, <2>3, <2>4
  <2> QED BY <1>1, <2>2, <2>4, <2>5
<1> QED BY <1>1, Steady

\* What goes reads nothing, and what comes answers nothing.
LEMMA CalmOne ==
  ASSUME UiInv, NotesInv, NotesInv', Enough, NEW w, NEW new, Swap(w, new),
         UNCHANGED <<eng, evs>>,
         Shown' => Shown /\ ch' = ch,
         ch # None => ~Reads(w) /\ (new = {} \/ \E x : /\ new = {x}
                                                       /\ ~Answers(x))
  PROVE  Enough'
<1>1. ASSUME Shown'
      PROVE  /\ Takes(w) <= ReadsIn(new)
             /\ Takes(w) + AnswersIn(new) <= ReadsIn(new)
  <2>1. Takes(w) = 0
    BY <1>1 DEF Shown, Takes
  <2>2. AnswersIn(new) = 0
    BY <1>1, CountFew DEF Shown, Settles
  <2>3. ReadsIn(new) \in Nat
    <3>1. IsABag(work) /\ IsFiniteSet(Tokens(work))
      BY DEF UiInv, MessageInv, Enough
    <3> QED BY <1>1, <3>1, ReadersStep
  <2> QED BY <2>1, <2>2, <2>3
<1> QED BY <1>1, Calm

\* A reader goes and a reader comes.
LEMMA CalmRead ==
  ASSUME UiInv, NotesInv, NotesInv', Enough, NEW w, NEW x, x # w,
         Queued(w), Becomes(w, {x}),
         UNCHANGED <<eng, evs>>,
         Shown' => Shown /\ ch' = ch,
         ch # None => Reads(x) /\ ~Answers(x)
  PROVE  Enough'
<1>1. Swap(w, {x})
  BY Swaps
<1>2. ASSUME Shown'
      PROVE  /\ Takes(w) <= ReadsIn({x})
             /\ Takes(w) + AnswersIn({x}) <= ReadsIn({x})
  <2>1. ReadsIn({x}) = 1 /\ AnswersIn({x}) = 0
    BY <1>2, CountFew DEF Shown, Takes, Settles
  <2> QED BY <2>1 DEF Takes
<1> QED BY <1>1, <1>2, Calm

\* A send.
LEMMA SendEnough ==
  ASSUME UiInv, NotesInv, NotesInv', Enough, SendNext
  PROVE  Enough'
<1>1. PICK n \in Messages :
        \/ HandleSendQueues(n)
        \/ HandleSendDrops(n)
        \/ \E planned \in BOOLEAN : HandleSendStarts(n, planned)
  BY DEF SendNext
<1>2. ch # None => ~Reads(SendMsg(n))
  BY Counted, Shapes
<1>3. CASE HandleSendQueues(n) \/ HandleSendDrops(n)
  <2>1. /\ Queued(SendMsg(n)) /\ Becomes(SendMsg(n), {})
        /\ UNCHANGED <<eng, evs, ch, stopped, quiet>>
    BY <1>3 DEF HandleSendQueues, HandleSendDrops
  <2>2. Shown' => Shown
    BY <2>1 DEF Shown
  <2> QED BY <1>2, <2>1, <2>2, Swaps, CalmOne
<1>4. CASE \E planned \in BOOLEAN : HandleSendStarts(n, planned)
  <2>1. PICK p \in BOOLEAN : HandleSendStarts(n, p)
    BY <1>4
  <2>2. PICK x : x = RunCmd(gen', n, p, session)
    OBVIOUS
  <2>3. /\ Queued(SendMsg(n)) /\ Becomes(SendMsg(n), {x})
        /\ UNCHANGED <<eng, evs>> /\ ch' = None
    BY <2>1, <2>2 DEF HandleSendStarts
  <2>4. x # SendMsg(n)
    BY <2>2 DEF RunCmd, SendMsg
  <2>5. ch # None => ~Answers(x)
    BY <2>2, Counted
  <2>6. ~Shown'
    BY <2>3 DEF Shown
  <2> QED BY <1>2, <2>3, <2>4, <2>5, <2>6, Swaps, CalmOne
<1> QED BY <1>1, <1>3, <1>4

\* The stream is attached: its turn has sent no preview, and is asked nothing.
LEMMA StartedEnough ==
  ASSUME UiInv, NotesInv, UnseenInv, Enough, NEW g \in Turns, HandleStarted(g)
  PROVE  Enough'
<1>1. PICK w, x : w = RanMsg(g, TRUE) /\ x = ReadCmd(g)
  OBVIOUS
<1>2. /\ Queued(w) /\ Becomes(w, {x}) /\ x # w /\ Starts(w, g)
      /\ ch' = g /\ UNCHANGED <<eng, evs>>
      /\ DOMAIN x = {"read"} /\ x = ReadCmd(ch')
  BY <1>1 DEF HandleStarted, Starts, RanMsg, ReadCmd
<1>3. IsABag(work)
  BY DEF UiInv, MessageInv
<1>4. Swap(w, {x})
  BY <1>2, Swaps
<1>5. IsFiniteSet(Tokens(work'))
  BY <1>3, <1>4, SwapFinite DEF Enough
<1>6. /\ x \in DOMAIN work' /\ DOMAIN work' \subseteq DOMAIN work \cup {x}
      /\ IsABag(work')
  <2>1. {x} \subseteq DOMAIN work'
    BY <1>3, <1>4, SwapKeys
  <2>2. DOMAIN work' \subseteq DOMAIN work \cup {x} /\ IsABag(work')
    BY <1>2, <1>3, BecomesFacts
  <2> QED BY <2>1, <2>2
<1>7. Unseen(g)
  BY <1>2 DEF UnseenInv, Unattached, Queued
<1>8. /\ Previews(evs[g]) = {}
      /\ Asking(g) => ~Quoted(eng.req)
  BY <1>7 DEF Unseen
<1>9. Readers' \in Nat /\ Readers' >= 1
  <2>1. PICK R : R = {t \in Tokens(work') : Reads(t[1])'}
    OBVIOUS
  <2>2. work'[x] \in Nat /\ work'[x] > 0
    BY <1>6 DEF IsABag
  <2>3. <<x, 1>> \in Tokens(work')
    BY <1>6, <2>2 DEF Tokens
  <2>4. Reads(x)'
    BY <1>2 DEF Reads
  <2>5. <<x, 1>> \in R
    BY <2>1, <2>3, <2>4
  <2>6. R \in SUBSET Tokens(work')
    BY <2>1
  <2>7. IsFiniteSet(R)
    BY <1>5, <2>6, FS_Subset
  <2>8. Cardinality(R) \in Nat /\ Cardinality(R) # 0
    BY <2>5, <2>7, FS_CardinalityType, FS_EmptySet
  <2> QED BY <2>1, <2>8 DEF Readers
<1>10. Asking(g) => Answering' = 0 /\ Boxed' = 0
  <2> SUFFICES ASSUME Asking(g)
               PROVE  Answering' = 0 /\ Boxed' = 0
    OBVIOUS
  <2>1. ~Quoted(eng.req)
    BY <1>8
  <2>2. Boxed' = 0
    BY <1>2, <2>1 DEF Boxed, Quoted
  <2>3. \A y \in DOMAIN work' : ~Answers(y)'
    <3>1. \A y \in DOMAIN work : ~Answers(y)
      BY <2>1 DEF Quoted, Names, Answers
    <3>2. ~Answers(x)
      BY <1>2 DEF Answers
    <3> QED BY <1>2, <1>6, <3>1, <3>2 DEF Answers
  <2>4. {t \in Tokens(work') : Answers(t[1])'} = {}
    BY <2>3 DEF Tokens
  <2> QED BY <2>2, <2>4, FS_EmptySet DEF Answering
<1>11. Owed' = 0
  <2>1. Previews(evs'[ch']) = {}
    BY <1>2, <1>8
  <2>2. Cardinality(Previews(evs'[ch'])) = 0
    BY <2>1, FS_EmptySet
  <2>3. Asking(ch)' <=> Asking(g)
    BY <1>2 DEF Asking
  <2>4. Owed' = Cardinality(Previews(evs'[ch']))
                + (IF Asking(ch)' THEN Answering' + Boxed' ELSE 0)
    BY DEF Owed, Previews, Asking
  <2> QED BY <1>10, <2>2, <2>3, <2>4
<1> QED BY <1>5, <1>9, <1>11 DEF Enough, Served

\* A run, or its result.
LEMMA RunEnough ==
  ASSUME UiInv, NotesInv, NotesInv', UnseenInv, Enough, RunNext
  PROVE  Enough'
<1>1. PICK g \in Turns :
        \/ \E ok \in BOOLEAN : HandleStale(g, ok)
        \/ HandleRefused(g)
        \/ HandleStarted(g)
        \/ \E n \in Messages, p \in BOOLEAN, s \in Sessions :
              RunRefused(g, n, p, s) \/ RunStarts(g, n, p, s)
  BY DEF RunNext
<1>2. CASE HandleRefused(g) \/ \E ok \in BOOLEAN : HandleStale(g, ok)
  <2>1. PICK ok \in BOOLEAN :
          /\ Queued(RanMsg(g, ok)) /\ Becomes(RanMsg(g, ok), {})
          /\ UNCHANGED <<eng, evs>>
          /\ ch' = None \/ UNCHANGED <<ch, stopped, quiet>>
    BY <1>2 DEF HandleStale, HandleRefused
  <2>2. Shown' => Shown /\ ch' = ch
    BY <2>1 DEF Shown
  <2>3. ch # None => ~Reads(RanMsg(g, ok))
    BY Counted
  <2> QED BY <2>1, <2>2, <2>3, Swaps, CalmOne
<1>3. CASE HandleStarted(g)
  BY <1>3, StartedEnough
<1>4. CASE \E n \in Messages, p \in BOOLEAN, s \in Sessions :
              RunRefused(g, n, p, s) \/ RunStarts(g, n, p, s)
  <2>1. PICK n \in Messages, p \in BOOLEAN, s \in Sessions :
          RunRefused(g, n, p, s) \/ RunStarts(g, n, p, s)
    BY <1>4
  <2>2. PICK w : w = RunCmd(g, n, p, s)
    OBVIOUS
  <2>3. PICK ok \in BOOLEAN : /\ Queued(w) /\ Becomes(w, {RanMsg(g, ok)})
                              /\ UNCHANGED <<evs, ch, stopped, quiet>>
    BY <2>1, <2>2 DEF RunRefused, RunStarts
  <2>4. PICK x : x = RanMsg(g, ok)
    OBVIOUS
  <2>5. x # w
    BY <2>2, <2>4 DEF RunCmd, RanMsg
  <2>6. Swap(w, {x})
    BY <2>3, <2>4, <2>5, Swaps
  <2>7. Shown' => Shown
    BY <2>3 DEF Shown
  <2>8. ch # None => ~Reads(w) /\ ~Answers(w) /\ ~Reads(x) /\ ~Answers(x)
    BY <2>2, <2>4, Counted
  <2>9. CASE UNCHANGED eng
    BY <2>3, <2>6, <2>7, <2>8, <2>9, CalmOne
  <2>10. CASE eng'.req = eng.req /\ eng'.calls = <<>> /\ eng'.box = <<>>
    <3>1. ~(Asking(ch)') /\ Boxed' = 0 /\ Boxed \in {0, 1}
      BY <2>10 DEF Asking, Boxed
    <3>2. Shown' =>
            /\ Takes(w) = 0 /\ ReadsIn({x}) = 0
            /\ AnswersIn({x}) = 0 /\ Settles(w) = 0
      BY <2>7, <2>8, CountFew DEF Shown, Takes, Settles
    <3>3. ASSUME Shown'
          PROVE  /\ Takes(w) <= ReadsIn({x})
                 /\ Takes(w) + Boxed' + AnswersIn({x}) <=
                      ReadsIn({x}) + Boxed + Settles(w)
      BY <3>1, <3>2, <3>3
    <3> QED BY <2>3, <2>6, <2>7, <2>10, <3>1, <3>3, Steady
  <2>11. UNCHANGED eng \/ (eng'.req = eng.req /\ eng'.calls = <<>>
                           /\ eng'.box = <<>>)
    BY <2>1 DEF RunRefused, RunStarts, Off
  <2> QED BY <2>9, <2>10, <2>11
<1> QED BY <1>1, <1>2, <1>3, <1>4

\* The previews of a channel whose first event was read.
LEMMA TailPreviews ==
  ASSUME NEW s \in Seq(Notes), s # <<>>
  PROVE  Cardinality(Previews(s)) =
           Cardinality(Previews(Tail(s)))
           + (IF s[1].kind = "diff" THEN 1 ELSE 0)
<1>1. /\ Tail(s) \in Seq(Notes) /\ Len(s) \in Nat /\ DOMAIN s = 1..Len(s)
      /\ DOMAIN Tail(s) = 1..(Len(s) - 1) /\ Len(s) >= 1
      /\ \A i \in DOMAIN Tail(s) : Tail(s)[i] = s[i + 1]
  OBVIOUS
<1>2. PICK P, T, rest : /\ P = Previews(s) /\ T = Previews(Tail(s))
                        /\ rest = P \ {1}
  OBVIOUS
<1>3. /\ \A i : i \in P <=> i \in 1..Len(s) /\ s[i].kind = "diff"
      /\ \A i : i \in T <=> /\ i \in 1..(Len(s) - 1)
                            /\ s[i + 1].kind = "diff"
  BY <1>1, <1>2 DEF Previews
<1>4. IsFiniteSet(P) /\ IsFiniteSet(T)
  <2>1. P \in SUBSET (1..Len(s)) /\ T \in SUBSET (1..Len(s))
    BY <1>1, <1>3
  <2>2. IsFiniteSet(1..Len(s))
    BY <1>1, FS_Interval
  <2> QED BY <2>1, <2>2, FS_Subset
<1>5. Cardinality(rest) = Cardinality(T)
  <2> DEFINE f == [i \in T |-> i + 1]
  <2>1. f \in [T -> rest]
    BY <1>1, <1>2, <1>3
  <2>2. \A i, j \in T : f[i] = f[j] => i = j
    BY <1>3
  <2>3. \A k \in rest : \E i \in T : f[i] = k
    <3>1. ASSUME NEW k \in rest PROVE \E i \in T : f[i] = k
      <4>1. k \in 1..Len(s) /\ s[k].kind = "diff" /\ k # 1
        BY <1>2, <1>3, <3>1
      <4>2. k - 1 \in 1..(Len(s) - 1) /\ (k - 1) + 1 = k
        BY <1>1, <4>1
      <4>3. k - 1 \in T
        BY <1>3, <4>1, <4>2
      <4> QED BY <4>2, <4>3
    <3> QED BY <3>1
  <2>4. f \in Injection(T, rest)
    BY <2>1, <2>2 DEF Injection, IsInjective
  <2>5. f \in Surjection(T, rest)
    BY <2>1, <2>3 DEF Surjection
  <2>6. ExistsBijection(T, rest)
    BY <2>4, <2>5 DEF ExistsBijection, Bijection
  <2> HIDE DEF f
  <2> QED BY <2>6, <1>4, FS_Bijection
<1>6. /\ Cardinality(P \ {1}) = IF 1 \in P THEN Cardinality(P) - 1
                                           ELSE Cardinality(P)
      /\ Cardinality(P) \in Nat
  BY <1>4, FS_RemoveElement, FS_CardinalityType
<1>7. 1 \in P <=> s[1].kind = "diff"
  BY <1>1, <1>3
<1> QED BY <1>2, <1>5, <1>6, <1>7

\* An event is read from a channel.
LEMMA ReadEventEnough ==
  ASSUME UiInv, NotesInv, NotesInv', Enough, NEW g \in Turns, ReadEvent(g)
  PROVE  Enough'
<1>1. /\ Queued(Reading(g)) /\ UNCHANGED <<eng, ch, stopped, quiet>>
  BY DEF ReadEvent
<1>2. Shown' => Shown /\ ch' = ch
  BY <1>1 DEF Shown
<1>3. CASE /\ Becomes(Reading(g), {EventMsg(Event("done"))})
           /\ UNCHANGED evs
  <2>1. PICK x : x = EventMsg(Event("done"))
    OBVIOUS
  <2>2. x # Reading(g)
    BY <2>1 DEF EventMsg, Reading
  <2>3. ch # None => Reads(x) /\ ~Answers(x)
    <3>1. Event("done").kind # "diff"
      BY DEF Event
    <3> QED BY <2>1, <3>1, Counted
  <2> QED BY <1>1, <1>2, <1>3, <2>1, <2>2, <2>3, CalmRead
<1>4. CASE /\ evs[g] # <<>>
           /\ Becomes(Reading(g), {EventMsg(Head(evs[g]))})
           /\ evs' = [evs EXCEPT ![g] = Tail(@)]
  <2>1. PICK w, x, s : /\ s \in Seq(Notes) /\ s = evs[g] /\ w = Reading(g)
                       /\ x = EventMsg(Head(s))
    BY DEF NotesInv
  <2>2. s # <<>> /\ Head(s) = s[1] /\ Tail(s) \in Seq(Notes)
    BY <1>4, <2>1
  <2>3. /\ evs'[g] = Tail(s)
        /\ \A h \in Turns \ {g} : evs'[h] = evs[h]
    BY <1>4, <2>1 DEF NotesInv
  <2>4. x # w
    BY <2>1 DEF EventMsg, Reading
  <2>5. Swap(w, {x})
    BY <1>1, <1>4, <2>1, <2>4, Swaps
  <2>6. ASSUME Shown'
        PROVE  /\ Shown /\ ch' = ch /\ eng'.req = eng.req
               /\ Asking(ch)' => Asking(ch)
               /\ \E p \in {0, 1} :
                    /\ Cardinality(Previews(evs[ch])) =
                         Cardinality(Previews(evs'[ch])) + p
                    /\ Takes(w) <= ReadsIn({x}) + p
                    /\ Takes(w) + Boxed' + AnswersIn({x}) <=
                         ReadsIn({x}) + p + Boxed + Settles(w)
    <3>1. ch # None /\ ch \in Turns
      BY <1>2, <2>6 DEF Shown, UiInv, ScreenInv, LatestStream, Turns, None
    <3>2. /\ AnswersIn({x}) = 0 /\ Settles(w) = 0
          /\ ReadsIn({x}) = IF s[1].kind = "diff" THEN 0 ELSE 1
          /\ Takes(w) = IF g = ch THEN 1 ELSE 0
      BY <2>1, <2>2, <3>1, Counted, CountFew DEF Takes, Settles
    <3>3. Boxed' = Boxed /\ Boxed \in {0, 1}
      BY <1>1 DEF Boxed
    <3>4. Shown /\ ch' = ch /\ eng'.req = eng.req
          /\ (Asking(ch)' => Asking(ch))
      BY <1>1, <1>2, <2>6 DEF Asking
    <3>5. CASE g = ch
      <4>1. Cardinality(Previews(evs[ch])) =
              Cardinality(Previews(evs'[ch]))
              + (IF s[1].kind = "diff" THEN 1 ELSE 0)
        BY <2>1, <2>2, <2>3, <3>5, TailPreviews
      <4>2. PICK p : p = IF s[1].kind = "diff" THEN 1 ELSE 0
        OBVIOUS
      <4>3. /\ p \in {0, 1} /\ Takes(w) <= ReadsIn({x}) + p
            /\ Takes(w) + Boxed' + AnswersIn({x}) <=
                 ReadsIn({x}) + p + Boxed + Settles(w)
        BY <3>2, <3>3, <3>5, <4>2
      <4> QED BY <3>4, <4>1, <4>2, <4>3
    <3>6. CASE g # ch
      <4>1. evs'[ch] = evs[ch]
        BY <2>3, <3>1, <3>6
      <4>2. PICK a : a = Cardinality(Previews(evs[ch]))
        OBVIOUS
      <4>3. a \in Nat /\ a = Cardinality(Previews(evs'[ch]))
        BY <3>1, <4>1, <4>2, CountTypes DEF Enough
      <4>4. /\ a = a + 0 /\ Takes(w) <= ReadsIn({x}) + 0
            /\ Takes(w) + Boxed' + AnswersIn({x}) <=
                 ReadsIn({x}) + 0 + Boxed + Settles(w)
        BY <3>2, <3>3, <3>6, <4>3
      <4> QED BY <3>4, <4>2, <4>3, <4>4
    <3> QED BY <3>5, <3>6
  <2>7. Balanced(w, {x})
    BY <2>6 DEF Balanced
  <2> QED BY <2>5, <2>7, BalancedServed
<1> QED BY <1>3, <1>4 DEF ReadEvent

\* A read begins, or has an event; an event is shown.
LEMMA ReadEnough ==
  ASSUME UiInv, NotesInv, NotesInv', Enough, ReadNext
  PROVE  Enough'
<1>1. CASE \E g \in {None} \cup Turns : BeginRead(g)
  <2>1. PICK g \in {None} \cup Turns : BeginRead(g)
    BY <1>1
  <2>2. PICK w, x, y : /\ w = ReadCmd(g) /\ x = EventMsg(Event("done"))
                       /\ y = Reading(g)
    OBVIOUS
  <2>3. /\ Queued(w)
        /\ UNCHANGED <<eng, evs, ch, stopped, quiet>>
    BY <2>1, <2>2 DEF BeginRead
  <2>4. Shown' => Shown
    BY <2>3 DEF Shown
  <2>5. w # x /\ w # y
    BY <2>2 DEF ReadCmd, EventMsg, Reading
  <2>6. CASE g = None /\ Becomes(w, {x})
    <3>1. ch # None => ~Reads(w) /\ ~Answers(x)
      BY <2>2, <2>6, Counted
    <3> QED BY <2>3, <2>4, <2>5, <2>6, <3>1, Swaps, CalmOne
  <2>7. CASE (g # ch \/ stopped) /\ Becomes(w, {})
    <3>1. CASE stopped
      <4>1. ~Shown'
        BY <2>3, <3>1 DEF Shown
      <4> QED BY <2>3, <2>7, <4>1, Swaps, Calm
    <3>2. CASE g # ch
      <4>1. ch # None => ~Reads(w)
        BY <2>2, <3>2, Counted
      <4> QED BY <2>3, <2>4, <2>7, <4>1, Swaps, CalmOne
    <3> QED BY <2>7, <3>1, <3>2
  <2>8. CASE g = ch /\ Becomes(w, {y})
    <3>1. ch # None => Reads(y) /\ ~Answers(y)
      BY <2>2, <2>8, Counted
    <3> QED BY <2>3, <2>4, <2>5, <2>8, <3>1, CalmRead
  <2> QED BY <2>1, <2>2, <2>6, <2>7, <2>8 DEF BeginRead
<1>2. CASE \E g \in Turns : ReadEvent(g)
  BY <1>2, ReadEventEnough
<1>3. CASE HandleContent \/ HandleResult
  <2>1. PICK k \in {"content", "result"}, new \in {{}, {ReadCmd(ch)}} :
          /\ Queued(EventMsg(Event(k))) /\ Becomes(EventMsg(Event(k)), new)
          /\ UNCHANGED <<eng, evs, ch, stopped, quiet>>
          /\ new = {} => ch = None
    <3>1. CASE HandleContent
      BY <3>1 DEF HandleContent, Rearms
    <3>2. CASE HandleResult
      BY <3>2 DEF HandleResult, Rearms
    <3> QED BY <1>3, <3>1, <3>2
  <2>2. PICK w, x : w = EventMsg(Event(k)) /\ x = ReadCmd(ch)
    OBVIOUS
  <2>3. Shown' => Shown
    BY <2>1 DEF Shown
  <2>4. CASE new = {}
    <3>1. ~Shown'
      BY <2>1, <2>4 DEF Shown
    <3>2. Swap(w, {})
      BY <2>1, <2>2, <2>4, Swaps
    <3> QED BY <2>1, <3>1, <3>2, Calm
  <2>5. CASE new = {x}
    <3>1. x # w
      BY <2>2 DEF ReadCmd, EventMsg
    <3>2. ch # None => Reads(x) /\ ~Answers(x)
      BY <2>2, Counted
    <3> QED BY <2>1, <2>2, <2>3, <2>5, <3>1, <3>2, CalmRead
  <2> QED BY <2>1, <2>2, <2>4, <2>5
<1>4. CASE HandleStatus \/ HandleProgress \/ HandlePlanRequest \/ HandleError
  <2>1. PICK w : /\ Queued(w) /\ Becomes(w, {})
                 /\ UNCHANGED <<eng, evs>> /\ quiet' = TRUE
    BY <1>4 DEF HandleStatus, HandleProgress, HandlePlanRequest, HandleError
  <2>2. ~Shown'
    BY <2>1 DEF Shown
  <2> QED BY <2>1, <2>2, Swaps, Calm
<1>5. CASE HandleDiff
  <2>1. PICK w : /\ w = EventMsg(Event("diff"))
                 /\ Queued(w) /\ Becomes(w, {})
                 /\ UNCHANGED <<eng, evs, ch, stopped, quiet>>
    BY <1>5 DEF HandleDiff
  <2>2. Shown' => Shown
    BY <2>1 DEF Shown
  <2>3. Event("diff").kind = "diff"
    BY DEF Event
  <2>4. ch # None => ~Reads(w)
    BY <2>1, <2>3, Counted
  <2> QED BY <2>1, <2>2, <2>4, Swaps, CalmOne
<1>6. CASE HandleDone
  <2>1. PICK w, x : w = EventMsg(Event("done")) /\ x = SendMsg(Head(queue))
    OBVIOUS
  <2>2. /\ Queued(w)
        /\ Becomes(w, {}) \/ Becomes(w, {x})
        /\ UNCHANGED <<eng, evs>> /\ ch' = None
    BY <1>6, <2>1 DEF HandleDone
  <2>3. ~Shown'
    BY <2>2 DEF Shown
  <2>4. x # w
    BY <2>1 DEF SendMsg, EventMsg
  <2>5. Swap(w, {}) \/ Swap(w, {x})
    BY <2>2, <2>4, Swaps
  <2> QED BY <2>2, <2>3, <2>5, Calm
<1> QED BY <1>1, <1>2, <1>3, <1>4, <1>5, <1>6 DEF ReadNext

\* The user's messages are none of those that are counted.
LEMMA AlsoCounts ==
  ASSUME IsABag(work), IsFiniteSet(Tokens(work)), NEW w, Neutral(w), Also(w),
         UNCHANGED eng, ch' = ch, ch # None
  PROVE  Readers' = Readers /\ Answering' = Answering
<1>1. ~Reads(w) /\ ~Answers(w)
  BY Counted
<1>2. PICK all, R, A : /\ all = DOMAIN work \cup DOMAIN work'
                       /\ R = {x \in all : Reads(x)}
                       /\ A = {x \in all : Answers(x)}
  OBVIOUS
<1>3. /\ Among(work', R) = Among(work, R)
      /\ Among(work', A) = Among(work, A)
  BY <1>1, <1>2, AlsoTally
<1>4. /\ \A x : Reads(x)' <=> Reads(x)
      /\ \A x : Answers(x)' <=> Answers(x)
  BY DEF Reads, ReadCmd, Reading, Answers
<1>5. /\ Among(work, R) = {t \in Tokens(work) : Reads(t[1])}
      /\ Among(work', R) = {t \in Tokens(work') : Reads(t[1])'}
  <2>1. \A t \in Tokens(work) \cup Tokens(work') : t[1] \in all
    BY <1>2 DEF Tokens
  <2> QED BY <1>2, <1>4, <2>1 DEF Among
<1>6. /\ Among(work, A) = {t \in Tokens(work) : Answers(t[1])}
      /\ Among(work', A) = {t \in Tokens(work') : Answers(t[1])'}
  <2>1. \A t \in Tokens(work) \cup Tokens(work') : t[1] \in all
    BY <1>2 DEF Tokens
  <2> QED BY <1>2, <1>4, <2>1 DEF Among
<1> QED BY <1>3, <1>5, <1>6 DEF Readers, Answering

\* The user.
LEMMA UserEnough ==
  ASSUME UiInv, NotesInv, Enough, UserNext
  PROVE  Enough'
<1>1. IsABag(work) /\ IsFiniteSet(Tokens(work))
  BY DEF UiInv, MessageInv, Enough
<1>2. CASE \E w : /\ Also(w) /\ Neutral(w)
                  /\ UNCHANGED <<eng, evs, ch, stopped, quiet>>
  <2>1. PICK w : /\ Also(w) /\ Neutral(w)
                 /\ UNCHANGED <<eng, evs, ch, stopped, quiet>>
    BY <1>2
  <2>2. IsFiniteSet(Tokens(work'))
    <3>1. w \notin {}
      OBVIOUS
    <3> QED BY <1>1, <2>1, <3>1, AlsoTally
  <2>3. ASSUME Shown'
        PROVE  Readers' >= 1 + Owed'
    <3>1. Shown /\ ch # None
      BY <2>1, <2>3 DEF Shown
    <3>2. Readers' = Readers /\ Answering' = Answering
      BY <1>1, <2>1, <3>1, AlsoCounts
    <3>3. Owed' = Owed
      BY <2>1, <3>2 DEF Owed, Boxed, Asking, Previews
    <3> QED BY <3>1, <3>2, <3>3 DEF Enough, Served
  <2> QED BY <2>2, <2>3 DEF Enough, Served
<1>3. CASE UNCHANGED work /\ ch' = None
  BY <1>1, <1>3 DEF Enough, Served, Shown, Tokens
<1>4. \/ \E w : /\ Also(w) /\ Neutral(w)
                /\ UNCHANGED <<eng, evs, ch, stopped, quiet>>
      \/ UNCHANGED work /\ ch' = None
  BY Shapes DEF UserNext, Type, Key, PlanKey, Slash, Steer, Cancel
<1> QED BY <1>2, <1>3, <1>4

\* The answers of the user: a batch is decided, or a call is looked at.
LEMMA AnsweredEnough ==
  ASSUME UiInv, NotesInv, NotesInv', Enough, NEW w, NEW x, NEW r, NEW d,
         Neutral(w), Queued(w), x = ResumeCmd(r, d),
         Becomes(w, {x, ReadCmd(ch)}),
         UNCHANGED <<eng, evs, ch, stopped, quiet>>
  PROVE  Enough'
<1>1. PICK y : y = ReadCmd(ch)
  OBVIOUS
<1>2. x # w /\ y # w
  BY <1>1 DEF Neutral, ResumeCmd, ReadCmd
<1>3. Swap(w, {x, y})
  BY <1>1, <1>2, Swaps
<1>4. ASSUME Shown'
      PROVE  /\ Shown
             /\ Takes(w) <= ReadsIn({x, y})
             /\ Takes(w) + AnswersIn({x, y}) <= ReadsIn({x, y})
  <2>1. Shown /\ ch # None
    BY <1>4 DEF Shown
  <2>2. Takes(w) = 0
    BY <2>1, Counted DEF Takes
  <2>3. Reads(y) /\ ~Reads(x) /\ ~Answers(y)
    BY <1>1, <2>1, Counted
  <2>4. ReadsIn({x, y}) = 1 /\ AnswersIn({x, y}) = Settles(x)
    BY <2>3, CountFew
  <2>5. Settles(x) \in {0, 1}
    BY DEF Settles
  <2> QED BY <2>1, <2>2, <2>4, <2>5
<1> QED BY <1>3, <1>4, Calm

\* An answer on its way reads nothing.
LEMMA ResumesRead ==
  ASSUME NamesInv, NEW w \in DOMAIN work, "resume" \in DOMAIN w
  PROVE  ~Reads(w)
BY DEF NamesInv, Reads, ReadCmd, Reading

\* The engine takes an answer, or refuses it.
LEMMA ResumeEnough ==
  ASSUME UiInv, NamesInv, NotesInv, NotesInv', Enough, NEW w,
         w \in DOMAIN work, "resume" \in DOMAIN w, ResumeApproval(w)
  PROVE  Enough'
<1>1. /\ Queued(w) /\ UNCHANGED <<evs, ch, stopped, quiet>>
  BY DEF ResumeApproval
<1>2. Shown' => Shown
  BY <1>1 DEF Shown
<1>3. DOMAIN eng = DOMAIN Off
  BY DEF UiInv, EngineInv
<1>4. \A e, s : /\ EventMsg(e) # w /\ StateMsg(s) # w
  BY DEF EventMsg, StateMsg
<1>5. CASE /\ eng.req = w.resume /\ eng.box = <<>>
           /\ eng' = [eng EXCEPT !.box = <<w.resume, w.dec>>]
           /\ \E s : Becomes(w, {StateMsg(s)})
  <2>1. PICK s : Becomes(w, {StateMsg(s)})
    BY <1>5
  <2>2. PICK x : x = StateMsg(s)
    OBVIOUS
  <2>3. Swap(w, {x})
    BY <1>1, <1>4, <2>1, <2>2, Swaps
  <2>4. /\ eng'.req = eng.req /\ eng'.calls = eng.calls
        /\ eng'.turn = eng.turn
    BY <1>3, <1>5 DEF Off
  <2>5. Boxed = 0 /\ Boxed' \in {0, 1} /\ Settles(w) = 1
    BY <1>5 DEF Boxed, Settles, Answers
  <2>6. ASSUME Shown'
        PROVE  /\ Takes(w) <= ReadsIn({x})
               /\ Takes(w) + Boxed' + AnswersIn({x}) <=
                    ReadsIn({x}) + Boxed + Settles(w)
    <3>1. ch # None
      BY <1>1, <2>6 DEF Shown
    <3>2. ~Reads(w)
      BY ResumesRead
    <3>3. ~Reads(x) /\ ~Answers(x)
      BY <2>2, <3>1, Counted, Shapes
    <3>4. Takes(w) = 0 /\ ReadsIn({x}) = 0 /\ AnswersIn({x}) = 0
      BY <3>2, <3>3, CountFew DEF Takes, Settles
    <3>5. PICK b, b1, t, in, ans, st :
            /\ b = Boxed /\ b1 = Boxed' /\ t = Takes(w)
            /\ in = ReadsIn({x}) /\ ans = AnswersIn({x}) /\ st = Settles(w)
      OBVIOUS
    <3>6. b = 0 /\ b1 \in {0, 1} /\ t = 0 /\ in = 0 /\ ans = 0 /\ st = 1
      BY <2>5, <3>4, <3>5
    <3>7. t <= in /\ t + b1 + ans <= in + b + st
      BY <3>6
    <3> QED BY <3>5, <3>7
  <2>7. Asking(ch)' => Asking(ch)
    BY <1>1, <2>4 DEF Asking
  <2> QED BY <1>1, <1>2, <2>3, <2>4, <2>6, <2>7, Steady
<1>6. CASE UNCHANGED eng /\ Becomes(w, {EventMsg(Event("error"))})
  <2>1. PICK x : x = EventMsg(Event("error"))
    OBVIOUS
  <2>2. Event("error").kind # "diff"
    BY DEF Event
  <2>3. ch # None => Reads(x) /\ ~Answers(x)
    BY <2>1, <2>2, Counted
  <2>4. x # w
    BY <1>4, <2>1
  <2> QED BY <1>1, <1>2, <1>6, <2>1, <2>3, <2>4, CalmRead
<1>7. \/ /\ eng.req = w.resume /\ eng.box = <<>>
         /\ eng' = [eng EXCEPT !.box = <<w.resume, w.dec>>]
         /\ \E s : Becomes(w, {StateMsg(s)})
      \/ UNCHANGED eng /\ Becomes(w, {EventMsg(Event("error"))})
  BY DEF ResumeApproval
<1> QED BY <1>5, <1>6, <1>7

\* The other answers, and what comes of them.
LEMMA AnswerEnough ==
  ASSUME UiInv, NamesInv, NotesInv, NotesInv', Enough, AnswerNext
  PROVE  Enough'
<1>1. CASE \E r \in Requests : HandleAsk(r, Batches[r])
  <2>1. PICK r \in Requests : HandleAsk(r, Batches[r])
    BY <1>1
  <2>2. PICK w, x : w = EventMsg(AskEvent(r, Batches[r])) /\ x = ReadCmd(ch)
    OBVIOUS
  <2>3. /\ Queued(w) /\ Becomes(w, {x})
        /\ UNCHANGED <<eng, evs, ch, stopped, quiet>>
    BY <2>1, <2>2 DEF HandleAsk
  <2>4. x # w
    BY <2>2 DEF EventMsg, ReadCmd
  <2>5. ch # None => Reads(x) /\ ~Answers(x)
    BY <2>2, Counted
  <2>6. Shown' => Shown
    BY <2>3 DEF Shown
  <2> QED BY <2>3, <2>4, <2>5, <2>6, CalmRead
<1>2. ASSUME NEW w, Neutral(w), Queued(w),
             Becomes(w, {}) \/ \E x : Neutral(x) /\ x # w /\ Becomes(w, {x}),
             UNCHANGED <<eng, evs, ch, stopped, quiet>>
      PROVE  Enough'
  <2>1. Shown' => Shown
    BY <1>2 DEF Shown
  <2>2. ch # None => ~Reads(w)
    BY <1>2, Counted
  <2>3. CASE Becomes(w, {})
    BY <1>2, <2>1, <2>2, <2>3, Swaps, CalmOne
  <2>4. CASE \E x : Neutral(x) /\ x # w /\ Becomes(w, {x})
    <3>1. PICK x : Neutral(x) /\ x # w /\ Becomes(w, {x})
      BY <2>4
    <3>2. ch # None => ~Answers(x)
      BY <3>1, Counted
    <3> QED BY <1>2, <2>1, <2>2, <3>1, <3>2, Swaps, CalmOne
  <2> QED BY <1>2, <2>3, <2>4
<1>3. CASE \E c \in Calls, d \in Decisions : HandleMoreToDecide(c, d)
  <2>1. PICK c \in Calls, d \in Decisions : HandleMoreToDecide(c, d)
    BY <1>3
  <2>2. /\ Queued(ResponseMsg(c, d)) /\ Becomes(ResponseMsg(c, d), {})
        /\ UNCHANGED <<eng, evs, ch, stopped, quiet>>
    BY <2>1 DEF HandleMoreToDecide
  <2> QED BY <1>2, <2>2, Shapes
<1>4. CASE \E c \in Calls, d \in Decisions : HandleDecided(c, d)
  <2>1. PICK c \in Calls, d \in Decisions : HandleDecided(c, d)
    BY <1>4
  <2>2. PICK dec : dec = Response(appr, c, d).dec
    OBVIOUS
  <2>3. PICK w, x : w = ResponseMsg(c, d) /\ x = ResumeCmd(appr.req, dec)
    OBVIOUS
  <2>4. /\ Queued(w) /\ Becomes(w, {x, ReadCmd(ch)})
        /\ UNCHANGED <<eng, evs, ch, stopped, quiet>>
    BY <2>1, <2>2, <2>3 DEF HandleDecided
  <2>5. PICK r : r = appr.req
    OBVIOUS
  <2>6. Neutral(w) /\ x = ResumeCmd(r, dec)
    BY <2>3, <2>5, Shapes
  <2> QED BY <2>4, <2>6, AnsweredEnough
<1>5. CASE \E c \in Calls : HandleDiffKey(c)
  <2>1. PICK c \in Calls : HandleDiffKey(c)
    BY <1>5
  <2>2. PICK look, r : look = [k \in {c} |-> "diff"] /\ r = appr.req
    OBVIOUS
  <2>3. PICK w, x : w = ResponseMsg(c, "diff") /\ x = ResumeCmd(r, look)
    OBVIOUS
  <2>4. /\ Queued(w) /\ Becomes(w, {x, ReadCmd(ch)})
        /\ UNCHANGED <<eng, evs, ch, stopped, quiet>>
    BY <2>1, <2>2, <2>3 DEF HandleDiffKey
  <2>5. Neutral(w)
    BY <2>3, Shapes
  <2> QED BY <2>3, <2>4, <2>5, AnsweredEnough
<1>6. CASE \E w \in {x \in DOMAIN work : "resume" \in DOMAIN x} :
             ResumeApproval(w)
  BY <1>6, ResumeEnough
<1>7. CASE \E b \in BOOLEAN : HandlePlanAnswer(b)
  <2>1. PICK b \in BOOLEAN : HandlePlanAnswer(b)
    BY <1>7
  <2>2. PICK w, x : w = PlanMsg(b) /\ x = PlanCmd(b, session)
    OBVIOUS
  <2>3. /\ Queued(w) /\ Becomes(w, {x})
        /\ UNCHANGED <<eng, evs, ch, stopped, quiet>>
    BY <2>1, <2>2 DEF HandlePlanAnswer
  <2>4. x # w
    BY <2>2 DEF PlanMsg, PlanCmd
  <2>5. Neutral(w) /\ Neutral(x)
    BY <2>2, Shapes
  <2> QED BY <1>2, <2>3, <2>4, <2>5
<1>8. CASE \/ \E b \in BOOLEAN, s \in Sessions : ResumePlan(b, s)
           \/ \E s \in Sessions : SteerRuns(s)
  <2>0. DOMAIN eng = DOMAIN Off
    BY DEF UiInv, EngineInv
  <2>1. PICK w, x : /\ Neutral(w) /\ Queued(w) /\ Becomes(w, {x})
                    /\ x \in {StateMsg("thinking"), EventMsg(Event("error"))}
                    /\ x # w
    <3>1. ASSUME NEW b \in BOOLEAN, NEW s \in Sessions, ResumePlan(b, s)
          PROVE  \E w, x :
                    /\ Neutral(w) /\ Queued(w) /\ Becomes(w, {x})
                    /\ x \in {StateMsg("thinking"), EventMsg(Event("error"))}
                    /\ x # w
      <4>1. PICK w : w = PlanCmd(b, s)
        OBVIOUS
      <4>2. PICK x \in {StateMsg("thinking"), EventMsg(Event("error"))} :
              Queued(w) /\ Becomes(w, {x})
        BY <3>1, <4>1 DEF ResumePlan
      <4>3. DOMAIN w = {"resumePlan", "ses"}
        BY <4>1 DEF PlanCmd
      <4>4. DOMAIN x = {"show"} \/ DOMAIN x = {"event"}
        BY <4>2 DEF StateMsg, EventMsg
      <4>5. x # w
        BY <4>3, <4>4
      <4> QED BY <4>1, <4>2, <4>5, Shapes
    <3>2. ASSUME NEW s \in Sessions, SteerRuns(s)
          PROVE  \E w, x :
                    /\ Neutral(w) /\ Queued(w) /\ Becomes(w, {x})
                    /\ x \in {StateMsg("thinking"), EventMsg(Event("error"))}
                    /\ x # w
      <4>1. PICK w : w = SteerCmd(s)
        OBVIOUS
      <4>2. PICK x \in {StateMsg("thinking"), EventMsg(Event("error"))} :
              Queued(w) /\ Becomes(w, {x})
        BY <3>2, <4>1 DEF SteerRuns
      <4>3. x # w
        <5>1. "steer" \in DOMAIN w
          BY <4>1 DEF SteerCmd
        <5>2. "steer" \notin DOMAIN x
          BY <4>2 DEF StateMsg, EventMsg
        <5> QED BY <5>1, <5>2
      <4> QED BY <4>1, <4>2, <4>3, Shapes
    <3> QED BY <1>8, <3>1, <3>2
  <2>2. /\ UNCHANGED <<evs, ch, stopped, quiet>>
        /\ eng'.req = eng.req /\ eng'.calls = eng.calls
        /\ eng'.turn = eng.turn /\ eng'.box = eng.box
    BY <1>8, <2>0 DEF ResumePlan, SteerRuns, Off
  <2>3. Swap(w, {x})
    BY <2>1, Swaps
  <2>4. Shown' => Shown
    BY <2>2 DEF Shown
  <2>5. (Asking(ch)' => Asking(ch)) /\ Boxed' = Boxed /\ Boxed \in {0, 1}
    BY <2>2 DEF Asking, Boxed
  <2>6. ASSUME Shown'
        PROVE  /\ Takes(w) <= ReadsIn({x})
               /\ Takes(w) + Boxed' + AnswersIn({x}) <=
                    ReadsIn({x}) + Boxed + Settles(w)
    <3>1. ch # None
      BY <2>2, <2>6 DEF Shown
    <3>2. ~Reads(w) /\ ~Answers(w) /\ ~Answers(x)
      BY <2>1, <3>1, Counted, Shapes
    <3>3. /\ Takes(w) = 0 /\ Settles(w) = 0 /\ AnswersIn({x}) = 0
          /\ ReadsIn({x}) \in {0, 1}
      BY <3>2, CountFew DEF Takes, Settles
    <3> QED BY <2>5, <3>3
  <2> QED BY <2>2, <2>3, <2>4, <2>5, <2>6, Steady
<1>9. CASE HandleSlash \/ \E s \in {"thinking", "approval"} : HandleState(s)
  <2>1. PICK w : /\ Neutral(w) /\ Queued(w) /\ Becomes(w, {})
                 /\ UNCHANGED <<eng, evs, ch, stopped, quiet>>
    BY <1>9, Shapes DEF HandleSlash, HandleState
  <2> QED BY <1>2, <2>1
<1> QED BY <1>1, <1>3, <1>4, <1>5, <1>6, <1>7, <1>8, <1>9 DEF AnswerNext

\* The previews of a channel into which the engine sent.
LEMMA AppendPreviews ==
  ASSUME NEW s \in Seq(Notes), NEW es \in Seq(Notes)
  PROVE  /\ (\A i \in DOMAIN es : es[i].kind # "diff") =>
              Previews(s \o es) = Previews(s)
         /\ Len(es) \in {0, 1} =>
              /\ Cardinality(Previews(s \o es)) \in Nat
              /\ Cardinality(Previews(s \o es)) <=
                   Cardinality(Previews(s)) + Len(es)
<1>1. /\ s \o es \in Seq(Notes) /\ Len(s) \in Nat /\ Len(es) \in Nat
      /\ DOMAIN s = 1..Len(s) /\ DOMAIN es = 1..Len(es)
      /\ DOMAIN (s \o es) = 1..(Len(s) + Len(es))
      /\ \A i \in DOMAIN s : (s \o es)[i] = s[i]
      /\ \A i \in 1..(Len(s) + Len(es)) :
           i \notin DOMAIN s => /\ i - Len(s) \in DOMAIN es
                                /\ (s \o es)[i] = es[i - Len(s)]
  OBVIOUS
<1>2. ASSUME \A i \in DOMAIN es : es[i].kind # "diff"
      PROVE  Previews(s \o es) = Previews(s)
  <2>1. \A i : i \in Previews(s \o es) <=> i \in Previews(s)
    BY <1>1, <1>2 DEF Previews
  <2> QED BY <2>1
<1>3. ASSUME Len(es) \in {0, 1}
      PROVE  /\ Cardinality(Previews(s \o es)) \in Nat
             /\ Cardinality(Previews(s \o es)) <=
                  Cardinality(Previews(s)) + Len(es)
  <2>1. PICK P, last : P = Previews(s) /\ last = Len(s) + 1
    OBVIOUS
  <2>2. P \in SUBSET (1..Len(s))
    BY <1>1, <2>1 DEF Previews
  <2>3. IsFiniteSet(1..Len(s))
    BY <1>1, FS_Interval
  <2>4. IsFiniteSet(P) /\ Cardinality(P) \in Nat
    BY <2>2, <2>3, FS_Subset, FS_CardinalityType
  <2>5. CASE Len(es) = 0
    <3>1. \A i \in DOMAIN es : es[i].kind # "diff"
      BY <1>1, <2>5
    <3> QED BY <1>2, <2>1, <2>4, <2>5, <3>1
  <2>6. CASE Len(es) = 1
    <3>1. PICK Q : Q = Previews(s \o es)
      OBVIOUS
    <3>2. Q \in SUBSET (P \cup {last})
      BY <1>1, <2>1, <2>6, <3>1 DEF Previews
    <3>3. /\ IsFiniteSet(P \cup {last})
          /\ Cardinality(P \cup {last}) = Cardinality(P) + 1
      <4>1. last \notin P
        BY <1>1, <2>1, <2>2
      <4> QED BY <2>4, <4>1, FS_AddElement
    <3>4. PICK more : more = P \cup {last}
      OBVIOUS
    <3>5. IsFiniteSet(Q) /\ Cardinality(Q) <= Cardinality(more)
      BY <3>2, <3>3, <3>4, FS_Subset
    <3>6. Cardinality(Q) \in Nat
      BY <3>5, FS_CardinalityType
    <3> QED BY <2>1, <2>6, <3>1, <3>3, <3>4, <3>5, <3>6
  <2> QED BY <1>3, <2>5, <2>6
<1> QED BY <1>2, <1>3

\* The commands and the messages stay, and so do those that are counted.
LEMMA SameCounts ==
  ASSUME UNCHANGED work, ch' = ch
  PROVE  /\ Tokens(work') = Tokens(work)
         /\ Readers' = Readers
         /\ eng'.req = eng.req => Answering' = Answering
<1>1. Tokens(work') = Tokens(work)
  BY DEF Tokens
<1>2. \A x : Reads(x)' <=> Reads(x)
  BY DEF Reads, ReadCmd, Reading
<1>3. eng'.req = eng.req => \A x : Answers(x)' <=> Answers(x)
  BY DEF Answers
<1>4. {t \in Tokens(work') : Reads(t[1])'} = {t \in Tokens(work) : Reads(t[1])}
  BY <1>1, <1>2
<1>5. eng'.req = eng.req =>
        {t \in Tokens(work') : Answers(t[1])'} =
        {t \in Tokens(work) : Answers(t[1])}
  BY <1>1, <1>3
<1> QED BY <1>1, <1>4, <1>5 DEF Readers, Answering

\* The engine leaves its box alone, or empties it.
LEMMA EngineBox ==
  ASSUME EngineInv, EngineNext
  PROVE  /\ eng'.box = eng.box \/ eng'.box = <<>>
         /\ UNCHANGED <<stopped, quiet>>
<1>1. DOMAIN eng = DOMAIN Off
  BY DEF EngineInv
<1> QED
  BY <1>1 DEF EngineNext, Chats, Asks, ShowsDiff, Decides, Reports, Plans,
              PlanApproved, Steered, Fails, Finishes, Frees, EngineFrame, Off

\* The engine shows a diff: a preview is sent, and an answer is used up.
LEMMA DiffEnough ==
  ASSUME UiInv, NotesInv, NamesInv, Enough, ShowsDiff
  PROVE  Enough'
<1> DEFINE k == Cardinality(DOMAIN eng.box[2] \cap Asked)
           es == [i \in 1..k |-> Event("diff")]
<1>0. DOMAIN eng = DOMAIN Off
  BY DEF UiInv, EngineInv
<1>1. /\ eng.at = "asked" /\ eng.box # <<>> /\ eng.box[1] = eng.req
      /\ eng' = [eng EXCEPT !.box = <<>>] /\ Emit(es)
      /\ UNCHANGED <<work, ch, stopped, quiet>>
  BY DEF ShowsDiff, EngineFrame
<1>2. /\ eng'.req = eng.req /\ eng'.calls = eng.calls
      /\ eng'.turn = eng.turn /\ eng'.box = <<>>
  BY <1>0, <1>1 DEF Off
<1>3. k \in {0, 1}
  BY FewPreviews
<1> HIDE DEF k
<1>4. es \in Seq(Notes) /\ Len(es) = k
  BY <1>3, EventType DEF Kinds
<1> HIDE DEF es
<1>5. eng.turn \in Turns /\ eng.calls # <<>>
  BY <1>1 DEF UiInv, EngineInv, NotesInv
<1>6. PICK s \in Seq(Notes) : s = evs[eng.turn]
  BY <1>5 DEF NotesInv
<1>7. /\ evs'[eng.turn] = s \o es
      /\ \A g \in Turns \ {eng.turn} : evs'[g] = evs[g]
  BY <1>1, <1>5, <1>6 DEF Emit, NotesInv
<1>8. /\ Tokens(work') = Tokens(work) /\ Readers' = Readers
      /\ Answering' = Answering
  BY <1>1, <1>2, SameCounts
<1>9. ASSUME Shown'
      PROVE  Readers' >= 1 + Owed'
  <2>1. Shown /\ ch \in Turns
    BY <1>1, <1>9 DEF Shown, UiInv, ScreenInv, LatestStream, Turns, None
  <2>2. Readers >= 1 + Owed
    BY <2>1 DEF Enough, Served
  <2>3. /\ Readers \in Nat /\ Answering \in Nat
        /\ Cardinality(Previews(evs[ch])) \in Nat
    BY <2>1, CountTypes DEF Enough
  <2>4. Boxed = 1 /\ Boxed' = 0
    BY <1>1, <1>2 DEF Boxed
  <2>5. (Asking(ch)' <=> Asking(ch)) /\ (Asking(ch) <=> eng.turn = ch)
    BY <1>1, <1>2, <1>5 DEF Asking
  <2>6. PICK a, b, n, r :
          /\ a = Cardinality(Previews(evs[ch])) /\ n = Answering
          /\ b = Cardinality(Previews(evs'[ch])) /\ r = Readers
    OBVIOUS
  <2>7. Owed = a + (IF Asking(ch) THEN n + 1 ELSE 0)
    BY <2>4, <2>6 DEF Owed
  <2>8. Owed' = b + (IF Asking(ch)' THEN n + 0 ELSE 0)
    BY <1>1, <1>8, <2>4, <2>6 DEF Owed, Previews, Asking
  <2>9. CASE eng.turn = ch
    <3>1. b \in Nat /\ b <= a + k
      BY <1>3, <1>4, <1>6, <1>7, <2>6, <2>9, AppendPreviews
    <3>2. Owed = a + (n + 1) /\ Owed' = b + n
      BY <2>3, <2>5, <2>6, <2>7, <2>8, <2>9
    <3>3. r >= 1 + (a + (n + 1))
      BY <2>2, <2>6, <3>2
    <3>4. r \in Nat /\ a \in Nat /\ n \in Nat
      BY <2>3, <2>6
    <3>5. r >= 1 + (b + n)
      BY <1>3, <3>1, <3>3, <3>4
    <3> QED BY <1>8, <2>6, <3>2, <3>5
  <2>10. CASE eng.turn # ch
    <3>1. b = a
      BY <1>7, <2>1, <2>6, <2>10
    <3>2. Owed = a /\ Owed' = a
      BY <2>3, <2>5, <2>6, <2>7, <2>8, <2>10, <3>1
    <3> QED BY <1>8, <2>2, <3>2
  <2> QED BY <2>9, <2>10
<1> QED BY <1>8, <1>9 DEF Enough, Served

\* The engine's other steps owe no more than before.
LEMMA EngineEnough ==
  ASSUME UiInv, NotesInv, NamesInv, Enough, EngineNext
  PROVE  Enough'
<1>0. EngineInv
  BY DEF UiInv
<1>1. CASE ShowsDiff
  BY <1>1, DiffEnough
<1>2. CASE ~ShowsDiff
  <2>1. /\ eng'.box = eng.box \/ eng'.box = <<>>
        /\ UNCHANGED <<work, ch, stopped, quiet>>
        /\ Keeps \/ Drops \/ Opening
    BY <1>0, EngineBox, EngineSends
  <2>2. PICK es : Sends(es)
    BY <1>0, EngineSends
  <2>3. \A g \in Turns : Previews(evs'[g]) = Previews(evs[g])
    <3>1. ASSUME NEW g \in Turns
          PROVE  Previews(evs'[g]) = Previews(evs[g])
      <4>1. CASE g = eng.turn
        <5>1. PICK s \in Seq(Notes) : s = evs[g]
          BY DEF NotesInv
        <5>2. evs'[g] = s \o es
          BY <2>2, <4>1, <5>1, SendsFacts
        <5>3. es \in Seq(Notes) /\ \A i \in DOMAIN es : es[i].kind # "diff"
          BY <1>2, <2>2 DEF Sends
        <5> QED BY <5>1, <5>2, <5>3, AppendPreviews
      <4>2. CASE g # eng.turn
        BY <2>2, <4>2, SendsFacts
      <4> QED BY <4>1, <4>2
    <3> QED BY <3>1
  <2>4. Tokens(work') = Tokens(work) /\ Readers' = Readers
    BY <2>1, SameCounts
  <2>5. ASSUME Shown'
        PROVE  Readers' >= 1 + Owed'
    <3>1. Shown /\ ch \in Turns
      BY <2>1, <2>5 DEF Shown, UiInv, ScreenInv, LatestStream, Turns, None
    <3>2. Readers >= 1 + Owed
      BY <3>1 DEF Enough, Served
    <3>3. /\ Readers \in Nat /\ Answering \in Nat /\ Boxed \in {0, 1}
          /\ Cardinality(Previews(evs[ch])) \in Nat
      BY <3>1, CountTypes DEF Enough
    <3>4. PICK a, n, x, x1, n1 :
            /\ a = Cardinality(Previews(evs[ch])) /\ n = Answering
            /\ x = Boxed /\ x1 = Boxed' /\ n1 = Answering'
      OBVIOUS
    <3>5. Owed = a + (IF Asking(ch) THEN n + x ELSE 0)
      BY <3>4 DEF Owed
    <3>6. Owed' = a + (IF Asking(ch)' THEN n1 + x1 ELSE 0)
      <4>1. a = Cardinality(Previews(evs'[ch']))
        BY <2>1, <2>3, <3>1, <3>4
      <4> QED BY <2>1, <3>4, <4>1 DEF Owed, Previews, Asking
    <3>7. CASE ~Asking(ch)'
      <4>1. Owed' = a
        BY <3>3, <3>4, <3>6, <3>7
      <4>2. Owed \in Nat /\ Owed >= a
        BY <3>3, <3>4, <3>5
      <4> QED BY <2>4, <3>2, <3>3, <3>4, <4>1, <4>2
    <3>8. CASE Asking(ch)' /\ Keeps
      <4>1. eng'.req = eng.req /\ Asking(ch)
        BY <2>1, <3>8 DEF Keeps, Asking
      <4>2. n1 = n
        BY <2>1, <3>4, <4>1, SameCounts
      <4>3. x1 \in {0, 1} /\ x1 <= x
        BY <2>1, <3>4, <4>1 DEF Boxed
      <4>4. Owed = a + (n + x) /\ Owed' = a + (n + x1)
        BY <3>5, <3>6, <3>8, <4>1, <4>2
      <4>5. a \in Nat /\ n \in Nat /\ x \in {0, 1}
        BY <3>3, <3>4
      <4>6. PICK r : r = Readers
        OBVIOUS
      <4>7. r \in Nat /\ r >= 1 + (a + (n + x))
        BY <3>2, <3>3, <4>4, <4>6
      <4>8. r >= 1 + (a + (n + x1))
        BY <4>3, <4>5, <4>7
      <4> QED BY <2>4, <4>4, <4>6, <4>8
    <3>9. CASE Asking(ch)' /\ Opening
      <4>1. eng'.req = eng.req + 1 /\ eng'.box = eng.box /\ eng.req \in Nat
        BY <1>0, <3>9 DEF Opening, EngineInv
      <4>2. x1 = 0
        <5>1. ~(eng.box # <<>> /\ eng.box[1] = eng.req + 1)
          BY <4>1 DEF NamesInv
        <5> QED BY <3>4, <4>1, <5>1 DEF Boxed
      <4>3. n1 = 0
        <5>1. \A w \in DOMAIN work : ~Answers(w)'
          BY <4>1 DEF NamesInv, Answers
        <5>2. {t \in Tokens(work') : Answers(t[1])'} = {}
          BY <2>4, <5>1 DEF Tokens
        <5> QED BY <3>4, <5>2, FS_EmptySet DEF Answering
      <4>4. Owed' = a
        BY <3>3, <3>4, <3>6, <3>9, <4>2, <4>3
      <4>5. Owed \in Nat /\ Owed >= a
        BY <3>3, <3>4, <3>5
      <4> QED BY <2>4, <3>2, <3>3, <3>4, <4>4, <4>5
    <3>10. Drops => ~Asking(ch)'
      BY DEF Drops, Asking
    <3> QED BY <2>1, <3>7, <3>8, <3>9, <3>10
  <2> QED BY <2>4, <2>5 DEF Enough, Served
<1> QED BY <1>1, <1>2

\* Every step.
LEMMA EnoughStep ==
  ASSUME UiInv, NotesInv, NamesInv, UnseenInv, NotesInv', Enough, [Next]_vars
  PROVE  Enough'
<1>1. CASE UNCHANGED vars
  <2>1. Tokens(work') = Tokens(work) /\ Readers' = Readers
        /\ Answering' = Answering
    BY <1>1, SameCounts DEF vars
  <2>2. Owed' = Owed
    BY <1>1, <2>1 DEF vars, Owed, Boxed, Asking, Previews
  <2> QED BY <1>1, <2>1, <2>2 DEF vars, Enough, Served, Shown
<1> QED BY <1>1, UserEnough, SendEnough, RunEnough, ReadEnough, AnswerEnough,
           EngineEnough DEF Next

-----------------------------------------------------------------------------
(* Somebody reads. *)

\* Initially nothing is sent, asked or read.
LEMMA AttendInit == Init => AttendInv
<1> SUFFICES ASSUME Init PROVE AttendInv
  OBVIOUS
<1>1. /\ work = EmptyBag /\ evs = [g \in Turns |-> <<>>] /\ eng = Off
      /\ ch = None /\ gen = 0 /\ appr = NoRequest
  BY DEF Init
<1>2. DOMAIN work = {}
  BY <1>1 DEF EmptyBag, SetToBag
<1>3. /\ eng.calls = <<>> /\ eng.req = 0 /\ eng.box = <<>> /\ eng.at = "off"
      /\ eng.turn = None
  BY <1>1 DEF Off
<1>4. NotesInv
  BY <1>1, <1>3 DEF NotesInv
<1>5. NamesInv
  BY <1>1, <1>2, <1>3 DEF NamesInv, NoRequest, None
<1>6. StartInv
  BY <1>2 DEF StartInv
<1>7. UnseenInv
  BY <1>1, <1>2, <1>3
     DEF UnseenInv, Unseen, Previews, Asking, Turns, None
<1>8. Tokens(work) = {}
  BY <1>2 DEF Tokens
<1>9. IsFiniteSet(Tokens(work))
  BY <1>8, FS_EmptySet
<1>10. Served
  BY <1>1 DEF Served, Shown
<1> QED BY <1>4, <1>5, <1>6, <1>7, <1>9, <1>10 DEF AttendInv

\* Every step keeps it.
LEMMA AttendStep == UiInv /\ AttendInv /\ [Next]_vars => AttendInv'
<1> SUFFICES ASSUME UiInv, AttendInv, [Next]_vars PROVE AttendInv'
  OBVIOUS
<1>1. NotesInv /\ NamesInv /\ StartInv /\ UnseenInv /\ Enough
  BY DEF AttendInv, Enough
<1>2. NotesInv'
  BY <1>1, NotesStep DEF UiInv
<1>3. NamesInv' /\ StartInv' /\ UnseenInv'
  BY <1>1, NamesStep, StartStep, UnseenStep
<1>4. Enough'
  BY <1>1, <1>2, EnoughStep
<1> QED BY <1>2, <1>3, <1>4 DEF AttendInv, Enough

\* A reader more than the previews will take is a reader.
LEMMA ServedAttended ==
  ASSUME UiInv, AttendInv
  PROVE  Attended
<1> SUFFICES ASSUME ch # None, ~stopped, ~quiet
             PROVE  \E w \in DOMAIN work : Reader(w)
  BY DEF Attended
<1>1. Readers >= 1 + Owed
  BY DEF AttendInv, Served, Shown
<1>2. Readers \in Nat /\ Owed \in Nat
  BY CountTypes DEF AttendInv
<1>3. Readers # 0
  BY <1>1, <1>2
<1>4. {t \in Tokens(work) : Reads(t[1])} # {}
  BY <1>3, FS_EmptySet DEF Readers
<1>5. PICK t \in Tokens(work) : Reads(t[1])
  BY <1>4
<1>6. t[1] \in DOMAIN work
  BY DEF Tokens
<1> QED BY <1>5, <1>6 DEF Reads, Reader

\* While a turn is shown and no event came whose handler leaves the stream,
\* somebody reads its events, however often the user looks at a diff: every
\* preview the engine may send has a reader of its own.
THEOREM AlwaysRead == Spec => []Attended
<1>1. Init => UiInv /\ AttendInv
  BY UiInit, AttendInit
<1>2. (UiInv /\ AttendInv) /\ [Next]_vars => (UiInv /\ AttendInv)'
  BY UiStep, AttendStep
<1>3. UiInv /\ AttendInv => Attended
  BY ServedAttended
<1> QED BY <1>1, <1>2, <1>3, PTL DEF Spec

=============================================================================
