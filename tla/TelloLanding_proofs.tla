-------------------------- MODULE TelloLanding_proofs --------------------------
(***************************************************************************)
(* Theorems about TelloLanding, for any threads that may land the drone.   *)
(***************************************************************************)
EXTENDS TelloLanding, TLAPS

Misled == basis = "misled"
Awaited == flier.at \in {"waiting", "doubting"}
\* The takeoff's command is over, and is_flying not set yet.
Accepted == flier.at \in {"accepted", "settled"}
UpOrLifting == body = "air" \/ lift
\* A takeoff without an "ok", and no land since.
Unlanded == ~answeredOk /\ ~landing

\* What the takeoff's thread and a land know of each other.
FlierInv ==
    /\ Awaited => ~answeredOk /\ age # "old"
    /\ Awaited /\ flier.overtaken => guarded
    /\ Awaited \/ Accepted => (landing => flier.overtaken)
    /\ guarded => landing
    /\ \A l \in Landers : lander[l].at # "idle" => landing

\* A lift, or an answer of the takeoff, to come is one that a land guards against,
\* or that no land has followed yet; or the code was misled about it.
GuardInv ==
    /\ lift => age = "young"
    /\ answer # "none" => age # "old" /\ ~lift
    /\ (lift \/ answer # "none") /\ ~Misled => guarded \/ Unlanded

\* No land takes the takeoff's "ok" for its own.
ReplyInv ==
    /\ basis # "takeoff_ok"
    /\ \A l \in Landers : /\ lander[l].at = "idle" => lander[l] = NoLand
                          /\ lander[l].ok = "takeoff_ok" => Misled

\* A poll about to act has seen the drone down for good, or acts on a takeoff that
\* no land has followed; unless it is late, or blind.
PollInv ==
    /\ poller.at # "idle" /\ ~poller.late => ~Awaited /\ ~Accepted
    /\ \/ poller.at = "marking"
       \/ poller.at = "clearing" /\ ~poller.blind
       => poller.late \/ Misled \/ ~UpOrLifting \/ Unlanded

\* A confirmed land is one of a drone that no longer lifts and, if state confirmed
\* it, is down.
ConfirmedInv ==
    landing /\ ~unconfirmed /\ ~Misled => ~lift /\ (basis = "state" => body = "down")

\* A drone in the air or about to be is marked flying.
MarkedInv ==
    UpOrLifting /\ ~flying =>
        Accepted \/ Unlanded \/ basis \in {"ok", "stale", "expired", "misled"}

\* A command let through has no confirming land beside it.
ClearedInv == short = "cleared" => ~(unconfirmed /\ sent)

TelloInv ==
    /\ TelloTypeOK /\ FlierInv /\ GuardInv /\ ReplyInv /\ PollInv
    /\ ConfirmedInv /\ MarkedInv

----------------------------------------------------------------------------
(* Types.                                                                  *)

FlierPoints ==
    {"idle", "called", "ready", "waiting", "doubting", "accepted", "settled", "move", "moving"}
LanderPoints == {"idle", "begun", "seeking", "holding", "sent", "watching"}

\* None is nobody who holds the channel, no step of a short command and no reply.
LEMMA NoneIsNothing ==
    /\ None \notin Holders /\ None \notin {"checking", "cleared", "sent"} /\ None \notin Oks
    /\ Landers \cap {"flier", "keepalive", "stream"} = {}
BY LandingAssumption DEF Holders, Oks

\* The flying thread goes to another point.
LEMMA FlierGoesTo ==
    ASSUME flier \in Flier, NEW at \in FlierPoints, FlierGoes(at)
    PROVE  flier' \in Flier /\ flier'.at = at /\ flier'.overtaken = flier.overtaken
BY DEF FlierGoes, Flier, FlierPoints

\* It is done, and gives the channel back.
LEMMA FlierHangsUp ==
    ASSUME HangUp
    PROVE  flier' \in Flier /\ flier'.at = "idle" /\ ~flier'.overtaken /\ channel' = None
BY DEF HangUp, Flier

\* A land that goes to another point leaves the others alone.
LEMMA LanderGoesTo ==
    ASSUME lander \in [Landers -> Lander], NEW l \in Landers, NEW at \in LanderPoints, LanderGoes(l, at)
    PROVE  /\ lander' \in [Landers -> Lander]
           /\ lander'[l].at = at /\ lander'[l].ok = lander[l].ok /\ lander'[l].again = lander[l].again
           /\ \A k \in Landers \ {l} : lander'[k] = lander[k]
<1>1. [lander[l] EXCEPT !.at = at] \in Lander
  BY DEF Lander, LanderPoints
<1>2. /\ [lander[l] EXCEPT !.at = at].at = at
      /\ [lander[l] EXCEPT !.at = at].ok = lander[l].ok
      /\ [lander[l] EXCEPT !.at = at].again = lander[l].again
  BY DEF Lander
<1>3. lander' = [lander EXCEPT ![l] = [lander[l] EXCEPT !.at = at]]
  BY DEF LanderGoes
<1>. QED
  BY <1>1, <1>2, <1>3

\* So does one that ends, and one that begins another attempt.
LEMMA LanderEnds ==
    ASSUME lander \in [Landers -> Lander], NEW l \in Landers, LandEnds(l) \/ NextAttempt(l)
    PROVE  /\ lander' \in [Landers -> Lander]
           /\ LandEnds(l) => lander'[l] = NoLand
           /\ ~LandEnds(l) => lander'[l].at = "seeking"
           /\ lander'[l].ok = None
           /\ \A k \in Landers \ {l} : lander'[k] = lander[k]
<1>1. NoLand \in Lander /\ NoLand.ok = None
  BY DEF Lander, NoLand
<1>2. /\ [NoLand EXCEPT !.at = "seeking"] \in Lander
      /\ [NoLand EXCEPT !.at = "seeking"].ok = None
      /\ [NoLand EXCEPT !.at = "seeking"].at = "seeking"
  BY DEF Lander, NoLand
<1>. QED
  BY <1>1, <1>2 DEF LandEnds, NextAttempt

\* An attempt whose land was sent and read a reply that does not decide yet.
LEMMA LanderKeeps ==
    ASSUME lander \in [Landers -> Lander], NEW l \in Landers, NEW kept \in Oks \cup {None},
           lander' = [lander EXCEPT ![l].at = "watching", ![l].ok = kept]
    PROVE  /\ lander' \in [Landers -> Lander]
           /\ lander'[l].at = "watching" /\ lander'[l].ok = kept
           /\ \A k \in Landers \ {l} : lander'[k] = lander[k]
<1>1. /\ [lander[l] EXCEPT !.at = "watching", !.ok = kept] \in Lander
      /\ [lander[l] EXCEPT !.at = "watching", !.ok = kept].at = "watching"
      /\ [lander[l] EXCEPT !.at = "watching", !.ok = kept].ok = kept
  BY DEF Lander
<1>2. lander' = [lander EXCEPT ![l] = [lander[l] EXCEPT !.at = "watching", !.ok = kept]]
  OBVIOUS
<1>. QED
  BY <1>1, <1>2

\* An attempt that will send the land again.
LEMMA LanderRepeats ==
    ASSUME lander \in [Landers -> Lander], NEW l \in Landers,
           lander' = [lander EXCEPT ![l].at = "seeking", ![l].again = TRUE]
    PROVE  /\ lander' \in [Landers -> Lander]
           /\ lander'[l].at = "seeking" /\ lander'[l].ok = lander[l].ok
           /\ \A k \in Landers \ {l} : lander'[k] = lander[k]
<1>1. /\ [lander[l] EXCEPT !.at = "seeking", !.again = TRUE] \in Lander
      /\ [lander[l] EXCEPT !.at = "seeking", !.again = TRUE].at = "seeking"
      /\ [lander[l] EXCEPT !.at = "seeking", !.again = TRUE].ok = lander[l].ok
  BY DEF Lander
<1>2. lander' = [lander EXCEPT ![l] = [lander[l] EXCEPT !.at = "seeking", !.again = TRUE]]
  OBVIOUS
<1>. QED
  BY <1>1, <1>2

\* What a step of a land does to the lands and the channel: it takes a free channel
\* or gives back its own, and ends as if it had never begun.
LandPasses(l) ==
    \/ LandEnds(l) \/ NextAttempt(l)
    \/ \E at \in LanderPoints \ {"idle"} : LanderGoes(l, at)
    \/ \E kept \in Oks \cup {None} : lander' = [lander EXCEPT ![l].at = "watching", ![l].ok = kept]
    \/ lander' = [lander EXCEPT ![l].at = "seeking", ![l].again = TRUE]

\* A step of land() moves one caller and no other.
LEMMA LandPass ==
    ASSUME TelloTypeOK, NEW l \in Landers, LandPasses(l)
    PROVE  /\ lander' \in [Landers -> Lander]
           /\ \A k \in Landers \ {l} : lander'[k] = lander[k]
           /\ lander'[l].at = "idle" => lander'[l] = NoLand
<1>1. lander \in [Landers -> Lander]
  BY DEF TelloTypeOK
<1>2. CASE LandEnds(l) \/ NextAttempt(l)
  BY <1>1, <1>2, LanderEnds
<1>3. ASSUME NEW at \in LanderPoints \ {"idle"}, LanderGoes(l, at)
      PROVE  /\ lander' \in [Landers -> Lander] /\ lander'[l].at # "idle"
             /\ \A k \in Landers \ {l} : lander'[k] = lander[k]
  BY <1>1, <1>3, LanderGoesTo
<1>4. ASSUME NEW kept \in Oks \cup {None}, lander' = [lander EXCEPT ![l].at = "watching", ![l].ok = kept]
      PROVE  /\ lander' \in [Landers -> Lander] /\ lander'[l].at # "idle"
             /\ \A k \in Landers \ {l} : lander'[k] = lander[k]
  BY <1>1, <1>4, LanderKeeps
<1>5. CASE lander' = [lander EXCEPT ![l].at = "seeking", ![l].again = TRUE]
  BY <1>1, <1>5, LanderRepeats
<1>. QED
  BY <1>2, <1>3, <1>4, <1>5 DEF LandPasses

\* Every step of a land is such a pass, and only the first begins one.
LEMMA LandStepPasses ==
    ASSUME TelloTypeOK, NEW l \in Landers, LandStep(l)
    PROVE  /\ LandPasses(l) /\ UNCHANGED <<body, stream, age, answeredOk, short>>
           /\ lander[l].at = "idle" => BeginLand(l)
<1> USE DEF drone, takeoff, flags
<1>1. {"begun", "holding", "seeking", "sent", "watching"} \subseteq LanderPoints \ {"idle"}
  BY DEF LanderPoints
<1>2. CASE BeginLand(l) \/ TryChannel(l) \/ SeekChannel(l)
  BY <1>1, <1>2 DEF BeginLand, TryChannel, SeekChannel, LandPasses
<1>3. CASE StopSeeking(l) \/ SendLand(l)
  BY <1>1, <1>3 DEF StopSeeking, SendLand, LandPasses
<1>4. CASE Watch(l)
  BY <1>1, <1>4 DEF Watch, LandPasses
<1>5. ASSUME NEW reply \in Oks \cup {"error", None}, Answered(l, reply)
      PROVE  /\ lander[l].at = "sent" /\ LandPasses(l)
             /\ UNCHANGED <<body, stream, age, answeredOk, short>>
  <2>1. (IF Alone(reply) = None THEN lander[l].ok ELSE Alone(reply)) \in Oks \cup {None}
    BY DEF Alone, Lander, TelloTypeOK
  <2>. QED
    BY <1>5, <2>1 DEF Answered, LandPasses
<1>. QED
  BY <1>2, <1>3, <1>4, <1>5 DEF LandStep

\* A land holds the channel exactly from when it took it to when it gives it back.
LEMMA LandHolds ==
    ASSUME TelloTypeOK, NEW l \in Landers, LandStep(l)
    PROVE  /\ channel' = l <=> lander'[l].at \in {"holding", "sent"}
           /\ channel' = channel \/ (channel \in {None, l} /\ channel' \in {None, l})
<1> USE DEF drone, takeoff, flags
<1>1. /\ lander \in [Landers -> Lander] /\ l # None
      /\ channel = l <=> lander[l].at \in {"holding", "sent"}
  BY LandingAssumption DEF TelloTypeOK
<1>2. {"idle", "begun", "holding", "seeking", "sent", "watching"} \subseteq LanderPoints
  BY DEF LanderPoints
<1>3. \A at \in LanderPoints : LanderGoes(l, at) => lander'[l].at = at
  BY <1>1, LanderGoesTo
<1>4. /\ LandEnds(l) => lander'[l].at = "idle"
      /\ NextAttempt(l) => lander'[l].at \in {"idle", "seeking"}
  BY <1>1, LanderEnds DEF NoLand
<1> DEFINE In == lander'[l].at \in {"holding", "sent"} /\ channel' = l /\ channel \in {None, l}
           Out == /\ lander'[l].at \notin {"holding", "sent"} /\ channel' # l
                  /\ channel' = channel \/ (channel = l /\ channel' = None)
<1>5. BeginLand(l) => Out
  BY <1>1, <1>2, <1>3 DEF BeginLand
<1>6. TryChannel(l) => In \/ Out
  BY <1>1, <1>2, <1>3 DEF TryChannel
<1>7. SeekChannel(l) \/ StopSeeking(l) => In \/ Out
  BY <1>1, <1>2, <1>3, <1>4 DEF SeekChannel, StopSeeking
<1>8. SendLand(l) => In \/ Out
  BY <1>1, <1>2, <1>3, <1>4 DEF SendLand
<1>9. Watch(l) => Out
  <2>1. Watch(l) => lander'[l].at \in {"idle", "seeking"}
    BY <1>1, <1>4, LanderRepeats DEF Watch
  <2>. QED
    BY <1>1, <2>1 DEF Watch
<1>10. ASSUME NEW reply \in Oks \cup {"error", None}, Answered(l, reply)
      PROVE  lander[l].at = "sent" /\ channel' = None /\ lander'[l].at \notin {"holding", "sent"}
  <2>1. (IF Alone(reply) = None THEN lander[l].ok ELSE Alone(reply)) \in Oks \cup {None}
    BY <1>1 DEF Alone, Lander
  <2>. QED
    BY <1>1, <1>4, <1>10, <2>1, LanderKeeps DEF Answered
<1>. QED
  BY <1>1, <1>5, <1>6, <1>7, <1>8, <1>9, <1>10 DEF LandStep

\* What a step of a land writes besides.
LEMMA LandData ==
    ASSUME TelloTypeOK, NEW l \in Landers, LandStep(l)
    PROVE  /\ lift' \in {FALSE, lift} /\ answer' \in {"none", answer}
           /\ BeginLand(l) \/ UNCHANGED <<guarded, landing, flier, poller>>
<1> USE DEF drone, takeoff, flags
<1>1. ASSUME NEW reply \in Oks \cup {"error", None}, Answered(l, reply)
      PROVE  /\ lift' \in {FALSE, lift} /\ answer' \in {"none", answer}
             /\ UNCHANGED <<guarded, landing, flier, poller>>
  BY <1>1 DEF Answered
<1>2. CASE BeginLand(l) \/ TryChannel(l) \/ SeekChannel(l) \/ StopSeeking(l)
  BY <1>2 DEF BeginLand, TryChannel, SeekChannel, StopSeeking, LandArrives
<1>3. CASE SendLand(l) \/ Watch(l)
  BY <1>3 DEF SendLand, Watch, LandArrives, DropReplies
<1>. QED
  BY <1>1, <1>2, <1>3 DEF LandStep

\* The flags of a land are its own until it is confirmed.
LEMMA Confirms ==
    ASSUME NEW how \in Bases, basis \in Bases, Confirm(how)
    PROVE  /\ unconfirmed /\ ~unconfirmed' /\ ~flying' /\ ~sent'
           /\ unconfirmed' \in BOOLEAN /\ flying' \in BOOLEAN /\ sent' \in BOOLEAN /\ watch' \in BOOLEAN
           /\ basis' = (IF Misled THEN "misled" ELSE how) /\ basis' \in Bases
BY DEF Confirm, Upon, Misled, Bases

LandConfirms(l) ==
    \/ GroundSeen /\ Confirm("state")
    \/ \E reply \in Oks \cup {"error", None} :
          /\ lander[l].at = "sent" /\ (reply = "takeoff_ok" => answer = "received")
          /\ Alone(reply) # None /\ Confirm(Alone(reply))
    \/ ~ReplyGuard /\ lander[l].ok # None /\ Confirm(lander[l].ok)

\* A land begins, is sent or is confirmed; no other step of it writes the flags.
LEMMA LandFlags ==
    ASSUME TelloTypeOK, NEW l \in Landers, LandStep(l)
    PROVE  \/ BeginLand(l)
           \/ UNCHANGED flags
           \/ SendLand(l) /\ sent' = TRUE /\ UNCHANGED <<unconfirmed, flying, watch, basis>>
           \/ LandConfirms(l)
<1> USE DEF drone, takeoff, flags
<1>1. ASSUME NEW reply \in Oks \cup {"error", None}, Answered(l, reply)
      PROVE  UNCHANGED flags \/ LandConfirms(l)
  BY <1>1 DEF Answered, LandConfirms
<1>2. CASE TryChannel(l) \/ SeekChannel(l) \/ StopSeeking(l)
  BY <1>2 DEF TryChannel, SeekChannel, StopSeeking
<1>3. CASE SendLand(l)
  BY <1>3 DEF SendLand
<1>4. CASE Watch(l)
  BY <1>4 DEF Watch, LandConfirms
<1>. QED
  BY <1>1, <1>2, <1>3, <1>4 DEF LandStep

\* What a land that begins writes, field by field.
LEMMA LandBegins ==
    ASSUME TelloTypeOK, NEW l \in Landers, BeginLand(l)
    PROVE  /\ flier' \in Flier /\ flier'.at = flier.at
           /\ flier.overtaken => flier'.overtaken
           /\ flier.at \notin {"idle", "move", "moving"} => flier'.overtaken
           /\ flier.at \in {"idle", "move", "moving"} => flier'.overtaken = flier.overtaken
           /\ poller' \in Poller /\ poller'.at = poller.at
           /\ poller.at # "idle" => poller'.late
           /\ landing' /\ unconfirmed' /\ landing' \in BOOLEAN /\ unconfirmed' \in BOOLEAN
           /\ sent' \in BOOLEAN /\ (sent' => sent /\ unconfirmed)
           /\ guarded' \in BOOLEAN /\ (guarded' => age # "old")
           /\ guarded => guarded'
           /\ MayLift /\ age # "old" => guarded'
           /\ flying' \in BOOLEAN /\ basis' \in Bases
           /\ UNCHANGED <<drone, answeredOk, channel, watch, short>>
<1> USE DEF drone, takeoff, flags
<1>1. /\ flier' \in Flier /\ flier'.at = flier.at
      /\ flier.overtaken => flier'.overtaken
      /\ flier.at \notin {"idle", "move", "moving"} => flier'.overtaken
      /\ flier.at \in {"idle", "move", "moving"} => flier'.overtaken = flier.overtaken
  <2>1. (flier.overtaken \/ flier.at \notin {"idle", "move", "moving"}) \in BOOLEAN
    OBVIOUS
  <2>2. flier \in Flier /\ flier.overtaken \in BOOLEAN
    BY DEF TelloTypeOK, Flier
  <2>3. flier' = [flier EXCEPT !.overtaken = flier.overtaken \/ flier.at \notin {"idle", "move", "moving"}]
    BY DEF BeginLand
  <2>4. /\ flier' \in Flier /\ flier'.at = flier.at
        /\ flier'.overtaken = (flier.overtaken \/ flier.at \notin {"idle", "move", "moving"})
    BY <2>1, <2>2, <2>3 DEF Flier
  <2>. QED
    BY <2>2, <2>4
<1>2. /\ poller' \in Poller /\ poller'.at = poller.at
      /\ poller.at # "idle" => poller'.late
  BY DEF BeginLand, OvertakePoll, TelloTypeOK, Poller
<1>3. /\ landing' = TRUE /\ unconfirmed' = TRUE
      /\ sent' = (sent /\ unconfirmed) /\ guarded' = (guarded \/ (MayLift /\ age # "old"))
      /\ MarkFlying(guarded')
      /\ UNCHANGED <<drone, answeredOk, channel, watch, short>>
  BY DEF BeginLand
<1>4. sent' \in BOOLEAN /\ guarded' \in BOOLEAN /\ (sent' => sent /\ unconfirmed)
  BY <1>3
<1>5. /\ guarded' => age # "old"
      /\ guarded => guarded'
      /\ MayLift /\ age # "old" => guarded'
  BY <1>3 DEF TelloTypeOK
<1>6. flying' \in BOOLEAN /\ basis' \in Bases
  BY <1>3 DEF MarkFlying, Upon, TelloTypeOK, Bases
<1>. QED
  BY <1>1, <1>2, <1>3, <1>4, <1>5, <1>6

\* A step of a land keeps the types.
LEMMA LandTypes == ASSUME TelloTypeOK, NEW l \in Landers, LandStep(l) PROVE TelloTypeOK'
<1> USE DEF drone, takeoff, flags
<1>1. /\ body' \in {"down", "air"} /\ lift' \in BOOLEAN /\ (lift' => body' = "down")
      /\ answer' \in {"none", "due", "received"}
      /\ stream' \in {"fresh", "gap", "lost"} /\ age' \in {"young", "middle", "old"}
      /\ answeredOk' \in BOOLEAN
  BY LandData, LandStepPasses DEF TelloTypeOK
<1>2. /\ guarded' \in BOOLEAN /\ (guarded' => age' # "old")
      /\ landing' \in BOOLEAN /\ flier' \in Flier /\ flier'.at = flier.at /\ poller' \in Poller
  BY LandData, LandBegins, LandStepPasses DEF TelloTypeOK
<1>3. /\ unconfirmed' \in BOOLEAN /\ flying' \in BOOLEAN /\ watch' \in BOOLEAN
      /\ sent' \in BOOLEAN /\ basis' \in Bases
  <2>1. CASE BeginLand(l)
    BY <2>1, LandBegins DEF TelloTypeOK
  <2>2. CASE LandConfirms(l)
    <3>1. lander[l].ok \in Oks \cup {None} /\ basis \in Bases /\ "state" \in Bases /\ Oks \subseteq Bases
      BY DEF TelloTypeOK, Lander, Bases
    <3>2. \A reply : Alone(reply) # None => Alone(reply) \in Bases
      BY <3>1 DEF Alone
    <3>. QED
      BY <2>2, <3>1, <3>2, Confirms DEF LandConfirms
  <2>3. CASE UNCHANGED flags
    BY <2>3 DEF TelloTypeOK
  <2>. QED
    BY <2>1, <2>2, <2>3, LandFlags DEF TelloTypeOK
<1>4. \A k \in Landers : channel' = k <=> lander'[k].at \in {"holding", "sent"}
  <2>1. CASE channel' = channel
    BY <2>1, LandHolds, LandStepPasses, LandPass DEF TelloTypeOK
  <2>2. CASE channel \in {None, l} /\ channel' \in {None, l}
    BY <2>2, LandHolds, LandStepPasses, LandPass, NoneIsNothing DEF TelloTypeOK, Holders
  <2>. QED
    BY <2>1, <2>2, LandHolds
<1>5. /\ channel' \in Holders \cup {None}
      /\ channel' = "flier" <=> flier'.at \notin {"idle", "called"}
      /\ short' \in {"checking", "cleared", "sent", None}
      /\ channel' \in {"keepalive", "stream"} <=> short' # None
  BY <1>2, LandHolds, LandStepPasses, NoneIsNothing DEF TelloTypeOK, Holders
<1>6. lander' \in [Landers -> Lander]
  BY LandStepPasses, LandPass
<1>. QED
  BY <1>1, <1>2, <1>3, <1>4, <1>5, <1>6 DEF TelloTypeOK

\* What a poll that is overtaken becomes.
LEMMA PollOvertaken ==
    ASSUME poller \in Poller, OvertakePoll
    PROVE  /\ poller' \in Poller /\ poller'.at = poller.at
           /\ poller.at # "idle" => poller'.late
BY DEF OvertakePoll, Poller

\* A step of the flying thread keeps the types.
LEMMA FlierTypes == ASSUME TelloTypeOK, FlierStep PROVE TelloTypeOK'
<1> USE DEF drone, takeoff, flags
<1>1. /\ flier \in Flier
      /\ channel = "flier" <=> flier.at \notin {"idle", "called"}
  BY DEF TelloTypeOK
<1>2. /\ \A at \in FlierPoints : FlierGoes(at) => flier' \in Flier /\ flier'.at = at
      /\ HangUp => flier' \in Flier /\ flier'.at = "idle" /\ channel' = None
  BY <1>1, FlierGoesTo, FlierHangsUp
<1>3. FlierPoints = {"idle", "called", "ready", "waiting", "doubting", "accepted", "settled", "move",
                        "moving"}
  BY DEF FlierPoints
\* Only the flying thread's place and its hold of the channel change.
<1>4. ASSUME flier' \in Flier, channel' = "flier" <=> flier'.at \notin {"idle", "called"},
             channel' = channel \/ (channel \in {None, "flier"} /\ channel' \in {None, "flier"}),
             UNCHANGED <<short, lander>>
      PROVE  /\ flier' \in Flier
             /\ channel' = "flier" <=> flier'.at \notin {"idle", "called"}
             /\ channel' \in Holders \cup {None}
             /\ channel' \in {"keepalive", "stream"} <=> short' # None
             /\ \A l \in Landers : channel' = l <=> lander'[l].at \in {"holding", "sent"}
             /\ short' \in {"checking", "cleared", "sent", None} /\ lander' \in [Landers -> Lander]
  BY <1>4, NoneIsNothing DEF TelloTypeOK, Holders
<1> DEFINE Moves == /\ flier' \in Flier /\ (channel' = "flier" <=> flier'.at \notin {"idle", "called"})
                    /\ channel' = channel \/ (channel \in {None, "flier"} /\ channel' \in {None, "flier"})
                    /\ UNCHANGED <<short, lander>>
           Kept == /\ body' \in {"down", "air"} /\ lift' \in BOOLEAN /\ (lift' => body' = "down")
                   /\ answer' \in {"none", "due", "received"}
                   /\ stream' \in {"fresh", "gap", "lost"} /\ age' \in {"young", "middle", "old"}
                   /\ answeredOk' \in BOOLEAN /\ guarded' \in BOOLEAN /\ (guarded' => age' # "old")
                   /\ landing' \in BOOLEAN /\ poller' \in Poller
           FlagsKept == /\ unconfirmed' \in BOOLEAN /\ flying' \in BOOLEAN /\ watch' \in BOOLEAN
                        /\ sent' \in BOOLEAN /\ basis' \in Bases
<1>5. CASE CallTakeoff
  <2>1. flier' \in Flier /\ flier'.at = "called" /\ flier.at = "idle"
    BY <1>5 DEF CallTakeoff, Flier
  <2>2. Moves
    BY <1>1, <1>5, <2>1 DEF CallTakeoff
  <2>3. Kept /\ FlagsKept
    BY <1>5 DEF CallTakeoff, TelloTypeOK
  <2>. QED
    BY <1>4, <2>2, <2>3 DEF TelloTypeOK
<1>6. ASSUME NEW from \in {"called", "idle"}, NEW to \in {"ready", "move"}, TakeChannelToFly(from, to)
      PROVE  TelloTypeOK'
  <2>1. Moves
    BY <1>1, <1>2, <1>3, <1>6 DEF TakeChannelToFly
  <2>2. Kept /\ FlagsKept
    BY <1>6 DEF TakeChannelToFly, TelloTypeOK
  <2>. QED
    BY <1>4, <2>1, <2>2 DEF TelloTypeOK
<1>7. CASE TakeoffRefused \/ TakeoffFails \/ MoveEnds
  <2>1. Moves
    BY <1>1, <1>2, <1>7, NoneIsNothing DEF TakeoffRefused, TakeoffFails, MoveEnds, Holders
  <2>2. Kept /\ FlagsKept
    BY <1>7 DEF TakeoffRefused, TakeoffFails, MoveEnds, TelloTypeOK
  <2>. QED
    BY <1>4, <2>1, <2>2 DEF TelloTypeOK
<1>8. CASE SendTakeoff
  <2>1. Moves
    BY <1>1, <1>2, <1>3, <1>8 DEF SendTakeoff
  <2>2. poller' \in Poller
    BY <1>8, PollOvertaken DEF SendTakeoff, TelloTypeOK
  <2>3. lift' \in BOOLEAN /\ (lift' => body = "down")
    BY <1>8 DEF SendTakeoff, TelloTypeOK
  <2>4. Kept /\ FlagsKept
    BY <1>8, <2>2, <2>3 DEF SendTakeoff, TelloTypeOK, Bases
  <2>. QED
    BY <1>4, <2>1, <2>4 DEF TelloTypeOK
<1>9. CASE TakeoffOk
  <2>1. Moves
    BY <1>1, <1>2, <1>3, <1>9 DEF TakeoffOk
  <2>2. Kept /\ FlagsKept
    BY <1>9 DEF TakeoffOk, TelloTypeOK, Bases
  <2>. QED
    BY <1>4, <2>1, <2>2 DEF TelloTypeOK
<1>10. CASE TakeoffError \/ SeenAirborne
  <2>1. Moves
    BY <1>1, <1>2, <1>3, <1>10 DEF TakeoffError, SeenAirborne
  <2>2. Kept /\ FlagsKept
    BY <1>10 DEF TakeoffError, SeenAirborne, TelloTypeOK
  <2>. QED
    BY <1>4, <2>1, <2>2 DEF TelloTypeOK
<1>13. CASE TakeoffDone
  <2>1. Moves
    BY <1>1, <1>2, <1>13, NoneIsNothing DEF TakeoffDone, Holders
  <2>2. Kept /\ FlagsKept
    BY <1>13 DEF TakeoffDone, TelloTypeOK
  <2>. QED
    BY <1>4, <2>1, <2>2 DEF TelloTypeOK
<1>11. CASE LandSettled
  <2>1. Moves
    BY <1>1, <1>2, <1>3, <1>11 DEF LandSettled
  <2>2. unconfirmed' \in BOOLEAN /\ sent' \in BOOLEAN
    <3>1. (unconfirmed /\ flier.overtaken) \in BOOLEAN /\ (sent /\ flier.overtaken) \in BOOLEAN
      OBVIOUS
    <3>. QED
      BY <1>11, <3>1 DEF LandSettled
  <2>3. Kept /\ FlagsKept
    BY <1>11, <2>2 DEF LandSettled, TelloTypeOK
  <2>. QED
    BY <1>4, <2>1, <2>3 DEF TelloTypeOK
<1>12. CASE SendMove
  <2>1. Moves
    BY <1>1, <1>2, <1>3, <1>12, NoneIsNothing DEF SendMove, Holders
  <2>2. Kept /\ FlagsKept
    BY <1>12 DEF SendMove, DropReplies, TelloTypeOK
  <2>. QED
    BY <1>4, <2>1, <2>2 DEF TelloTypeOK
<1>. QED
  BY <1>5, <1>6, <1>7, <1>8, <1>9, <1>10, <1>11, <1>12, <1>13 DEF FlierStep

\* So do the short commands, ...
LEMMA ShortTypes == ASSUME TelloTypeOK, ShortStep PROVE TelloTypeOK'
<1> USE NoneIsNothing DEF drone, takeoff, flags, TelloTypeOK, Holders
<1>1. ASSUME NEW who \in {"keepalive", "stream"}, TakeChannelFor(who) PROVE TelloTypeOK'
  BY <1>1 DEF TakeChannelFor
<1>2. CASE ShortEnds
  BY <1>2 DEF ShortEnds
<1>3. CASE KeepaliveChecks
  BY <1>3 DEF KeepaliveChecks
<1>4. CASE KeepaliveSends
  BY <1>4 DEF KeepaliveSends, DropReplies
<1>5. CASE StreamSends
  BY <1>5 DEF StreamSends, DropReplies
<1>. QED
  BY <1>1, <1>2, <1>3, <1>4, <1>5 DEF ShortStep

\* ... the poller, ...
LEMMA PollerTypes == ASSUME TelloTypeOK, PollerStep PROVE TelloTypeOK'
<1> USE DEF drone, takeoff, flags
<1>1. poller \in Poller
  BY DEF TelloTypeOK
<1>2. CASE PollBegins \/ PollEvaluates
  <2>1. NoPoll \in Poller /\ [NoPoll EXCEPT !.at = "polling"] \in Poller
    BY DEF NoPoll, Poller
  <2>2. (stream # "fresh" /\ ~poller.late) \in BOOLEAN
    OBVIOUS
  <2>3. /\ [poller EXCEPT !.at = "marking"] \in Poller
        /\ [poller EXCEPT !.at = "clearing", !.blind = stream # "fresh" /\ ~poller.late] \in Poller
    BY <1>1, <2>2 DEF Poller
  <2>4. poller' \in Poller
    BY <1>2, <2>1, <2>3 DEF PollBegins, PollEvaluates, PollerGoes
  <2>. QED
    BY <1>2, <2>4 DEF PollBegins, PollEvaluates, TelloTypeOK
<1>3. CASE PollMarks
  <2>1. NoPoll \in Poller /\ [poller EXCEPT !.at = "polling"] \in Poller
    BY <1>1 DEF NoPoll, Poller
  <2>2. poller' \in Poller
    BY <1>3, <2>1 DEF PollMarks, PollerGoes
  <2>3. (IF poller.late THEN "misled" ELSE "state") \in Bases
    BY DEF Bases
  <2>4. /\ unconfirmed' \in BOOLEAN /\ flying' \in BOOLEAN /\ watch' \in BOOLEAN
        /\ sent' \in BOOLEAN /\ basis' \in Bases
    <3>1. CASE UNCHANGED flags
      BY <3>1 DEF TelloTypeOK
    <3>2. CASE Confirm(IF poller.late THEN "misled" ELSE "state")
      BY <2>3, <3>2, Confirms DEF TelloTypeOK
    <3>. QED
      BY <1>3, <3>1, <3>2 DEF PollMarks
  <2>. QED
    BY <1>3, <2>2, <2>4 DEF PollMarks, TelloTypeOK
<1>4. CASE PollClears
  <2>1. poller' \in Poller
    BY <1>4 DEF PollClears, NoPoll, Poller
  <2>2. \A how \in Bases : Upon(how) \in Bases
    BY DEF Upon, Bases
  <2>3. flying' \in BOOLEAN /\ basis' \in Bases
    BY <1>4, <2>2 DEF PollClears, Bases
  <2>. QED
    BY <1>4, <2>1, <2>3 DEF PollClears, TelloTypeOK
<1>5. CASE PollFlags
  <2>1. Upon("state") \in Bases
    BY DEF Upon, Bases
  <2>2. /\ unconfirmed' \in BOOLEAN /\ flying' \in BOOLEAN /\ watch' \in BOOLEAN
        /\ sent' \in BOOLEAN /\ basis' \in Bases
    BY <1>5, <2>1 DEF PollFlags
  <2>. QED
    BY <1>5, <2>2 DEF PollFlags, TelloTypeOK
<1>. QED
  BY <1>2, <1>3, <1>4, <1>5 DEF PollerStep

\* ... the drone and time.
LEMMA DroneTypes == ASSUME TelloTypeOK, DroneStep \/ Aging \/ UNCHANGED vars PROVE TelloTypeOK'
<1> USE DEF drone, takeoff, flags
<1>1. CASE DroneStep
  <2>1. /\ body' \in {"down", "air"} /\ lift' \in BOOLEAN /\ (lift' => body' = "down")
        /\ answer' \in {"none", "due", "received"} /\ stream' \in {"fresh", "gap", "lost"} /\ age' = age
    <3>1. CASE Lifts \/ ComesDown
      BY <3>1 DEF Lifts, ComesDown, TelloTypeOK
    <3>2. CASE AnswerMoves \/ StreamChanges
      BY <3>2 DEF AnswerMoves, StreamChanges, TelloTypeOK
    <3>. QED
      BY <1>1, <3>1, <3>2 DEF DroneStep
  <2>. QED
    BY <1>1, <2>1 DEF DroneStep, TelloTypeOK
<1>2. CASE Aging
  <2>1. /\ answer' \in {"none", "due", "received"} /\ age' \in {"young", "middle", "old"}
        /\ guarded' \in BOOLEAN /\ (guarded' => age' # "old")
    BY <1>2 DEF Aging, TelloTypeOK
  <2>. QED
    BY <1>2, <2>1 DEF Aging, TelloTypeOK
<1>3. CASE UNCHANGED vars
  BY <1>3 DEF vars, TelloTypeOK
<1>. QED
  BY <1>1, <1>2, <1>3

\* Every step keeps the types.
LEMMA TypeStep == TelloTypeOK /\ [Next]_vars => TelloTypeOK'
BY FlierTypes, ShortTypes, LandTypes, PollerTypes, DroneTypes DEF Next

\* And the drone starts in them.
LEMMA InitTyped == Init => TelloTypeOK
<1> SUFFICES ASSUME Init PROVE TelloTypeOK
  OBVIOUS
<1>1. flier \in Flier /\ flier.at = "idle" /\ poller \in Poller
  BY DEF Init, Flier, Poller, NoPoll
<1>2. lander \in [Landers -> Lander] /\ \A l \in Landers : lander[l].at = "idle"
  BY DEF Init, Lander, NoLand
<1>3. channel = None /\ None \notin Landers /\ None \notin {"flier", "keepalive", "stream"}
  BY LandingAssumption DEF Init
<1>. QED
  BY <1>1, <1>2, <1>3 DEF Init, TelloTypeOK, Bases

\* The channel is held by the thread that has a command on it and by no other, and
\* the rest of the state keeps its types.
THEOREM TelloTyped == Spec => []TelloTypeOK
BY InitTyped, TypeStep, PTL DEF Spec

----------------------------------------------------------------------------
(* What every step writes.                                                 *)

Begins == \E l \in Landers : BeginLand(l)
Sends == \E l \in Landers : SendLand(l) /\ sent' = TRUE /\ UNCHANGED <<unconfirmed, flying, watch, basis>>
Confirmed == \E l \in Landers : LandStep(l) /\ LandConfirms(l)
Marks == PollMarks /\ Confirm(IF poller.late THEN "misled" ELSE "state")

\* The flags of a land.
LEMMA FlagWrites ==
    ASSUME TelloTypeOK, [Next]_vars
    PROVE  \/ Begins \/ Sends \/ Confirmed \/ Marks \/ PollClears \/ PollFlags
           \/ LandSettled \/ TakeoffDone \/ SendTakeoff \/ TakeoffOk
           \/ UNCHANGED flags
<1> USE DEF takeoff, flags
<1>1. ASSUME NEW l \in Landers, LandStep(l) PROVE Begins \/ Sends \/ Confirmed \/ UNCHANGED flags
  BY <1>1, LandFlags DEF Begins, Sends, Confirmed
<1>2. CASE FlierStep
  BY <1>2 DEF FlierStep, CallTakeoff, TakeChannelToFly, TakeoffRefused, TakeoffError, SeenAirborne,
              TakeoffFails, SendMove, MoveEnds
<1>3. CASE ShortStep
  BY <1>3 DEF ShortStep, TakeChannelFor, ShortEnds, KeepaliveChecks, KeepaliveSends, StreamSends
<1>4. CASE PollerStep
  BY <1>4 DEF PollerStep, PollBegins, PollEvaluates, PollMarks, Marks
<1>5. CASE DroneStep \/ Aging \/ UNCHANGED vars
  BY <1>5 DEF DroneStep, Aging, vars
<1>. QED
  BY <1>1, <1>2, <1>3, <1>4, <1>5 DEF Next

\* The drone and the takeoff: nothing but these steps makes it lift or answer, or
\* changes what is known of the takeoff.
Quiet ==
    /\ lift' => lift
    /\ answer' # "none" => answer # "none"
    /\ body' = "air" => body = "air"
    /\ UNCHANGED <<age, answeredOk, guarded, landing>>

\* What a step does to the drone and to its age in the air.
LEMMA DroneWrites ==
    ASSUME TelloTypeOK, [Next]_vars
    PROVE  \/ SendTakeoff \/ TakeoffOk \/ Begins \/ (DroneStep /\ Lifts) \/ Aging
           \/ Quiet
<1> USE DEF drone, takeoff
<1>1. ASSUME NEW l \in Landers, LandStep(l) PROVE Begins \/ Quiet
  BY <1>1, LandData, LandStepPasses DEF Begins, Quiet, TelloTypeOK
<1>2. CASE FlierStep
  BY <1>2 DEF FlierStep, CallTakeoff, TakeChannelToFly, TakeoffRefused, TakeoffError, SeenAirborne,
              TakeoffFails, LandSettled, TakeoffDone, SendMove, MoveEnds, DropReplies, Quiet
<1>3. CASE ShortStep
  BY <1>3 DEF ShortStep, TakeChannelFor, ShortEnds, KeepaliveChecks, KeepaliveSends, StreamSends,
              DropReplies, Quiet
<1>4. CASE PollerStep
  BY <1>4 DEF PollerStep, PollBegins, PollEvaluates, PollMarks, PollClears, PollFlags, Quiet
<1>5. CASE DroneStep /\ ~Lifts
  BY <1>5 DEF DroneStep, ComesDown, AnswerMoves, StreamChanges, Quiet
<1>6. CASE UNCHANGED vars
  BY <1>6 DEF vars, Quiet
<1>. QED
  BY <1>1, <1>2, <1>3, <1>4, <1>5, <1>6 DEF Next

\* The flying thread comes to wait only by sending, and to accept only by waiting.
LEMMA FlierWrites ==
    ASSUME TelloTypeOK, [Next]_vars
    PROVE  /\ Awaited' => SendTakeoff \/ (Awaited /\ (flier'.overtaken = flier.overtaken \/ Begins))
           /\ Accepted' => /\ Awaited \/ Accepted
                           /\ flier'.overtaken = flier.overtaken \/ Begins
           /\ Accepted => Accepted' \/ TakeoffDone
           /\ SendTakeoff => Awaited' /\ ~flier'.overtaken
           /\ TakeoffOk => Awaited /\ Accepted'
           /\ LandSettled => Accepted /\ Accepted'
<1> USE DEF Awaited, Accepted
<1>1. flier \in Flier
  BY DEF TelloTypeOK
<1>2. \A at \in FlierPoints : FlierGoes(at) => flier'.at = at /\ flier'.overtaken = flier.overtaken
  BY <1>1, FlierGoesTo
<1>3. HangUp => flier'.at = "idle"
  BY FlierHangsUp
<1>4. FlierPoints = {"idle", "called", "ready", "waiting", "doubting", "accepted", "settled", "move",
                        "moving"}
  BY DEF FlierPoints
<1>5. /\ SendTakeoff => flier'.at = "waiting" /\ ~flier'.overtaken
      /\ TakeoffOk => Awaited /\ flier'.at = "accepted" /\ flier'.overtaken = flier.overtaken
      /\ LandSettled => /\ flier.at = "accepted" /\ flier'.at = "settled"
                        /\ flier'.overtaken = flier.overtaken
  BY <1>2, <1>4 DEF SendTakeoff, TakeoffOk, LandSettled
<1>6. CASE FlierStep
  <2>1. CallTakeoff => flier.at = "idle" /\ flier'.at = "called"
    BY DEF CallTakeoff
  <2>2. /\ TakeChannelToFly("called", "ready") => flier.at = "called" /\ flier'.at = "ready"
        /\ TakeChannelToFly("idle", "move") => flier.at = "idle" /\ flier'.at = "move"
    BY <1>2, <1>4 DEF TakeChannelToFly
  <2>3. TakeoffError \/ SeenAirborne => /\ Awaited /\ flier'.at \in {"doubting", "accepted"}
                                        /\ flier'.overtaken = flier.overtaken
    BY <1>2, <1>4 DEF TakeoffError, SeenAirborne
  <2>4. TakeoffRefused \/ TakeoffFails \/ MoveEnds => flier'.at = "idle" /\ ~Accepted
    BY <1>3 DEF TakeoffRefused, TakeoffFails, MoveEnds
  <2>5. TakeoffDone => flier'.at = "idle"
    BY <1>3 DEF TakeoffDone
  <2>6. SendMove => flier.at = "move" /\ flier'.at \in {"idle", "moving"}
    BY <1>2, <1>3, <1>4 DEF SendMove
  <2>7. CASE SendTakeoff
    BY <1>5, <2>7 DEF SendTakeoff
  <2>8. CASE TakeoffOk
    BY <1>5, <2>8 DEF SendTakeoff, TakeoffOk
  <2>9. CASE TakeoffError \/ SeenAirborne
    BY <1>5, <2>3, <2>9 DEF SendTakeoff, TakeoffError, SeenAirborne
  <2>11. CASE LandSettled
    BY <1>5, <2>11 DEF SendTakeoff, TakeoffOk
  <2>10. CASE ~(SendTakeoff \/ TakeoffOk \/ TakeoffError \/ SeenAirborne \/ LandSettled)
    <3>1. flier'.at \in {"called", "ready", "move", "idle", "moving"} /\ (Accepted => TakeoffDone)
      BY <1>6, <2>1, <2>2, <2>4, <2>5, <2>6, <2>10 DEF FlierStep
    <3>. QED
      BY <2>10, <3>1
  <2>. QED
    BY <2>7, <2>8, <2>9, <2>10, <2>11
<1>7. CASE UNCHANGED flier
  BY <1>5, <1>7 DEF TakeoffDone
<1>8. ASSUME NEW l \in Landers, BeginLand(l) PROVE Begins /\ flier'.at = flier.at
  BY <1>8, LandBegins DEF Begins
<1>9. ASSUME ~FlierStep, ~Begins PROVE UNCHANGED flier
  BY <1>9, LandData DEF Next, ShortStep, TakeChannelFor, ShortEnds, KeepaliveChecks, KeepaliveSends,
     StreamSends, PollerStep, PollBegins, PollEvaluates, PollMarks, PollClears, PollFlags, DroneStep,
     Aging, vars, Begins
<1>. QED
  BY <1>5, <1>6, <1>7, <1>8, <1>9 DEF Begins

\* The poller: only its own steps, a takeoff and a land that begins write it.
LEMMA PollerWrites ==
    ASSUME TelloTypeOK, [Next]_vars
    PROVE  \/ UNCHANGED poller
           \/ PollBegins \/ PollEvaluates \/ PollMarks \/ PollClears
           \/ /\ Begins \/ SendTakeoff
              /\ poller'.at = poller.at /\ (poller.at # "idle" => poller'.late)
<1>1. ASSUME NEW l \in Landers, BeginLand(l)
      PROVE  Begins /\ poller'.at = poller.at /\ (poller.at # "idle" => poller'.late)
  BY <1>1, LandBegins DEF Begins
<1>2. SendTakeoff => poller'.at = poller.at /\ (poller.at # "idle" => poller'.late)
  BY PollOvertaken DEF SendTakeoff, TelloTypeOK
<1>3. ASSUME NEW l \in Landers, LandStep(l), ~BeginLand(l) PROVE UNCHANGED poller
  BY <1>3, LandData
<1>4. CASE FlierStep /\ ~SendTakeoff
  BY <1>4 DEF FlierStep, CallTakeoff, TakeChannelToFly, TakeoffRefused, TakeoffOk, TakeoffError,
              SeenAirborne, TakeoffFails, LandSettled, TakeoffDone, SendMove, MoveEnds
<1>5. CASE ShortStep \/ DroneStep \/ Aging \/ UNCHANGED vars
  BY <1>5 DEF ShortStep, TakeChannelFor, ShortEnds, KeepaliveChecks, KeepaliveSends, StreamSends,
              DroneStep, Aging, vars
<1>6. CASE PollFlags
  BY <1>6 DEF PollFlags
<1>. QED
  BY <1>1, <1>2, <1>3, <1>4, <1>5, <1>6 DEF Next, PollerStep

\* The lands: only their own steps write them.
LEMMA LanderWrites == ASSUME [Next]_vars PROVE UNCHANGED lander \/ \E l \in Landers : LandStep(l)
BY DEF Next, FlierStep, CallTakeoff, TakeChannelToFly, TakeoffRefused, SendTakeoff, TakeoffOk,
       TakeoffError, SeenAirborne, TakeoffFails, LandSettled, TakeoffDone, SendMove, MoveEnds,
       ShortStep, TakeChannelFor, ShortEnds, KeepaliveChecks, KeepaliveSends, StreamSends,
       PollerStep, PollBegins, PollEvaluates, PollMarks, PollClears, PollFlags,
       DroneStep, Aging, vars

----------------------------------------------------------------------------
(* Nothing disturbs the Tello's own landing.                               *)

\* A command that was let through stays harmless until it is sent: no land takes
\* the channel meanwhile, and one that begins has not been sent.
LEMMA ClearedStep == TelloTypeOK /\ ClearedInv /\ [Next]_vars => ClearedInv'
<1> SUFFICES ASSUME TelloTypeOK, ClearedInv, [Next]_vars, short' = "cleared", unconfirmed', sent'
             PROVE  FALSE
  BY DEF ClearedInv
<1> USE DEF flags
<1>1. CASE short # "cleared"
  <2>1. ~\E l \in Landers : LandStep(l)
    BY <1>1, LandStepPasses
  <2>2. ~(FlierStep \/ PollerStep \/ DroneStep \/ Aging \/ UNCHANGED vars)
    BY <1>1 DEF FlierStep, CallTakeoff, TakeChannelToFly, TakeoffRefused, SendTakeoff, TakeoffOk,
       TakeoffError, SeenAirborne, TakeoffFails, LandSettled, TakeoffDone, SendMove, MoveEnds,
       PollerStep, PollBegins, PollEvaluates, PollMarks, PollClears, PollFlags, DroneStep, Aging, vars
  <2>3. ~ShortStep
    BY <1>1, NoneIsNothing DEF ShortStep, TakeChannelFor, ShortEnds, KeepaliveChecks, KeepaliveSends, StreamSends
  <2>. QED
    BY <2>1, <2>2, <2>3 DEF Next
<1>2. CASE short = "cleared" /\ ~(unconfirmed /\ sent)
  <2>1. channel \in {"keepalive", "stream"}
    BY <1>2, NoneIsNothing DEF TelloTypeOK
  <2>2. ~Begins
    BY <1>2, LandBegins DEF Begins
  <2>3. ~Sends
    <3>1. \A l \in Landers : channel # l
      BY <2>1, NoneIsNothing
    <3>2. \A l \in Landers : lander[l].at # "holding"
      BY <3>1 DEF TelloTypeOK
    <3>. QED
      BY <3>2 DEF Sends, SendLand
  <2>4. ~Confirmed /\ ~Marks
    BY DEF Confirmed, LandConfirms, Marks, Confirm
  <2>5. ~PollFlags /\ ~LandSettled
    BY <1>2 DEF PollFlags, LandSettled
  <2>. QED
    BY <1>2, <2>2, <2>3, <2>4, <2>5, FlagWrites DEF PollClears, SendTakeoff, TakeoffOk, TakeoffDone
<1>. QED
  BY <1>1, <1>2 DEF ClearedInv

\* Once a confirming land was sent, and until it is confirmed, no short command is
\* sent that would put off the Tello's landing by itself.
THEOREM TelloLandsByItself == Spec => AutoLandUndisturbed
<1>1. ASSUME TelloTypeOK, ClearedInv, [Next]_vars, short # "sent", short' = "sent"
      PROVE  ~(unconfirmed /\ sent)
  <2>1. ~\E l \in Landers : LandStep(l)
    BY <1>1, LandStepPasses
  <2>2. ~(FlierStep \/ PollerStep \/ DroneStep \/ Aging \/ UNCHANGED vars)
    BY <1>1 DEF FlierStep, CallTakeoff, TakeChannelToFly, TakeoffRefused, SendTakeoff, TakeoffOk,
       TakeoffError, SeenAirborne, TakeoffFails, LandSettled, TakeoffDone, SendMove, MoveEnds,
       PollerStep, PollBegins, PollEvaluates, PollMarks, PollClears, PollFlags, DroneStep, Aging, vars
  <2>3. ShortStep => KeepaliveSends \/ StreamSends
    BY <1>1, NoneIsNothing DEF ShortStep, TakeChannelFor, ShortEnds, KeepaliveChecks
  <2>4. KeepaliveSends => short = "cleared"
    BY DEF KeepaliveSends
  <2>5. StreamSends => ~unconfirmed
    BY <1>1, NoneIsNothing DEF StreamSends
  <2>. QED
    BY <1>1, <2>1, <2>2, <2>3, <2>4, <2>5 DEF Next, ClearedInv
<1>2. TelloTypeOK /\ ClearedInv /\ [Next]_vars
        => [short # "sent" /\ short' = "sent" => ~(unconfirmed /\ sent)]_vars
  BY <1>1
<1>3. Init => ClearedInv
  BY DEF Init, ClearedInv
<1>. QED
  BY <1>2, <1>3, TelloTyped, ClearedStep, PTL DEF Spec, AutoLandUndisturbed

----------------------------------------------------------------------------
(* The inductive invariant.                                                *)

\* Once the code is misled it stays so, until the next takeoff.
LEMMA MisledStays == ASSUME TelloTypeOK, [Next]_vars, Misled, ~SendTakeoff PROVE Misled'
<1> USE DEF flags, Misled, Upon
<1>1. ASSUME NEW l \in Landers, BeginLand(l) PROVE Misled'
  BY <1>1 DEF BeginLand, MarkFlying
<1>2. CASE Confirmed \/ Marks
  BY <1>2 DEF Confirmed, LandConfirms, Marks, Confirm
<1>3. CASE PollClears \/ PollFlags \/ LandSettled \/ TakeoffDone \/ TakeoffOk
  BY <1>3 DEF PollClears, PollFlags, LandSettled, TakeoffDone, TakeoffOk
<1>. QED
  BY <1>1, <1>2, <1>3, FlagWrites DEF Begins, Sends

\* A drone that does not lift stays so, and one that is down with it, until the
\* next takeoff.
LEMMA DownStays ==
    ASSUME TelloTypeOK, [Next]_vars, ~SendTakeoff, ~lift
    PROVE  ~lift' /\ (body = "down" => body' = "down")
<1>1. CASE TakeoffOk \/ Aging
  BY <1>1 DEF TakeoffOk, Aging
<1>2. CASE Begins
  BY <1>2, LandBegins DEF Begins, drone
<1>3. CASE Quiet
  <2>1. ~lift' /\ (body' # "air" \/ body = "air")
    BY <1>3 DEF Quiet
  <2>2. body' \in {"down", "air"}
    BY TypeStep DEF TelloTypeOK
  <2>. QED
    BY <2>1, <2>2
<1>. QED
  BY <1>1, <1>2, <1>3, DroneWrites DEF Lifts

\* A land that begins knows of the takeoff it follows.
LEMMA BeginsGuard ==
    ASSUME TelloTypeOK, FlierInv, GuardInv, Begins
    PROVE  /\ landing' /\ unconfirmed' /\ flier'.at = flier.at
           /\ guarded => guarded'
           /\ Awaited => guarded'
           /\ ~answeredOk /\ age # "old" => guarded'
           /\ Awaited \/ Accepted => flier'.overtaken
           /\ UNCHANGED <<drone, answeredOk>>
BY LandBegins DEF Begins, MayLift, Awaited, Accepted, FlierInv

\* The flying thread and the lands keep knowing of each other.
LEMMA FlierStepInv == ASSUME TelloTypeOK, FlierInv, GuardInv, [Next]_vars PROVE FlierInv'
<1> USE DEF drone
<1>1. Awaited' => ~answeredOk' /\ age' # "old"
  <2>1. CASE SendTakeoff
    BY <2>1 DEF SendTakeoff
  <2>2. CASE Awaited /\ ~SendTakeoff /\ ~TakeoffOk
    <3>1. ~answeredOk /\ age # "old"
      BY <2>2 DEF FlierInv
    <3>. QED
      BY <2>2, <3>1, DroneWrites, BeginsGuard DEF DroneStep, Lifts, takeoff, Aging, Awaited, Quiet
  <2>3. TakeoffOk => ~Awaited'
    BY FlierWrites DEF Awaited, Accepted
  <2>. QED
    BY <2>1, <2>2, <2>3, FlierWrites
<1>2. Awaited' /\ flier'.overtaken => guarded'
  <2> SUFFICES ASSUME Awaited', flier'.overtaken PROVE guarded'
    OBVIOUS
  <2>1. ~SendTakeoff /\ Awaited /\ ~TakeoffOk
    BY FlierWrites DEF Awaited, Accepted
  <2>2. CASE Begins
    BY <2>1, <2>2, BeginsGuard
  <2>3. CASE ~Begins
    <3>1. guarded /\ age # "old"
      BY <2>1, <2>3, FlierWrites DEF FlierInv
    <3>. QED
      BY <2>1, <2>3, <3>1, DroneWrites DEF DroneStep, Lifts, takeoff, Aging, Awaited, Quiet
  <2>. QED
    BY <2>2, <2>3
<1>3. Awaited' \/ Accepted' => (landing' => flier'.overtaken)
  <2> SUFFICES ASSUME Awaited' \/ Accepted', landing' PROVE flier'.overtaken
    OBVIOUS
  <2>1. ~SendTakeoff
    BY DEF SendTakeoff
  <2>2. Awaited \/ Accepted
    BY <2>1, FlierWrites
  <2>3. CASE Begins
    BY <2>2, <2>3, BeginsGuard DEF Awaited
  <2>4. CASE ~Begins
    <3>1. landing
      BY <2>1, <2>4, DroneWrites DEF TakeoffOk, DroneStep, Aging, Quiet
    <3>. QED
      BY <2>1, <2>2, <2>4, <3>1, FlierWrites DEF FlierInv
  <2>. QED
    BY <2>3, <2>4
<1>4. guarded' => landing'
  <2>1. CASE SendTakeoff
    BY <2>1 DEF SendTakeoff
  <2>2. CASE Begins
    BY <2>2, BeginsGuard
  <2>3. CASE ~SendTakeoff /\ ~Begins
    BY <2>3, DroneWrites DEF TakeoffOk, DroneStep, takeoff, Aging, Quiet, FlierInv
  <2>. QED
    BY <2>1, <2>2, <2>3
<1>5. ASSUME NEW k \in Landers, lander'[k].at # "idle" PROVE landing'
  <2>1. CASE SendTakeoff
    BY <1>5, <2>1 DEF SendTakeoff, LandsInProgress
  <2>2. CASE Begins
    BY <2>2, BeginsGuard
  <2>3. CASE ~SendTakeoff /\ ~Begins
    <3>1. landing' = landing
      BY <2>3, DroneWrites DEF TakeoffOk, DroneStep, Aging, Quiet
    <3>2. lander[k].at # "idle"
      <4>1. ASSUME NEW l \in Landers, LandStep(l) PROVE lander[k].at # "idle"
        <5>1. lander[l].at # "idle"
          BY <2>3, <4>1, LandStepPasses DEF Begins
        <5>2. k # l => lander'[k] = lander[k]
          BY <4>1, LandStepPasses, LandPass
        <5>. QED
          BY <1>5, <5>1, <5>2
      <4>. QED
        BY <1>5, <4>1, LanderWrites
    <3>. QED
      BY <3>1, <3>2 DEF FlierInv
  <2>. QED
    BY <2>1, <2>2, <2>3
<1>. QED
  BY <1>1, <1>2, <1>3, <1>4, <1>5 DEF FlierInv

\* Every lift and answer to come stays guarded against once a land began.
LEMMA GuardStep == ASSUME TelloTypeOK, FlierInv, GuardInv, [Next]_vars PROVE GuardInv'
<1> USE DEF drone, takeoff
<1>1. CASE SendTakeoff
  BY <1>1 DEF SendTakeoff, GuardInv, Unlanded
<1>2. CASE TakeoffOk
  <2>1. Awaited /\ flier \in Flier
    BY <1>2, FlierWrites DEF TelloTypeOK
  <2>2. flier.overtaken => guarded
    BY <2>1 DEF FlierInv
  <2>3. \/ answer = "received" /\ answer' = "none"
        \/ UNCHANGED answer /\ (flier.overtaken \/ Misled')
    BY <1>2 DEF TakeoffOk, Misled
  <2>4. UNCHANGED <<lift, age, guarded>>
    BY <1>2 DEF TakeoffOk
  <2>. QED
    BY <2>2, <2>3, <2>4 DEF GuardInv
<1>3. CASE Begins
  <2>1. ~SendTakeoff
    BY <1>3, BeginsGuard DEF SendTakeoff
  <2>2. UNCHANGED <<lift, age, answer>>
    BY <1>3, BeginsGuard
  <2>3. (lift \/ answer # "none") => age # "old"
    BY DEF GuardInv
  <2>4. (lift \/ answer # "none") /\ ~Misled => guarded'
    BY <1>3, <2>3, BeginsGuard DEF GuardInv, Unlanded
  <2>. QED
    BY <2>1, <2>2, <2>4, MisledStays DEF GuardInv
<1>4. CASE DroneStep /\ Lifts
  <2>1. lift /\ ~lift' /\ UNCHANGED <<age, answeredOk, guarded, landing>>
    BY <1>4 DEF DroneStep, Lifts
  <2>2. ~SendTakeoff
    BY <2>1 DEF SendTakeoff, LandsInProgress, TelloTypeOK
  <2>. QED
    BY <2>1, <2>2, MisledStays DEF GuardInv, Unlanded
<1>5. CASE Aging
  <2>1. UNCHANGED <<lift, answeredOk, landing>> /\ ~SendTakeoff
    BY <1>5 DEF Aging, SendTakeoff
  <2>. QED
    BY <1>5, <2>1, MisledStays DEF Aging, GuardInv, Unlanded
<1>6. CASE Quiet /\ ~SendTakeoff
  BY <1>6, MisledStays DEF Quiet, GuardInv, Unlanded
<1>. QED
  BY <1>1, <1>2, <1>3, <1>4, <1>5, <1>6, DroneWrites

\* While a land is in progress and nothing misled the code, a lift or an answer of
\* the takeoff still to come is guarded against.
LEMMA Guards ==
    ASSUME TelloTypeOK, FlierInv, GuardInv, landing, ~Misled
    PROVE  /\ lift => LiftGuard /\ ReplyGuard
           /\ answer # "none" => ReplyGuard
BY DEF GuardInv, Unlanded, LiftGuard, ReplyGuard

\* A reply to its land that a land may take as the only proof.
LandTrusts(l, reply) ==
    /\ lander[l].at = "sent" /\ (reply = "takeoff_ok" => answer = "received")
    /\ Alone(reply) # None

\* No reply that a land trusts is the takeoff's.
LEMMA TrustedReply ==
    ASSUME TelloTypeOK, FlierInv, GuardInv, NEW l \in Landers,
           NEW reply \in Oks \cup {"error", None}, LandTrusts(l, reply)
    PROVE  /\ Alone(reply) \in Oks /\ ~ReplyGuard
           /\ Alone(reply) = "takeoff_ok" => Misled
<1>1. Alone(reply) = reply /\ reply \in Oks /\ ~ReplyGuard
  BY DEF LandTrusts, Alone
<1>2. landing
  BY DEF LandTrusts, FlierInv
<1>. QED
  BY <1>1, <1>2, Guards DEF LandTrusts

\* What a confirmed land was confirmed upon: a state that shows the drone down for
\* good, or a reply that is not the takeoff's; unless the code is misled.
LEMMA ConfirmedUpon ==
    ASSUME TelloTypeOK, FlierInv, GuardInv, ReplyInv, [Next]_vars, Confirmed
    PROVE  /\ ~unconfirmed' /\ ~flying' /\ UNCHANGED <<body, landing>> /\ (lift' => lift) /\ landing
           /\ Misled => Misled'
           /\ ~Misled => /\ ~lift
                         /\ (basis' = "state" /\ body = "down") \/ basis' = "ok"
<1>1. PICK l \in Landers : LandStep(l) /\ LandConfirms(l)
  BY DEF Confirmed
<1>2. ~BeginLand(l)
  BY <1>1 DEF BeginLand, LandConfirms, Confirm
<1>3. lander[l].at # "idle" /\ landing
  BY <1>1, <1>2, LandStepPasses DEF FlierInv
<1>4. UNCHANGED <<body, landing>> /\ (lift' => lift)
  BY <1>1, <1>2, LandStepPasses, LandData DEF TelloTypeOK
<1>5. basis \in Bases /\ "state" \in Bases /\ Oks \subseteq Bases
  BY DEF TelloTypeOK, Bases
<1>6. CASE GroundSeen /\ Confirm("state")
  <2>1. ~Misled => body = "down" /\ ~lift
    BY <1>3, <1>6, Guards DEF GroundSeen
  <2>. QED
    BY <1>3, <1>4, <1>5, <1>6, <2>1, Confirms DEF Misled
<1>7. ASSUME NEW how \in Oks, how = "takeoff_ok" => Misled, ~ReplyGuard, Confirm(how)
      PROVE  /\ ~unconfirmed' /\ ~flying' /\ (Misled => Misled')
             /\ ~Misled => ~lift /\ basis' = "ok"
  BY <1>3, <1>5, <1>7, Confirms, Guards DEF Misled, Oks
<1>8. CASE \E reply \in Oks \cup {"error", None} : LandTrusts(l, reply) /\ Confirm(Alone(reply))
  BY <1>3, <1>4, <1>7, <1>8, TrustedReply
<1>9. CASE ~ReplyGuard /\ lander[l].ok # None /\ Confirm(lander[l].ok)
  <2>1. lander[l].ok \in Oks
    BY <1>9 DEF TelloTypeOK, Lander
  <2>. QED
    BY <1>3, <1>4, <1>7, <1>9, <2>1 DEF ReplyInv
<1>. QED
  BY <1>1, <1>6, <1>8, <1>9 DEF LandConfirms, LandTrusts

\* The reply that a land keeps until it may decide.
LEMMA LandReplies ==
    ASSUME TelloTypeOK, NEW l \in Landers, LandStep(l)
    PROVE  \/ lander'[l].ok \in {None, lander[l].ok}
           \/ \E reply \in Oks \cup {"error", None} : LandTrusts(l, reply) /\ lander'[l].ok = Alone(reply)
<1> USE DEF drone, takeoff, flags
<1>1. lander \in [Landers -> Lander]
  BY DEF TelloTypeOK
<1>2. {"begun", "holding", "seeking", "sent", "watching"} \subseteq LanderPoints
  BY DEF LanderPoints
<1>3. \A at \in LanderPoints : LanderGoes(l, at) => lander'[l].ok = lander[l].ok
  BY <1>1, LanderGoesTo
<1>4. LandEnds(l) \/ NextAttempt(l) => lander'[l].ok = None
  BY <1>1, LanderEnds
<1>5. BeginLand(l) \/ TryChannel(l) \/ SeekChannel(l) => lander'[l].ok \in {None, lander[l].ok}
  BY <1>2, <1>3, <1>4 DEF BeginLand, TryChannel, SeekChannel
<1>6. StopSeeking(l) \/ SendLand(l) => lander'[l].ok \in {None, lander[l].ok}
  BY <1>2, <1>3, <1>4 DEF StopSeeking, SendLand
<1>7. Watch(l) => lander'[l].ok \in {None, lander[l].ok}
  BY <1>1, <1>4, LanderRepeats DEF Watch
<1>8. ASSUME NEW reply \in Oks \cup {"error", None}, Answered(l, reply)
      PROVE  \/ lander'[l].ok \in {None, lander[l].ok}
             \/ LandTrusts(l, reply) /\ lander'[l].ok = Alone(reply)
  <2> DEFINE kept == IF Alone(reply) = None THEN lander[l].ok ELSE Alone(reply)
  <2>1. kept \in Oks \cup {None}
    BY <1>1 DEF Alone, Lander
  <2>2. \/ LandEnds(l) \/ NextAttempt(l)
        \/ lander' = [lander EXCEPT ![l].at = "watching", ![l].ok = kept]
    BY <1>8 DEF Answered
  <2>3. lander'[l].ok = None \/ lander'[l].ok = kept
    BY <1>1, <1>4, <2>1, <2>2, LanderKeeps
  <2>4. lander[l].at = "sent" /\ (reply = "takeoff_ok" => answer = "received")
    BY <1>8 DEF Answered
  <2>. QED
    BY <2>3, <2>4 DEF LandTrusts
<1>. QED
  BY <1>5, <1>6, <1>7, <1>8 DEF LandStep

\* So no land is confirmed, and none will be, by the takeoff's answer.
LEMMA ReplyStep ==
    ASSUME TelloTypeOK, FlierInv, GuardInv, ReplyInv, [Next]_vars PROVE ReplyInv'
<1>1. basis' # "takeoff_ok"
  <2> USE DEF flags, Misled, Upon, ReplyInv
  <2>1. ASSUME NEW l \in Landers, BeginLand(l) PROVE basis' # "takeoff_ok"
    BY <2>1 DEF BeginLand, MarkFlying
  <2>2. CASE Confirmed
    BY <2>2, ConfirmedUpon
  <2>3. CASE Marks
    BY <2>3 DEF Marks, Confirm
  <2>4. CASE PollClears \/ PollFlags \/ LandSettled \/ TakeoffDone \/ SendTakeoff \/ TakeoffOk
    BY <2>4 DEF PollClears, PollFlags, LandSettled, TakeoffDone, SendTakeoff, TakeoffOk
  <2>. QED
    BY <2>1, <2>2, <2>3, <2>4, FlagWrites DEF Begins, Sends
<1>2. ASSUME NEW k \in Landers
      PROVE  /\ lander'[k].at = "idle" => lander'[k] = NoLand
             /\ lander'[k].ok = "takeoff_ok" => Misled'
  <2>1. CASE UNCHANGED lander
    <3>1. lander[k].ok = "takeoff_ok" => ~SendTakeoff
      <4>1. SendTakeoff => lander[k] = NoLand
        BY DEF SendTakeoff, LandsInProgress, ReplyInv
      <4>2. NoLand.ok # "takeoff_ok"
        BY NoneIsNothing DEF NoLand, Oks
      <4>. QED
        BY <4>1, <4>2
    <3>. QED
      BY <2>1, <3>1, MisledStays DEF ReplyInv
  <2>2. ASSUME NEW l \in Landers, LandStep(l)
        PROVE  /\ lander'[k].at = "idle" => lander'[k] = NoLand
               /\ lander'[k].ok = "takeoff_ok" => Misled'
    <3>1. lander'[k].at = "idle" => lander'[k] = NoLand
      BY <2>2, LandStepPasses, LandPass DEF ReplyInv
    <3>2. ~SendTakeoff
      <4>1. UNCHANGED age /\ UNCHANGED answeredOk
        BY <2>2, LandStepPasses
      <4>2. SendTakeoff => UNCHANGED lander /\ ~LandsInProgress
        BY DEF SendTakeoff
      <4>3. ~UNCHANGED lander \/ lander[l].at # "idle"
        <5>1. CASE BeginLand(l)
          <6>1. lander'[l].at = "begun" /\ lander[l].at = "idle"
            BY <5>1, LanderGoesTo DEF BeginLand, TelloTypeOK, LanderPoints
          <6>. QED
            BY <6>1
        <5>. QED
          BY <2>2, <5>1, LandStepPasses
      <4>. QED
        BY <4>2, <4>3 DEF LandsInProgress
    <3>3. lander'[k].ok = "takeoff_ok" => Misled
      <4>1. CASE k # l
        BY <2>2, <4>1, LandStepPasses, LandPass DEF ReplyInv
      <4>2. CASE k = l
        <5>1. None # "takeoff_ok"
          BY NoneIsNothing DEF Oks
        <5>. QED
          BY <2>2, <4>2, <5>1, LandReplies, TrustedReply DEF ReplyInv
      <4>. QED
        BY <4>1, <4>2
    <3>. QED
      BY <3>1, <3>2, <3>3, MisledStays
  <2>. QED
    BY <2>1, <2>2, LanderWrites
<1>. QED
  BY <1>1, <1>2 DEF ReplyInv

\* Between its look at the state and its act a poll is overtaken or still right.
LEMMA PollStep ==
    ASSUME TelloTypeOK, FlierInv, GuardInv, PollInv, ConfirmedInv, [Next]_vars PROVE PollInv'
<1> USE DEF drone, takeoff, flags
<1>1. CASE PollBegins
  <2>1. poller' = [NoPoll EXCEPT !.at = "polling"] /\ channel = None /\ UNCHANGED flier
    BY <1>1 DEF PollBegins
  <2>2. poller'.at = "polling"
    BY <2>1 DEF NoPoll
  <2>3. flier.at \in {"idle", "called"}
    BY <2>1, NoneIsNothing DEF TelloTypeOK, Holders
  <2>. QED
    BY <2>1, <2>2, <2>3 DEF PollInv, Awaited, Accepted
<1>2. CASE PollEvaluates
  <2>1. UNCHANGED <<body, lift, answeredOk, landing, basis, flier>> /\ poller.at = "polling" /\ poller \in Poller
    BY <1>2 DEF PollEvaluates, TelloTypeOK
  <2>2. GroundSeen => Misled \/ ~UpOrLifting \/ Unlanded
    BY DEF GroundSeen, GuardInv, UpOrLifting, LiftGuard
  <2>3. ASSUME ~(unconfirmed /\ LiftGuard), ~FlightSeen, stream = "fresh"
        PROVE  Misled \/ ~UpOrLifting \/ Unlanded
    <3>1. body = "down"
      BY <2>3 DEF FlightSeen, TelloTypeOK
    <3>2. lift /\ ~Misled /\ ~Unlanded => FALSE
      BY <2>3, Guards DEF GuardInv, FlierInv, LiftGuard, ConfirmedInv
    <3>. QED
      BY <3>1, <3>2 DEF UpOrLifting
  <2>4. \/ GroundSeen /\ poller' = [poller EXCEPT !.at = "marking"]
        \/ /\ ~(unconfirmed /\ LiftGuard) /\ ~FlightSeen
           /\ poller' = [poller EXCEPT !.at = "clearing", !.blind = stream # "fresh" /\ ~poller.late]
        \/ poller' = NoPoll
    BY <1>2 DEF PollEvaluates, PollerGoes
  <2>5. CASE GroundSeen /\ poller' = [poller EXCEPT !.at = "marking"]
    <3>1. poller'.at = "marking" /\ poller'.late = poller.late
      BY <2>1, <2>5 DEF Poller
    <3>. QED
      BY <2>1, <2>2, <2>5, <3>1 DEF PollInv, Awaited, Accepted, Misled, UpOrLifting, Unlanded
  <2>6. CASE /\ ~(unconfirmed /\ LiftGuard) /\ ~FlightSeen
             /\ poller' = [poller EXCEPT !.at = "clearing", !.blind = stream # "fresh" /\ ~poller.late]
    <3>1. (stream # "fresh" /\ ~poller.late) \in BOOLEAN
      OBVIOUS
    <3>2. /\ poller'.at = "clearing" /\ poller'.late = poller.late
          /\ poller'.blind = (stream # "fresh" /\ ~poller.late)
      BY <2>1, <2>6, <3>1 DEF Poller
    <3>3. poller.late \in BOOLEAN
      BY <2>1 DEF Poller
    <3>. QED
      BY <2>1, <2>3, <2>6, <3>2, <3>3 DEF PollInv, Awaited, Accepted, Misled, UpOrLifting, Unlanded
  <2>7. CASE poller' = NoPoll
    BY <2>7 DEF PollInv, NoPoll
  <2>. QED
    BY <2>4, <2>5, <2>6, <2>7
<1>3. CASE PollMarks
  <2>1. poller' = NoPoll \/ (poller' = [poller EXCEPT !.at = "polling"] /\ poller.at = "marking" /\ poller \in Poller)
    BY <1>3 DEF PollMarks, PollerGoes, TelloTypeOK
  <2>2. UNCHANGED flier
    BY <1>3 DEF PollMarks
  <2>3. poller'.at \in {"idle", "polling"} /\ (poller'.at # "idle" => poller.at # "idle" /\ poller'.late = poller.late)
    BY <2>1 DEF NoPoll, Poller
  <2>. QED
    BY <2>2, <2>3 DEF PollInv, Awaited, Accepted
<1>4. CASE PollClears
  BY <1>4 DEF PollClears, NoPoll, PollInv
<1>5. CASE poller'.at = poller.at /\ (poller.at # "idle" => poller'.late)
  BY <1>5 DEF PollInv
<1>6. CASE UNCHANGED poller /\ poller.at # "idle" /\ ~poller.late /\ ~Begins /\ ~SendTakeoff
  <2>1. ~Awaited /\ ~Accepted
    BY <1>6 DEF PollInv
  <2>2. ~Awaited' /\ ~Accepted' /\ ~TakeoffOk
    BY <1>6, <2>1, FlierWrites
  <2>3. Misled => Misled'
    BY <1>6, MisledStays
  <2>4. ~UpOrLifting => ~UpOrLifting'
    BY <1>6, DownStays DEF UpOrLifting, TelloTypeOK
  <2>5. Unlanded => Unlanded'
    BY <1>6, <2>2, DroneWrites DEF DroneStep, Aging, Quiet, Unlanded
  <2>. QED
    BY <1>6, <2>2, <2>3, <2>4, <2>5 DEF PollInv
<1>7. CASE UNCHANGED poller /\ (poller.at = "idle" \/ poller.late)
  BY <1>7 DEF PollInv
<1>8. Begins \/ SendTakeoff => poller'.at = poller.at /\ (poller.at # "idle" => poller'.late)
  BY LandBegins, PollOvertaken DEF Begins, SendTakeoff, TelloTypeOK
<1>. QED
  BY <1>1, <1>2, <1>3, <1>4, <1>5, <1>6, <1>7, <1>8, PollerWrites

\* What the poller writes when it confirms a land or clears the mark.
LEMMA PollActs ==
    ASSUME TelloTypeOK, PollInv, Marks \/ PollClears
    PROVE  /\ ~flying' /\ UNCHANGED <<body, lift, landing, answeredOk>>
           /\ basis' = "misled" \/ basis' = "stale" \/ (basis' = "state" /\ (~UpOrLifting \/ Unlanded))
<1> USE DEF drone, takeoff, flags
<1>1. CASE Marks
  <2>1. poller.at = "marking" /\ UNCHANGED <<body, lift, landing, answeredOk>>
    BY <1>1 DEF Marks, PollMarks
  <2>2. poller.late \/ Misled \/ ~UpOrLifting \/ Unlanded
    BY <2>1 DEF PollInv
  <2>3. basis' = Upon(IF poller.late THEN "misled" ELSE "state") /\ ~flying'
    BY <1>1 DEF Marks, Confirm
  <2>. QED
    BY <2>1, <2>2, <2>3 DEF Upon, Misled
<1>2. CASE PollClears
  <2>1. poller.at = "clearing" /\ UNCHANGED <<body, lift, landing, answeredOk>> /\ ~flying'
    BY <1>2 DEF PollClears
  <2>2. poller.blind \/ poller.late \/ Misled \/ ~UpOrLifting \/ Unlanded
    BY <2>1 DEF PollInv
  <2>3. basis' = Upon(IF poller.late THEN "misled" ELSE IF poller.blind THEN "stale" ELSE "state")
    BY <1>2 DEF PollClears
  <2>. QED
    BY <2>1, <2>2, <2>3 DEF Upon, Misled
<1>. QED
  BY <1>1, <1>2

\* Whoever confirms a land, the drone no longer lifts.
LEMMA ConfirmedStep ==
    ASSUME TelloTypeOK, FlierInv, GuardInv, ReplyInv, PollInv, ConfirmedInv, [Next]_vars
    PROVE  ConfirmedInv'
<1> SUFFICES ASSUME landing', ~unconfirmed', ~Misled' PROVE ~lift' /\ (basis' = "state" => body' = "down")
  BY DEF ConfirmedInv
<1> USE DEF drone, takeoff, flags
<1>1. ~SendTakeoff /\ ~Begins /\ ~PollFlags
  BY BeginsGuard DEF SendTakeoff, PollFlags
<1>2. ~Misled
  BY <1>1, MisledStays
<1>3. CASE Confirmed
  BY <1>2, <1>3, ConfirmedUpon
<1>4. CASE Marks
  <2>1. UNCHANGED <<body, lift, landing>> /\ basis' # "misled"
    BY <1>4, PollActs DEF Misled
  <2>2. basis' = Upon(IF poller.late THEN "misled" ELSE "state")
    BY <1>4 DEF Marks, Confirm
  <2>3. basis' = "state"
    BY <1>2, <2>1, <2>2 DEF Upon, Misled
  <2>4. ~UpOrLifting
    BY <1>4, <2>1, <2>3, PollActs DEF Unlanded
  <2>. QED
    BY <2>1, <2>4 DEF UpOrLifting, TelloTypeOK
<1>5. CASE PollClears
  <2>1. landing /\ ~unconfirmed /\ UNCHANGED <<body, lift>>
    BY <1>5 DEF PollClears
  <2>. QED
    BY <1>2, <1>5, <2>1, PollActs DEF ConfirmedInv, UpOrLifting, Unlanded, TelloTypeOK
<1>9. CASE TakeoffDone
  BY <1>2, <1>9 DEF TakeoffDone, ConfirmedInv
<1>6. CASE LandSettled
  <2>1. landing /\ flier.at = "accepted" /\ UNCHANGED <<body, lift, basis>>
    BY <1>6 DEF LandSettled
  <2>2. flier.overtaken
    BY <2>1 DEF FlierInv, Accepted
  <2>3. ~unconfirmed
    BY <1>6, <2>2 DEF LandSettled
  <2>. QED
    BY <1>2, <2>1, <2>3 DEF ConfirmedInv
<1>7. CASE TakeoffOk
  <2>1. landing /\ ~unconfirmed /\ UNCHANGED <<body, lift>> /\ (UNCHANGED basis \/ basis' = "misled")
    BY <1>7 DEF TakeoffOk
  <2>. QED
    BY <1>2, <2>1 DEF ConfirmedInv, Misled
<1>8. CASE (Sends \/ UNCHANGED flags) /\ ~TakeoffOk
  <2>1. UNCHANGED <<unconfirmed, basis>>
    BY <1>8 DEF Sends
  <2>2. landing
    BY <1>1, <1>8, DroneWrites DEF DroneStep, Aging, Quiet
  <2>3. ~lift /\ (basis = "state" => body = "down")
    BY <1>2, <2>1, <2>2 DEF ConfirmedInv
  <2>. QED
    BY <1>1, <2>1, <2>3, DownStays
<1>. QED
  BY <1>1, <1>3, <1>4, <1>5, <1>6, <1>7, <1>8, <1>9, FlagWrites

\* The mark is cleared only where the drone is down for good, or for an excused reason.
LEMMA MarkedStep ==
    ASSUME TelloTypeOK, FlierInv, GuardInv, ReplyInv, PollInv, MarkedInv, [Next]_vars
    PROVE  MarkedInv'
<1> DEFINE Excused == {"ok", "stale", "expired", "misled"}
<1> SUFFICES ASSUME UpOrLifting', ~flying'
             PROVE  Accepted' \/ Unlanded' \/ basis' \in Excused
  BY DEF MarkedInv
<1> USE DEF drone, takeoff, flags
<1>1. CASE SendTakeoff
  BY <1>1 DEF SendTakeoff, Unlanded
<1>2. CASE TakeoffOk
  BY <1>2, FlierWrites
<1>3. ASSUME NEW l \in Landers, BeginLand(l) PROVE Accepted' \/ basis' \in Excused
  <2>1. flier'.at = flier.at /\ UNCHANGED <<body, lift, answeredOk>>
    BY <1>3, LandBegins
  <2>2. /\ UNCHANGED flying
        /\ basis' = IF ~flying /\ ~answeredOk THEN Upon("expired") ELSE basis
    BY <1>3 DEF BeginLand, MarkFlying
  <2>3. UpOrLifting /\ ~flying
    BY <2>1, <2>2 DEF UpOrLifting
  <2>4. Accepted \/ ~answeredOk \/ basis \in Excused
    BY <2>3 DEF MarkedInv, Unlanded
  <2>. QED
    BY <2>1, <2>2, <2>3, <2>4 DEF Upon, Accepted
<1>4. CASE Confirmed
  BY <1>4, ConfirmedUpon DEF UpOrLifting, Misled
<1>5. CASE Marks \/ PollClears
  BY <1>5, PollActs DEF UpOrLifting, Unlanded
<1>6. ~PollFlags /\ ~TakeoffDone
  BY DEF PollFlags, TakeoffDone
<1>7. CASE (Sends \/ LandSettled \/ UNCHANGED flags) /\ ~SendTakeoff /\ ~TakeoffOk /\ ~Begins
  <2>1. UNCHANGED <<flying, basis>>
    BY <1>7 DEF Sends, LandSettled
  <2>2. UpOrLifting
    BY <1>7, DroneWrites DEF DroneStep, Lifts, Aging, Quiet, UpOrLifting
  <2>3. UNCHANGED <<answeredOk, landing>>
    BY <1>7, DroneWrites DEF DroneStep, Aging, Quiet
  <2>4. Accepted => Accepted'
    BY <1>6, FlierWrites
  <2>. QED
    BY <2>1, <2>2, <2>3, <2>4 DEF MarkedInv, Unlanded
<1>. QED
  BY <1>1, <1>2, <1>3, <1>4, <1>5, <1>6, <1>7, FlagWrites DEF Begins

\* The parts of the invariant keep each other.
LEMMA InvHolds == Spec => []TelloInv
<1>1. Init => TelloInv
  <2> SUFFICES ASSUME Init PROVE TelloInv
    OBVIOUS
  <2>1. flier.at = "idle" /\ poller.at = "idle" /\ \A l \in Landers : lander[l] = NoLand
    BY DEF Init, NoPoll
  <2>2. NoLand.at = "idle" /\ NoLand.ok # "takeoff_ok"
    BY NoneIsNothing DEF NoLand, Oks
  <2>. QED
    BY <2>1, <2>2, InitTyped
    DEF Init, TelloInv, FlierInv, GuardInv, ReplyInv, PollInv, ConfirmedInv, MarkedInv, Awaited,
        Accepted, UpOrLifting
<1>2. TelloInv /\ [Next]_vars => TelloInv'
  BY TypeStep, FlierStepInv, GuardStep, ReplyStep, PollStep, ConfirmedStep, MarkedStep DEF TelloInv
<1>. QED
  BY <1>1, <1>2, PTL DEF Spec

\* A drone in the air is marked flying, so that someone will land it, unless its
\* takeoff is still undecided and nobody has landed since, or what cleared the mark
\* was no state of the drone.
THEOREM AirborneMarked == Spec => []AirborneIsMarked
<1>1. TelloInv => AirborneIsMarked
  BY DEF TelloInv, MarkedInv, AirborneIsMarked, UpOrLifting, Unlanded, Accepted
<1>. QED
  BY <1>1, InvHolds, PTL

\* A land that ends confirmed by state leaves the drone down and unable to lift, and
\* none is confirmed by the answer of the takeoff it interrupted: the guards that a
\* land sets outlive whatever that takeoff may still do.
THEOREM LandsReturnDown == Spec => LandReturnsDown
<1> DEFINE Ends(l) == lander[l] # NoLand /\ lander'[l] = NoLand /\ ~unconfirmed'
           Down == /\ basis' # "takeoff_ok"
                   /\ basis' = "state" => body = "down" /\ ~lift
<1>1. ASSUME TelloInv, [Next]_vars, NEW k \in Landers, Ends(k) PROVE Down
  <2>1. PICK l \in Landers : LandStep(l)
    BY <1>1, LanderWrites
  <2>2. /\ TelloTypeOK /\ FlierInv /\ GuardInv /\ ReplyInv /\ PollInv /\ ConfirmedInv
        /\ ReplyInv'
    BY <1>1, ReplyStep DEF TelloInv
  <2>3. landing
    BY <1>1, <2>2 DEF FlierInv, ReplyInv
  <2>4. ~Begins
    BY <1>1, <2>2, BeginsGuard
  <2>5. CASE LandConfirms(l)
    <3>1. Confirmed
      BY <2>1, <2>5 DEF Confirmed
    <3>. QED
      BY <1>1, <2>2, <3>1, ConfirmedUpon DEF Misled, ReplyInv
  <2>6. CASE UNCHANGED <<unconfirmed, basis>>
    BY <1>1, <2>2, <2>3, <2>6 DEF ConfirmedInv, Misled, ReplyInv
  <2>. QED
    BY <2>1, <2>2, <2>4, <2>5, <2>6, LandFlags DEF Begins, flags
<1>2. TelloInv /\ [Next]_vars => [\A l \in Landers : Ends(l) => Down]_vars
  BY <1>1
<1>. QED
  BY <1>2, InvHolds, PTL DEF Spec, LandReturnsDown
=============================================================================
