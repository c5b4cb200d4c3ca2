----------------------------- MODULE FbbForward -----------------------------
(***************************************************************************)
(* Forwarding of mail between two bulletin boards: the box that calls      *)
(* (BbsForwarder of packages/packet/src/fbb-scheduler.ts), the box that is *)
(* called (FbbGatedBbs of bbs-fbb-gate.ts), and the FBB dialogue between   *)
(* them (FbbSession of fbb-session.ts), uncompressed.  Each box works on a *)
(* snapshot of the mail its gateway has for the other, and after the       *)
(* session hands the gateway what it received and what it has sent.        *)
(*                                                                         *)
(* A line of the model is a block of proposals with its F>, an answer FS,  *)
(* a whole message body, FF or FQ.  The link delivers lines in order until *)
(* it breaks; what a box sends just before it hangs up may be lost, as     *)
(* ConnectedLink.disconnect() forgets what is not acknowledged.  This code *)
(* never defers a proposal; a called box of another make may.              *)
(***************************************************************************)
EXTENDS Naturals, Sequences, FiniteSets, SequencesExt, FiniteSetsExt

CONSTANTS Caller, Called,   \* the two boxes
          Mail,             \* Mail[b]: the messages b has for the other, a sequence
          MaxBlock,         \* MAX_BLOCK
          MaxBig,           \* bound: messages above the limit for a received body
          MaxLate,          \* bound: messages the called box always puts off
          MaxBreaks, MaxFails   \* bounds: links that break, gateway calls that fail

Box == {Caller, Called}
Other(b) == CHOOSE o \in Box : o # b
Msgs == UNION {ToSet(Mail[b]) : b \in Box}

ASSUME FbbAssumption ==
    /\ Caller # Called /\ MaxBlock \in Nat \ {0}
    /\ \A b \in Box : Mail[b] \in Seq(ToSet(Mail[b])) /\ ToSet(Mail[b]) \cap ToSet(Mail[Other(b)]) = {}

VARIABLES sess,       \* sess[b]: b's side of the session
          flush,      \* flush[b]: what b still has to tell its gateway about a session that ended
          chan,       \* chan[b]: lines on their way to b
          hung,       \* hung[b]: b has hung up
          stored,     \* stored[b]: messages in b's gateway that came from the other box
          log,        \* log[b]: messages b's gateway has on record as forwarded
          big,        \* the messages that are too big
          late,       \* the messages the called box puts off
          discarded,  \* history: discarded[b], messages b accepted and then threw away
          used

vars == <<sess, flush, chan, hung, stored, log, big, late, discarded, used>>
fixed == <<big, late>>

Bounds == [break |-> MaxBreaks, fail |-> MaxFails]
Use(e) == used[e] < Bounds[e] /\ used' = [used EXCEPT ![e] = @ + 1]

NoSession == [phase |-> "idle", queue |-> <<>>, held |-> {}, offered |-> <<>>, rx |-> <<>>, deferred |-> {},
              inbox |-> <<>>, sent |-> {}, out |-> <<>>]
NoFlush == [on |-> FALSE, inbox |-> <<>>, mark |-> {}, fq |-> FALSE]

Init ==
    /\ sess = [b \in Box |-> NoSession]
    /\ flush = [b \in Box |-> NoFlush]
    /\ chan = [b \in Box |-> <<>>]
    /\ hung = [b \in Box |-> FALSE]
    /\ stored = [b \in Box |-> {}]
    /\ log = [b \in Box |-> {}]
    /\ big \in {s \in SUBSET Msgs : Cardinality(s) <= MaxBig}
    /\ late \in {s \in SUBSET ToSet(Mail[Caller]) : Cardinality(s) <= MaxLate}
    /\ discarded = [b \in Box |-> {}]
    /\ used = [e \in DOMAIN Bounds |-> 0]
----------------------------------------------------------------------------
(* FbbSession: operators from a session before a line to the session after it. *)

\* The messages of seq that are not in gone, in order (a fold of its own, as the prover knows no law of SelectSeq).
Without(seq, gone) ==
    LET kept[n \in 0..Len(seq)] ==
            IF n = 0 THEN <<>> ELSE IF seq[n] \in gone THEN kept[n - 1] ELSE Append(kept[n - 1], seq[n])
    IN  kept[Len(seq)]

Accepted(ms, v) == Without(ms, {m \in ToSet(ms) : v[m] # "+"})

Line(k, ms) == [k |-> k, ms |-> ms]
Bodies(ms) == [i \in DOMAIN ms |-> Line("body", <<ms[i]>>)]
Say(c, lines) == [c EXCEPT !.out = @ \o lines]

\* proposeBlock(): what the partner deferred is not offered again in this session.
Offer(c) ==
    LET open == Without(c.queue, c.deferred)
    IN  SubSeq(open, 1, Min({MaxBlock, Len(open)}))

Propose(c) ==
    IF Offer(c) = <<>> THEN Say([c EXCEPT !.phase = "await-proposals"], <<Line("FF", <<>>)>>)
    ELSE Say([c EXCEPT !.phase = "await-fs", !.offered = Offer(c)], <<Line("FB", Offer(c))>>)

\* Mutant: a deferred message is offered again at once.
SendAcceptedForgetful(c, v) ==
    LET yes == Accepted(c.offered, v)
        gone == {m \in ToSet(c.offered) : v[m] # "="}
    IN  Say([c EXCEPT !.phase = "await-proposals", !.offered = <<>>,
                      !.queue = Without(@, gone), !.sent = @ \cup gone],
            Bodies(yes))

\* sendAccepted(): what is accepted is sent, what is accepted or refused leaves the queue.
SendAccepted(c, v) ==
    LET yes == Accepted(c.offered, v)
        gone == {m \in ToSet(c.offered) : v[m] # "="}
    IN  Say([c EXCEPT !.phase = "await-proposals", !.offered = <<>>,
                      !.queue = Without(@, gone), !.sent = @ \cup gone,
                      !.deferred = @ \cup (ToSet(c.offered) \ gone)],
            Bodies(yes))

Verdict(c, m) == CASE m \in c.held -> "-" [] m \in late \ c.held -> "=" [] OTHER -> "+"

\* Mutant: a box that takes nothing of a block leaves the turn to the other.
AnswerOnly(c, ms) ==
    LET v == [m \in ToSet(ms) |-> Verdict(c, m)]
        rx == Accepted(ms, v)
    IN  Say([c EXCEPT !.rx = rx, !.phase = IF rx = <<>> THEN "await-proposals" ELSE "recv-block"],
            <<[k |-> "FS", ms |-> ms, v |-> v]>>)

\* The answer to a block of proposals; who takes nothing of it is the next to propose.
Answer(c, ms) ==
    LET v == [m \in ToSet(ms) |-> Verdict(c, m)]
        rx == Accepted(ms, v)
        e == Say([c EXCEPT !.rx = rx, !.phase = "recv-block"], <<[k |-> "FS", ms |-> ms, v |-> v]>>)
    IN  IF rx = <<>> THEN Propose(e) ELSE e

\* A message body, in the order they were accepted; one that is too big ends the session.
Body(c, m) ==
    LET e == [c EXCEPT !.inbox = Append(@, m), !.held = @ \cup {m}, !.rx = Tail(@)]
    IN  CASE m \in big -> Say([c EXCEPT !.phase = "done"], <<Line("FQ", <<>>)>>)
          [] m \notin big /\ e.rx = <<>> -> Propose(e)
          [] OTHER -> e

\* The partner has nothing: our turn, or both are through.
OnFF(c) == IF Offer(c) # <<>> THEN Propose(c) ELSE Say([c EXCEPT !.phase = "done"], <<Line("FQ", <<>>)>>)

\* feed(), once the SIDs are exchanged.
Feed(c, l) ==
    CASE c.phase = "await-fs" /\ l.k = "FS" -> SendAccepted(c, l.v)
      [] c.phase = "await-proposals" /\ l.k = "FB" -> Answer(c, l.ms)
      [] c.phase = "await-proposals" /\ l.k = "FF" -> OnFF(c)
      [] c.phase = "await-proposals" /\ l.k = "FQ" -> [c EXCEPT !.phase = "done"]
      [] c.phase = "recv-block" /\ l.k = "body" -> Body(c, l.ms[1])
      [] OTHER -> c
----------------------------------------------------------------------------
(* The boxes. *)

Pool(b) == Without(Mail[b], log[b])
Snapshot(b) == [NoSession EXCEPT !.queue = Pool(b), !.held = ToSet(Pool(b))]
InSession(b) == sess[b].phase # "idle"

\* runSession() once the link is up.  The called box makes its snapshot when the caller's SID is there.
Start ==
    LET c == Propose(Snapshot(Caller)) IN
    /\ \A b \in Box : ~InSession(b)
    /\ ~flush[Caller].on
    /\ sess' = [b \in Box |-> IF b = Caller THEN [c EXCEPT !.out = <<>>] ELSE [NoSession EXCEPT !.phase = "await-sid"]]
    /\ chan' = [b \in Box |-> IF b = Called THEN <<Line("SID", <<>>)>> \o c.out ELSE <<>>]
    /\ hung' = [b \in Box |-> FALSE]
    /\ UNCHANGED <<flush, stored, log, fixed, discarded, used>>

\* b's session goes on as e, while the lines ch[b] are left for it.
Goes(b, e, ch) ==
    /\ sess' = [sess EXCEPT ![b] = [e EXCEPT !.out = <<>>]]
    /\ chan' = [ch EXCEPT ![Other(b)] = IF hung[b] \/ hung[Other(b)] THEN @ ELSE @ \o e.out]
    /\ UNCHANGED <<flush, hung, stored, log, fixed, discarded>>

\* b says something and hangs up: the last line may be lost.
SayAndHangUp(b, lines, ch) ==
    /\ hung' = [hung EXCEPT ![b] = TRUE]
    /\ \/ /\ chan' = [ch EXCEPT ![b] = <<>>, ![Other(b)] = IF hung[Other(b)] THEN @ ELSE @ \o lines]
          /\ UNCHANGED used
       \/ /\ lines # <<>> /\ chan' = [ch EXCEPT ![b] = <<>>]
          /\ Use("break")

\* b's session is over as e, cleanly as far as b can tell.
Ends(b, e, ch) ==
    /\ ~flush[b].on
    /\ flush' = [flush EXCEPT ![b] = [on |-> TRUE, inbox |-> e.inbox, mark |-> e.sent,
                                      fq |-> b = Called /\ e.out # <<>>]]
    /\ discarded' = [discarded EXCEPT ![b] = @ \cup ToSet(e.rx)]
    /\ IF b = Caller
       THEN SayAndHangUp(b, e.out, ch) /\ sess' = [sess EXCEPT ![b] = NoSession]
       ELSE /\ chan' = ch /\ sess' = [sess EXCEPT ![b] = [e EXCEPT !.out = <<>>, !.rx = <<>>]]
            /\ UNCHANGED <<hung, used>>
    /\ UNCHANGED <<stored, log, fixed>>

Recv(b) ==
    /\ chan[b] # <<>> /\ sess[b].phase \notin {"idle", "done"}
    /\ LET l == Head(chan[b])
           ch == [chan EXCEPT ![b] = Tail(@)]
           e == Feed(sess[b], l)
       IN  CASE l.k = "SID" -> Goes(b, [Snapshot(b) EXCEPT !.phase = "await-proposals"], ch) /\ UNCHANGED used
             [] l.k # "SID" /\ e.phase = "done" -> Ends(b, e, ch)
             [] OTHER -> Goes(b, e, ch) /\ UNCHANGED used

\* Mutant: a session that was broken off counts like one that ended.
DroppedClean(b) ==
    IF b = Caller
    THEN [NoFlush EXCEPT !.on = TRUE, !.inbox = sess[b].inbox, !.mark = sess[b].sent]
    ELSE [flush[b] EXCEPT !.fq = FALSE]

\* The link goes down under b's session: the caller keeps what it has received, the called box does not.
Dropped(b) ==
    IF b = Caller
    THEN [NoFlush EXCEPT !.on = TRUE, !.inbox = sess[b].inbox]
    ELSE [flush[b] EXCEPT !.fq = FALSE]
Thrown(b) == IF b = Called /\ sess[b].phase # "done" THEN ToSet(sess[b].inbox) ELSE {}

\* It ends with the other box's DISC, once what was sent before has arrived ...
LinkDown(b) ==
    /\ InSession(b) /\ hung[Other(b)] /\ ~hung[b]
    /\ chan[b] = <<>> \/ sess[b].phase = "done"
    /\ flush' = [flush EXCEPT ![b] = Dropped(b)]
    /\ discarded' = [discarded EXCEPT ![b] = @ \cup Thrown(b)]
    /\ sess' = [sess EXCEPT ![b] = NoSession]
    /\ chan' = [chan EXCEPT ![b] = <<>>]
    /\ UNCHANGED <<hung, stored, log, fixed, used>>

\* ... or it breaks, or the caller's session timeout ends it.
Break ==
    /\ \A b \in Box : InSession(b) /\ ~hung[b]
    /\ Use("break")
    /\ flush' = [b \in Box |-> Dropped(b)]
    /\ discarded' = [b \in Box |-> discarded[b] \cup Thrown(b)]
    /\ sess' = [b \in Box |-> NoSession]
    /\ chan' = [b \in Box |-> <<>>]
    /\ UNCHANGED <<hung, stored, log, fixed>>

\* inbound(): one message to the gateway, which knows it by its BID.  An error answer is not looked at.
Inbound(b) ==
    /\ flush[b].inbox # <<>>
    /\ LET m == Head(flush[b].inbox) IN
          \/ /\ stored' = [stored EXCEPT ![b] = @ \cup {m}]
             /\ UNCHANGED <<discarded, used>>
          \/ /\ Use("fail")
             /\ discarded' = [discarded EXCEPT ![b] = @ \cup {m}]
             /\ UNCHANGED stored
    /\ flush' = [flush EXCEPT ![b].inbox = Tail(@)]
    /\ UNCHANGED <<sess, chan, hung, log, fixed>>

\* The called box answers when it has told its gateway, and hangs up.
Replies(b) ==
    IF b = Called /\ sess[b].phase = "done" /\ ~hung[b]
    THEN /\ SayAndHangUp(b, IF flush[b].fq THEN <<Line("FQ", <<>>)>> ELSE <<>>, chan)
         /\ sess' = [sess EXCEPT ![b] = NoSession]
    ELSE UNCHANGED <<sess, chan, hung, used>>

MarkSent(b) ==
    /\ flush[b].on /\ flush[b].inbox = <<>>
    /\ log' = [log EXCEPT ![b] = @ \cup flush[b].mark]
    /\ flush' = [flush EXCEPT ![b] = NoFlush]
    /\ Replies(b)
    /\ UNCHANGED <<stored, fixed, discarded>>

\* A gateway call throws: nothing after it is told.
Throws(b) ==
    /\ flush[b].on /\ Use("fail")
    /\ flush' = [flush EXCEPT ![b].inbox = <<>>, ![b].mark = {}]
    /\ discarded' = [discarded EXCEPT ![b] = @ \cup ToSet(flush[b].inbox)]
    /\ UNCHANGED <<sess, chan, hung, stored, log, fixed>>

Next == Start \/ Break \/ \E b \in Box : Recv(b) \/ LinkDown(b) \/ Inbound(b) \/ MarkSent(b) \/ Throws(b)

Spec == Init /\ [][Next]_vars

\* The scheduler ticks, the link delivers or goes down, and gateway calls return: they have a timeout.
Fairness ==
    /\ WF_vars(Start)
    /\ \A b \in Box : WF_vars(Recv(b) \/ LinkDown(b)) /\ WF_vars(Inbound(b) \/ MarkSent(b))

FairSpec == Spec /\ Fairness
----------------------------------------------------------------------------
\* The type invariant: the queue of a session holds mail of its box, what it accepted is mail of the other.
TypeOK ==
    \A b \in Box :
        /\ ToSet(sess[b].queue) \cup sess[b].sent \cup log[b] \cup flush[b].mark \subseteq ToSet(Mail[b])
        /\ ToSet(sess[b].inbox) \cup ToSet(sess[b].rx) \cup stored[b] \subseteq ToSet(Mail[Other(b)])
        /\ Len(sess[b].offered) <= MaxBlock /\ IsInjective(sess[b].inbox)

(***************************************************************************)
(* A message on record as forwarded is in the other gateway, or on its way *)
(* into it (runSession(): "On a timeout or abnormal close mid-body the     *)
(* messages were NOT delivered — leave them queued").  The exceptions are  *)
(* messages the other box had taken and threw away itself: its link went   *)
(* down before the FQ was there, its gateway did not take them, or it      *)
(* ended the session over one that is too big, with an FQ like any other.  *)
(***************************************************************************)
MarkedIsStored ==
    \A b \in Box : \A m \in log[b] :
        LET o == Other(b) IN m \in stored[o] \cup ToSet(flush[o].inbox) \cup ToSet(sess[o].inbox) \cup discarded[o]

\* The dialogue never stops with each box waiting for the other to speak.
NobodyWaits ==
    (\A b \in Box : InSession(b) /\ chan[b] = <<>> /\ ~hung[b]) => flush[Called].on

\* A session ends, also with a partner that defers what it is offered.
SessionEnds == InSession(Caller) ~> ~InSession(Caller)

\* Mail that is not put off arrives in the end, or is thrown away by a box that let the other believe it
\* has it.
MailArrives ==
    \A b \in Box : \A m \in ToSet(Mail[b]) :
        m \notin late => <>(m \in stored[Other(b)] \/ (m \in log[b] /\ m \in discarded[Other(b)]))
=============================================================================
