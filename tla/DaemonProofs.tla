---------------------------- MODULE DaemonProofs ----------------------------
(***************************************************************************)
(* Theorems about Daemon.                                                  *)
(***************************************************************************)
EXTENDS Daemon, TLAPS

Open == {"reading", "acking", "answering", "refusing", "pump"}
Readers == Live \cup {"away", "backlog", "done"}

\* What is true of one client: f its frames, sn what it has seen, sub whether it
\* is a subscriber, fl whether its writer has failed, dr its dropped events, wm
\* the watermark, rd its reader, wr its wire, tl what it was told, ap whether its
\* request was applied, cl what it does.
Streams(f, sn, sub, fl, dr, wm, rd, wr) ==
    /\ Unbroken(f, sn)
    /\ sub => rd \in Open /\ wr # "subscribe"
    /\ sub /\ ~fl => Lead(f, sn) + dr = wm
    /\ ~sub /\ ~fl /\ rd \in Open \cup {"away", "backlog"} =>
        Lead(f, sn) = 0 /\ \A i \in 1 .. Len(f) : f[i].kind = "answer"

NoAnswer(f) == \A i \in 1 .. Len(f) : f[i].kind # "answer"

Answers(f, fl, rd, wr, tl, ap, cl) ==
    /\ fl => cl # "reading" /\ f = <<>>
    /\ rd \in {"away", "backlog", "done"} => f = <<>>
    /\ rd = "away" => wr = "none"
    /\ rd \in {"away", "backlog"} => ~ap
    /\ wr # "none" /\ rd \in Open \cup {"backlog"} => tl = "waiting" /\ ~ap
    /\ wr # "none" => NoAnswer(f) /\ rd \notin {"acking", "answering"}
    /\ rd \in {"acking", "answering"} => tl = "waiting" /\ NoAnswer(f)
    /\ rd = "acking" => ~ap
    /\ \A i, j \in 1 .. Len(f) : f[i].kind = "answer" /\ f[j].kind = "answer" => i = j
    /\ ~NoAnswer(f) => tl = "waiting"
    /\ \A i \in 1 .. Len(f) : f[i].kind = "refusal" => i = Len(f) /\ rd = "closing"
    /\ ap /\ cl = "reading" =>
        tl = "answer" \/ (tl = "waiting" /\ (~NoAnswer(f) \/ rd = "answering"))
    /\ tl = "refusal" => ~ap

StreamInv(c) ==
    Streams(Frames(c), seen[c], c \in subs, failed[c], dropped[c], watermark, reader[c], wire[c])
AnswerInv(c) ==
    Answers(Frames(c), failed[c], reader[c], wire[c], told[c], applied[c], client[c])

TypeOK ==
    /\ log \in Nat /\ watermark \in Nat /\ pumping \subseteq Threads
    /\ last \in [Threads -> Nat] /\ upto \in [Threads -> Nat]
    /\ subs \subseteq Clients /\ dropped \in [Clients -> Nat]
    /\ reader \in [Clients -> Readers]
    /\ out \in [Clients -> Seq(Frame)] /\ sending \in [Clients -> Frame \cup {Idle}]
    /\ failed \in [Clients -> BOOLEAN] /\ stopping \in BOOLEAN
    /\ daemon \in {"serving", "draining", "gone"}
    /\ client \in [Clients -> {"reading", "stalled", "left"}]
    /\ wire \in [Clients -> {"none", "write", "subscribe"}]
    /\ asked \in [Clients -> Nat] /\ applied \in [Clients -> BOOLEAN]
    /\ told \in [Clients -> {"nothing", "waiting", "answer", "refusal"}]
    /\ seen \in [Clients -> Nat]

PumpInv ==
    /\ watermark <= log
    /\ \A t \in pumping :
        /\ pumping = {t} /\ last[t] = watermark /\ watermark <= upto[t] /\ upto[t] <= log
        /\ t # Poller => reader[t] = "pump"

IInv == TypeOK /\ PumpInv /\ \A c \in Clients : StreamInv(c) /\ AnswerInv(c)

-----------------------------------------------------------------------------
(* Frames *)

\* Where frames lead is a rowid.
LEMMA LeadType ==
    ASSUME NEW f \in Seq(Frame), NEW from \in Nat
    PROVE  Lead(f, from) \in Nat
<1>1. CASE f = <<>>
    BY <1>1 DEF Lead
<1>2. CASE f # <<>>
    <2>1. Len(f) \in 1 .. Len(f)
        BY <1>2
    <2>2. f[Len(f)] \in Frame
        BY <2>1
    <2> QED
        BY <1>2, <2>2 DEF Lead, Frame
<1> QED
    BY <1>1, <1>2

\* A frame more, or several.
Longer(f, r) == Append(f, r)
Joined(f, g) == f \o g

\* What is queued together is queued one by one.
LEMMA OneByOne ==
    ASSUME NEW f \in Seq(Frame), NEW a \in Frame, NEW b \in Frame
    PROVE  /\ Joined(f, <<>>) = f
           /\ \A q : q = <<a>> => Joined(f, q) = Longer(f, a)
           /\ \A q : q = <<a, b>> => Joined(f, q) = Longer(Longer(f, a), b)
           /\ Longer(f, a) \in Seq(Frame)
<1>1. Joined(f, <<>>) = f
    BY DEF Joined
<1>2. Joined(f, <<a>>) = Longer(f, a)
    BY DEF Joined, Longer
<1>3. Longer(f, a) \in Seq(Frame)
    BY DEF Longer
<1>4. Joined(f, <<a, b>>) = Longer(Longer(f, a), b)
    BY DEF Joined, Longer
<1> QED
    BY <1>1, <1>2, <1>3, <1>4

\* A frame that accounts for what comes after the last one goes on from there.
LEMMA AppendFrame ==
    ASSUME NEW f \in Seq(Frame), NEW from \in Nat, NEW r \in Frame,
           Unbroken(f, from), r.at = r.count + Lead(f, from)
    PROVE  /\ Longer(f, r) \in Seq(Frame) /\ Len(Longer(f, r)) = Len(f) + 1
           /\ Longer(f, r)[Len(f) + 1] = r
           /\ \A i \in 1 .. Len(f) : Longer(f, r)[i] = f[i]
           /\ Unbroken(Longer(f, r), from)
           /\ Lead(Longer(f, r), from) = r.at
<1> DEFINE g == Append(f, r)
<1>1. g \in Seq(Frame) /\ Len(g) = Len(f) + 1 /\ g[Len(f) + 1] = r /\ Len(f) \in Nat
    OBVIOUS
<1>2. \A i \in 1 .. Len(f) : g[i] = f[i]
    OBVIOUS
<1>3. g # <<>>
    BY <1>1
<1>4. Lead(g, from) = r.at
    BY <1>1, <1>3 DEF Lead
<1>5. ASSUME NEW i \in 1 .. Len(g)
      PROVE  g[i].at = g[i].count + (IF i = 1 THEN from ELSE g[i - 1].at)
    <2>1. CASE i \in 1 .. Len(f)
        <3>1. g[i] = f[i] /\ (i # 1 => g[i - 1] = f[i - 1])
            BY <1>1, <1>2, <2>1
        <3> QED
            BY <2>1, <3>1 DEF Unbroken
    <2>2. CASE i = Len(f) + 1 /\ f = <<>>
        <3>1. i = 1 /\ g[i] = r
            BY <1>1, <2>2
        <3> QED
            BY <2>2, <3>1 DEF Lead
    <2>3. CASE i = Len(f) + 1 /\ f # <<>>
        <3>1. Len(f) \in 1 .. Len(f) /\ i # 1 /\ i - 1 = Len(f)
            BY <1>1, <2>3
        <3>2. g[i] = r /\ g[i - 1] = f[Len(f)]
            BY <1>1, <1>2, <2>3, <3>1
        <3> QED
            BY <2>3, <3>1, <3>2 DEF Lead
    <2> QED
        BY <1>1, <2>1, <2>2, <2>3
<1>6. Unbroken(g, from)
    BY <1>5 DEF Unbroken
<1> QED
    BY <1>1, <1>2, <1>4, <1>6 DEF Longer

\* What is left when the first frame has been seen.
LEMMA FirstFrame ==
    ASSUME NEW f \in Seq(Frame), NEW from \in Nat, f # <<>>, Unbroken(f, from)
    PROVE  /\ Tail(f) \in Seq(Frame) /\ Len(Tail(f)) = Len(f) - 1
           /\ f[1] \in Frame
           /\ \A i \in 1 .. Len(Tail(f)) : Tail(f)[i] = f[i + 1]
           /\ Unbroken(Tail(f), f[1].at)
           /\ Lead(Tail(f), f[1].at) = Lead(f, from)
<1> DEFINE g == Tail(f)
<1>1. g \in Seq(Frame) /\ Len(g) = Len(f) - 1 /\ Len(f) \in Nat \ {0}
    OBVIOUS
<1>2. \A i \in 1 .. Len(g) : g[i] = f[i + 1]
    OBVIOUS
<1>3. f[1] \in Frame
    BY <1>1
<1>4. ASSUME NEW i \in 1 .. Len(g)
      PROVE  g[i].at = g[i].count + (IF i = 1 THEN f[1].at ELSE g[i - 1].at)
    <2>1. i + 1 \in 1 .. Len(f) /\ i + 1 # 1 /\ (i + 1) - 1 = i
        BY <1>1
    <2>2. f[i + 1].at = f[i + 1].count + f[i].at
        BY <2>1 DEF Unbroken
    <2>3. g[i] = f[i + 1] /\ (i # 1 => g[i - 1] = f[i])
        BY <1>1, <1>2
    <2> QED
        BY <2>2, <2>3
<1>5. Unbroken(g, f[1].at)
    BY <1>4 DEF Unbroken
<1>6. Lead(g, f[1].at) = Lead(f, from)
    <2>1. CASE g = <<>>
        <3> HIDE DEF g
        <3>1. Len(g) = 0
            BY <2>1
        <3>2. Len(f) = 1 /\ f # <<>>
            BY <1>1, <3>1
        <3> QED
            BY <2>1, <3>2 DEF Lead
    <2>2. CASE g # <<>>
        <3>1. g[Len(g)] = f[Len(f)]
            BY <1>1, <1>2, <2>2
        <3> QED
            BY <2>2, <3>1 DEF Lead
    <2> QED
        BY <2>1, <2>2
<1> QED
    BY <1>1, <1>2, <1>3, <1>5, <1>6

\* Nothing queued leads nowhere.
LEMMA NoFrames ==
    ASSUME NEW from
    PROVE  <<>> \in Seq(Frame) /\ Unbroken(<<>>, from) /\ Lead(<<>>, from) = from
BY DEF Unbroken, Lead

\* The frames of a client: the one being written, and its queue.
Line(s, o) == (IF s = Idle THEN <<>> ELSE <<s>>) \o o

LEMMA LineOf ==
    ASSUME NEW s \in Frame \cup {Idle}, NEW o \in Seq(Frame)
    PROVE  /\ Line(s, o) \in Seq(Frame)
           /\ \A r \in Frame : Line(s, Longer(o, r)) = Longer(Line(s, o), r)
           /\ s # Idle => Line(s, o) # <<>> /\ Line(s, o)[1] = s /\ Line(Idle, o) = Tail(Line(s, o))
           /\ s = Idle /\ o # <<>> => Line(Head(o), Tail(o)) = Line(s, o)
           /\ Line(Idle, o) = o
<1>1. Idle \notin Frame
    BY DEF Idle, Frame
<1>2. Line(Idle, o) = o
    BY DEF Line
<1>3. s # Idle => s \in Frame
    OBVIOUS
<1>4. Line(s, o) \in Seq(Frame)
    <2>1. CASE s = Idle
        BY <2>1 DEF Line
    <2>2. CASE s # Idle
        BY <2>2, <1>3 DEF Line
    <2> QED
        BY <2>1, <2>2
<1>5. ASSUME NEW r \in Frame
      PROVE  Line(s, Longer(o, r)) = Longer(Line(s, o), r)
    <2>1. CASE s = Idle
        BY <2>1 DEF Line, Longer
    <2>2. CASE s # Idle
        BY <2>2, <1>3 DEF Line, Longer
    <2> QED
        BY <2>1, <2>2
<1>6. s # Idle => Line(s, o) # <<>> /\ Line(s, o)[1] = s /\ Line(Idle, o) = Tail(Line(s, o))
    BY <1>2, <1>3 DEF Line
<1>7. s = Idle /\ o # <<>> => Line(Head(o), Tail(o)) = Line(s, o)
    <2> SUFFICES ASSUME s = Idle, o # <<>> PROVE Line(Head(o), Tail(o)) = o
        BY <1>2
    <2>1. Head(o) \in Frame /\ Tail(o) \in Seq(Frame)
        OBVIOUS
    <2>2. Head(o) # Idle
        BY <1>1, <2>1
    <2> QED
        BY <2>1, <2>2 DEF Line
<1> QED
    BY <1>2, <1>4, <1>5, <1>6, <1>7

-----------------------------------------------------------------------------
(* What a step does to one client, over the values of its variables *)

\* A frame that is neither an answer nor a refusal joins an open connection's.
LEMMA StreamGrows ==
    ASSUME NEW f \in Seq(Frame), NEW r \in Frame, NEW fl, ~fl,
            r.kind \in {"event", "gap"},
           NEW sn \in Nat, r.at = r.count + Lead(f, sn), Unbroken(f, sn),
           NEW rd \in Open, NEW wr, NEW tl, NEW ap, NEW cl,
           Answers(f, fl, rd, wr, tl, ap, cl)
    PROVE  /\ Longer(f, r) \in Seq(Frame) /\ Unbroken(Longer(f, r), sn) /\ Lead(Longer(f, r), sn) = r.at
           /\ Answers(Longer(f, r), fl, rd, wr, tl, ap, cl)
<1> DEFINE g == Longer(f, r)
<1>1. /\ g \in Seq(Frame) /\ Len(g) = Len(f) + 1 /\ g[Len(f) + 1] = r
      /\ \A i \in 1 .. Len(f) : g[i] = f[i]
      /\ Unbroken(g, sn) /\ Lead(g, sn) = r.at
    BY AppendFrame
<1> HIDE DEF g
<1>2. Len(f) \in Nat /\ \A i \in 1 .. Len(g) : i \in 1 .. Len(f) \/ i = Len(f) + 1
    BY <1>1
<1>3. \A i \in 1 .. Len(g) : g[i].kind \in {"answer", "refusal"} => i \in 1 .. Len(f) /\ g[i] = f[i]
    BY <1>1, <1>2
<1>4. NoAnswer(g) <=> NoAnswer(f)
    BY <1>1, <1>2, <1>3 DEF NoAnswer
<1>5. \A i, j \in 1 .. Len(g) : g[i].kind = "answer" /\ g[j].kind = "answer" => i = j
    BY <1>3 DEF Answers
<1>6. \A i \in 1 .. Len(g) : g[i].kind # "refusal"
    BY <1>3 DEF Answers, Open
<1>7. Answers(g, fl, rd, wr, tl, ap, cl)
    BY <1>4, <1>5, <1>6 DEF Answers, Open
<1> QED
    BY <1>1, <1>7 DEF g

\* An answer is queued: the reader goes on to read, or to pump.
LEMMA AnswerQueued ==
    ASSUME NEW f \in Seq(Frame), NEW r \in Frame, NEW fl, ~fl,
            r.kind = "answer",
           NEW sn \in Nat, r.at = r.count + Lead(f, sn), Unbroken(f, sn),
           NEW rd \in {"acking", "answering"}, NEW wr, NEW tl, NEW ap, NEW cl,
           NEW to \in {"reading", "pump"},
           Answers(f, fl, rd, wr, tl, ap, cl)
    PROVE  /\ Longer(f, r) \in Seq(Frame) /\ Unbroken(Longer(f, r), sn) /\ Lead(Longer(f, r), sn) = r.at
           /\ Answers(Longer(f, r), fl, to, wr, tl, ap, cl)
<1> DEFINE g == Longer(f, r)
<1>1. /\ g \in Seq(Frame) /\ Len(g) = Len(f) + 1 /\ g[Len(f) + 1] = r
      /\ \A i \in 1 .. Len(f) : g[i] = f[i]
      /\ Unbroken(g, sn) /\ Lead(g, sn) = r.at
    BY AppendFrame
<1> HIDE DEF g
<1>2. Len(f) \in Nat /\ \A i \in 1 .. Len(g) : i \in 1 .. Len(f) \/ i = Len(f) + 1
    BY <1>1
<1>3. \A i \in 1 .. Len(f) : f[i].kind # "answer" /\ f[i].kind # "refusal"
    BY DEF Answers, NoAnswer
<1>4. \A i \in 1 .. Len(g) : g[i].kind = "answer" => i = Len(f) + 1
    BY <1>1, <1>2, <1>3
<1>5. \A i \in 1 .. Len(g) : g[i].kind # "refusal"
    BY <1>1, <1>2, <1>3
<1>6. ~NoAnswer(g)
    BY <1>1, <1>2 DEF NoAnswer
<1>7. wr = "none" /\ tl = "waiting"
    BY DEF Answers
<1>8. Answers(g, fl, to, wr, tl, ap, cl)
    BY <1>4, <1>5, <1>6, <1>7 DEF Answers, Open
<1> QED
    BY <1>1, <1>8 DEF g

\* A refusal is queued, and the connection closes.
LEMMA RefusalQueued ==
    ASSUME NEW f \in Seq(Frame), NEW r \in Frame, NEW fl, ~fl,
            r.kind = "refusal",
           NEW sn \in Nat, r.at = r.count + Lead(f, sn), Unbroken(f, sn),
           NEW wr, NEW tl, NEW ap, NEW cl,
           Answers(f, fl, "refusing", wr, tl, ap, cl)
    PROVE  /\ Longer(f, r) \in Seq(Frame) /\ Unbroken(Longer(f, r), sn) /\ Lead(Longer(f, r), sn) = r.at
           /\ Answers(Longer(f, r), fl, "closing", wr, tl, ap, cl)
<1> DEFINE g == Longer(f, r)
<1>1. /\ g \in Seq(Frame) /\ Len(g) = Len(f) + 1 /\ g[Len(f) + 1] = r
      /\ \A i \in 1 .. Len(f) : g[i] = f[i]
      /\ Unbroken(g, sn) /\ Lead(g, sn) = r.at
    BY AppendFrame
<1> HIDE DEF g
<1>2. Len(f) \in Nat /\ \A i \in 1 .. Len(g) : i \in 1 .. Len(f) \/ i = Len(f) + 1
    BY <1>1
<1>3. \A i \in 1 .. Len(f) : f[i].kind # "refusal"
    BY DEF Answers
<1>4. \A i \in 1 .. Len(g) : g[i].kind = "answer" => i \in 1 .. Len(f) /\ g[i] = f[i]
    BY <1>1, <1>2
<1>5. NoAnswer(g) <=> NoAnswer(f)
    BY <1>1, <1>2, <1>4 DEF NoAnswer
<1>6. \A i, j \in 1 .. Len(g) : g[i].kind = "answer" /\ g[j].kind = "answer" => i = j
    BY <1>4 DEF Answers
<1>7. \A i \in 1 .. Len(g) : g[i].kind = "refusal" => i = Len(g)
    BY <1>1, <1>2, <1>3
<1>8. Answers(g, fl, "closing", wr, tl, ap, cl)
    BY <1>5, <1>6, <1>7 DEF Answers, Open
<1> QED
    BY <1>1, <1>8 DEF g

\* The client takes the first frame.
LEMMA FrameTaken ==
    ASSUME NEW f \in Seq(Frame), f # <<>>, NEW sn \in Nat, Unbroken(f, sn),
           NEW fl \in BOOLEAN, NEW rd, NEW wr, NEW tl, NEW ap,
           NEW to, to = IF tl = "waiting" /\ f[1].kind \in {"answer", "refusal"} THEN f[1].kind ELSE tl,
           Answers(f, fl, rd, wr, tl, ap, "reading")
    PROVE  LET g == Tail(f)
           IN  /\ g \in Seq(Frame) /\ f[1] \in Frame
               /\ Unbroken(g, f[1].at) /\ Lead(g, f[1].at) = Lead(f, sn)
               /\ (\A i \in 1 .. Len(f) : f[i].kind = "answer") =>
                      \A i \in 1 .. Len(g) : g[i].kind = "answer"
               /\ Answers(g, fl, rd, wr, to, ap, "reading")
<1> DEFINE g == Tail(f)
<1>1. /\ g \in Seq(Frame) /\ Len(g) = Len(f) - 1 /\ f[1] \in Frame
      /\ \A i \in 1 .. Len(g) : g[i] = f[i + 1]
      /\ Unbroken(g, f[1].at) /\ Lead(g, f[1].at) = Lead(f, sn)
    BY FirstFrame
<1> HIDE DEF g
<1>2. Len(f) \in Nat \ {0} /\ \A i \in 1 .. Len(g) : i + 1 \in 1 .. Len(f)
    BY <1>1
<1>3. \A i \in 1 .. Len(g) : g[i] = f[i + 1] /\ i + 1 \in 1 .. Len(f) /\ i + 1 # 1
    BY <1>1, <1>2
<1>4. /\ NoAnswer(f) => NoAnswer(g)
      /\ f[1].kind # "answer" => (NoAnswer(g) <=> NoAnswer(f))
    <2>1. NoAnswer(f) => NoAnswer(g)
        BY <1>3 DEF NoAnswer
    <2>2. ASSUME f[1].kind # "answer", NoAnswer(g), NEW i \in 1 .. Len(f)
          PROVE  f[i].kind # "answer"
        <3>1. CASE i = 1
            BY <2>2, <3>1
        <3>2. CASE i # 1
            <4>1. i - 1 \in 1 .. Len(g) /\ (i - 1) + 1 = i
                BY <1>1, <1>2, <3>2
            <4> QED
                BY <1>1, <2>2, <4>1 DEF NoAnswer
        <3> QED
            BY <3>1, <3>2
    <2> QED
        BY <2>1, <2>2 DEF NoAnswer
<1>5. f[1].kind = "answer" => NoAnswer(g) /\ wr = "none" /\ rd \notin {"acking", "answering"} /\ tl = "waiting"
    <2> SUFFICES ASSUME f[1].kind = "answer"
                 PROVE  NoAnswer(g) /\ wr = "none" /\ rd \notin {"acking", "answering"} /\ tl = "waiting"
        OBVIOUS
    <2>1. 1 \in 1 .. Len(f)
        BY <1>2
    <2>2. ~NoAnswer(f)
        BY <2>1 DEF NoAnswer
    <2>3. wr = "none" /\ rd \notin {"acking", "answering"} /\ tl = "waiting"
        BY <2>2 DEF Answers
    <2>4. ASSUME NEW i \in 1 .. Len(g) PROVE g[i].kind # "answer"
        BY <1>3, <2>1 DEF Answers
    <2> QED
        BY <2>3, <2>4 DEF NoAnswer
<1>6. f[1].kind = "refusal" => Len(f) = 1 /\ rd = "closing"
    <2>1. 1 \in 1 .. Len(f)
        BY <1>2
    <2> QED
        BY <2>1 DEF Answers
<1>7. f[1].kind = "refusal" => NoAnswer(f) /\ rd = "closing"
    <2> SUFFICES ASSUME f[1].kind = "refusal" PROVE NoAnswer(f)
        BY <1>6
    <2>1. Len(f) = 1
        BY <1>6
    <2>2. \A i \in 1 .. 1 : i = 1
        OBVIOUS
    <2>3. \A i \in 1 .. Len(f) : i = 1
        BY <2>1, <2>2
    <2> QED
        BY <2>3 DEF NoAnswer
<1>8. \A i, j \in 1 .. Len(g) : g[i].kind = "answer" /\ g[j].kind = "answer" => i = j
    <2> SUFFICES ASSUME NEW i \in 1 .. Len(g), NEW j \in 1 .. Len(g),
                        g[i].kind = "answer", g[j].kind = "answer"
                 PROVE  i = j
        OBVIOUS
    <2>1. i + 1 = j + 1
        BY <1>3 DEF Answers
    <2> QED
        BY <2>1
<1>9. \A i \in 1 .. Len(g) : g[i].kind = "refusal" => i = Len(g) /\ rd = "closing"
    <2> SUFFICES ASSUME NEW i \in 1 .. Len(g), g[i].kind = "refusal"
                 PROVE  i = Len(g) /\ rd = "closing"
        OBVIOUS
    <2>1. i + 1 = Len(f) /\ rd = "closing"
        BY <1>3 DEF Answers
    <2> QED
        BY <2>1, <1>1
<1>10. fl = FALSE /\ rd \notin {"away", "backlog", "done"} /\ (tl = "refusal" => ~ap)
    <2>1. ~fl
        BY DEF Answers
    <2>2. rd \notin {"away", "backlog", "done"}
        BY DEF Answers
    <2>3. tl = "refusal" => ~ap
        BY DEF Answers
    <2> QED
        BY <2>1, <2>2, <2>3
<1>11. wr # "none" => NoAnswer(g) /\ rd \notin {"acking", "answering"} /\ f[1].kind # "answer"
    BY <1>4, <1>5 DEF Answers
<1>12. rd \in {"acking", "answering"} => tl = "waiting" /\ NoAnswer(g) /\ to = tl
    BY <1>4, <1>5, <1>6 DEF Answers
<1>13. wr # "none" /\ rd \in Open \cup {"backlog"} => to = "waiting" /\ ~ap
    BY <1>6, <1>11 DEF Answers, Open
<1>14. ~NoAnswer(g) => to = "waiting"
    <2> SUFFICES ASSUME ~NoAnswer(g) PROVE to = "waiting"
        OBVIOUS
    <2>1. ~NoAnswer(f) /\ f[1].kind # "answer" /\ f[1].kind # "refusal"
        BY <1>4, <1>5, <1>7
    <2> QED
        BY <2>1 DEF Answers
<1>15. ap => to = "answer" \/ (to = "waiting" /\ (~NoAnswer(g) \/ rd = "answering"))
    <2> SUFFICES ASSUME ap PROVE to = "answer" \/ (to = "waiting" /\ (~NoAnswer(g) \/ rd = "answering"))
        OBVIOUS
    <2>1. tl = "answer" \/ (tl = "waiting" /\ (~NoAnswer(f) \/ rd = "answering"))
        BY DEF Answers
    <2>2. CASE f[1].kind = "answer"
        BY <2>2, <1>5
    <2>3. CASE f[1].kind = "refusal"
        BY <2>1, <2>3, <1>7
    <2>4. CASE f[1].kind \notin {"answer", "refusal"}
        BY <2>1, <2>4, <1>4
    <2> QED
        BY <2>2, <2>3, <2>4
<1>16. to = "refusal" => ~ap
    <2> SUFFICES ASSUME to = "refusal" PROVE ~ap
        OBVIOUS
    <2>1. tl = "refusal" \/ (tl = "waiting" /\ f[1].kind = "refusal")
        OBVIOUS
    <2> QED
        BY <2>1, <1>7, <1>10 DEF Answers
<1>17. Answers(g, fl, rd, wr, to, ap, "reading")
    BY <1>8, <1>9, <1>10, <1>11, <1>12, <1>13, <1>14, <1>15, <1>16 DEF Answers
<1>18. (\A i \in 1 .. Len(f) : f[i].kind = "answer") => \A i \in 1 .. Len(g) : g[i].kind = "answer"
    BY <1>3
<1> QED
    BY <1>1, <1>17, <1>18 DEF g

-----------------------------------------------------------------------------
(* Every step, at one client *)

LEMMA FramesType ==
    ASSUME TypeOK, NEW c \in Clients
    PROVE  Frames(c) = Line(sending[c], out[c]) /\ Frames(c) \in Seq(Frame)
<1>1. sending[c] \in Frame \cup {Idle} /\ out[c] \in Seq(Frame)
    BY DEF TypeOK
<1>2. Frames(c) = Line(sending[c], out[c])
    BY DEF Frames, Line
<1> QED
    BY <1>1, <1>2, LineOf

\* A client none of whose variables a step touches.
LEMMA Untouched ==
    ASSUME NEW c \in Clients, StreamInv(c), AnswerInv(c),
           out'[c] = out[c], sending'[c] = sending[c], seen'[c] = seen[c],
           c \in subs' <=> c \in subs, failed'[c] = failed[c], dropped'[c] = dropped[c],
           c \in subs => watermark' = watermark, reader'[c] = reader[c], wire'[c] = wire[c],
           told'[c] = told[c], applied'[c] = applied[c], client'[c] = client[c]
    PROVE  StreamInv(c)' /\ AnswerInv(c)'
<1>1. Frames(c)' = Frames(c)
    BY DEF Frames
<1>2. StreamInv(c)'
    BY <1>1 DEF StreamInv, Streams
<1>3. AnswerInv(c)'
    BY <1>1 DEF AnswerInv, Answers
<1> QED
    BY <1>2, <1>3

\* What flush_gaps does to a client that the loop does nothing else to.
LEMMA Flushed ==
    ASSUME IInv, FlushGaps, NEW c \in Clients,
           sending' = sending, seen' = seen, failed' = failed, watermark' = watermark,
           reader'[c] = reader[c], wire' = wire, told'[c] = told[c], applied' = applied, client' = client
    PROVE  StreamInv(c)' /\ AnswerInv(c)'
<1> DEFINE gap == [kind |-> "gap", count |-> dropped[c], at |-> watermark]
<1>1. StreamInv(c) /\ AnswerInv(c)
    BY DEF IInv
<1>2. /\ out[c] \in Seq(Frame) /\ sending[c] \in Frame \cup {Idle} /\ seen[c] \in Nat
      /\ watermark \in Nat /\ dropped[c] \in Nat /\ failed[c] \in BOOLEAN
    BY DEF IInv, TypeOK
<1>3. /\ c \in subs' <=> c \in subs /\ (dropped[c] > 0 => ~failed[c])
      /\ out'[c] = IF c \in subs' /\ Flushable(c) THEN Longer(out[c], gap) ELSE out[c]
      /\ dropped'[c] = IF c \in subs' /\ Flushable(c) THEN 0 ELSE dropped[c]
    BY DEF FlushGaps, Longer
<1>4. CASE c \in subs' /\ Flushable(c)
    <2>1. c \in subs /\ ~failed[c] /\ dropped[c] > 0 /\ c \in subs'
        BY <1>3, <1>4 DEF Flushable
    <2>2. gap \in Frame
        BY <1>2 DEF Frame
    <2>3. Frames(c) \in Seq(Frame) /\ Frames(c)' = Longer(Frames(c), gap)
        <3>1. out'[c] = Longer(out[c], gap)
            BY <1>3, <1>4
        <3>2. Frames(c)' = Line(sending[c], Longer(out[c], gap))
            BY <3>1 DEF Frames, Line
        <3>3. Frames(c) \in Seq(Frame) /\ Frames(c) = Line(sending[c], out[c])
            BY FramesType DEF IInv
        <3> HIDE DEF gap
        <3> QED
            BY <1>2, <2>2, <3>2, <3>3, LineOf
    <2>4. Unbroken(Frames(c), seen[c]) /\ watermark = dropped[c] + Lead(Frames(c), seen[c])
        <3>1. Lead(Frames(c), seen[c]) \in Nat
            BY <1>2, <2>3, LeadType
        <3> QED
            BY <1>1, <1>2, <2>1, <3>1 DEF StreamInv, Streams
    <2>5. reader[c] \in Open /\ wire[c] # "subscribe"
        BY <1>1, <2>1 DEF StreamInv, Streams
    <2>6. Answers(Frames(c), failed[c], reader[c], wire[c], told[c], applied[c], client[c])
        BY <1>1 DEF AnswerInv
    <2> HIDE DEF gap
    <2>7. gap.kind = "gap" /\ gap.count = dropped[c] /\ gap.at = watermark
        BY DEF gap
    <2>8. /\ Unbroken(Frames(c)', seen[c]) /\ Lead(Frames(c)', seen[c]) = watermark
          /\ Answers(Frames(c)', failed[c], reader[c], wire[c], told[c], applied[c], client[c])
        BY <1>2, <2>1, <2>2, <2>3, <2>4, <2>5, <2>6, <2>7, StreamGrows
    <2>9. dropped'[c] = 0
        BY <1>3, <1>4
    <2>10. StreamInv(c)'
        BY <1>2, <2>1, <2>5, <2>8, <2>9 DEF StreamInv, Streams
    <2>11. AnswerInv(c)'
        BY <2>8 DEF AnswerInv
    <2> QED
        BY <2>10, <2>11
<1>5. CASE ~(c \in subs' /\ Flushable(c))
    <2>1. out'[c] = out[c] /\ dropped'[c] = dropped[c]
        BY <1>3, <1>5
    <2>2. CASE c \in subs' <=> c \in subs
        BY <1>1, <2>1, <2>2, Untouched
    <2>3. CASE c \in subs /\ c \notin subs' /\ failed[c]
        <3>1. Frames(c)' = Frames(c)
            BY <2>1 DEF Frames
        <3>2. StreamInv(c)'
            BY <1>1, <2>3, <3>1 DEF StreamInv, Streams
        <3>3. AnswerInv(c)'
            BY <1>1, <3>1 DEF AnswerInv
        <3> QED
            BY <3>2, <3>3
    <2> QED
        BY <1>2, <1>3, <2>2, <2>3
<1> QED
    BY <1>4, <1>5

\* What a broadcast of the next event does to a client.
LEMMA Broadcasted ==
    ASSUME IInv, Broadcast(watermark + 1), NEW c \in Clients, watermark' = watermark + 1,
           sending' = sending, seen' = seen, failed' = failed,
           reader' = reader, wire' = wire, told' = told, applied' = applied, client' = client
    PROVE  StreamInv(c)' /\ AnswerInv(c)'
<1> DEFINE gap == [kind |-> "gap", count |-> dropped[c], at |-> watermark]
           event == [kind |-> "event", count |-> 1, at |-> watermark + 1]
<1>1. StreamInv(c) /\ AnswerInv(c)
    BY DEF IInv
<1>2. /\ out[c] \in Seq(Frame) /\ sending[c] \in Frame \cup {Idle} /\ seen[c] \in Nat
      /\ watermark \in Nat /\ dropped[c] \in Nat /\ failed[c] \in BOOLEAN /\ Cap \in Nat
    BY DaemonAssumption DEF IInv, TypeOK
<1>3. /\ c \in subs' <=> c \in subs /\ ~failed[c]
      /\ out'[c] = IF c \in subs' THEN Joined(out[c], Queued(c, watermark + 1)) ELSE out[c]
      /\ dropped'[c] = IF c \in subs' THEN Dropped(c) ELSE dropped[c]
    BY DEF Broadcast, Joined
<1>4. CASE c \in subs'
    <2>1. c \in subs /\ ~failed[c]
        BY <1>3, <1>4
    <2>2. gap \in Frame /\ event \in Frame
        BY <1>2 DEF Frame
    <2>3. /\ gap.kind = "gap" /\ gap.count = dropped[c] /\ gap.at = watermark
          /\ event.kind = "event" /\ event.count = 1 /\ event.at = watermark + 1
        OBVIOUS
    <2>4. Queued(c, watermark + 1) =
            IF ~Room(c) THEN <<>>
            ELSE IF dropped[c] = 0 THEN <<event>>
            ELSE IF Len(out[c]) + 1 < Cap THEN <<gap, event>> ELSE <<gap>>
        <3>1. (watermark + 1) - 1 = watermark
            BY <1>2
        <3> QED
            BY <3>1 DEF Queued
    <2>5. out'[c] = Joined(out[c], Queued(c, watermark + 1)) /\ dropped'[c] = Dropped(c)
        BY <1>3, <1>4
    <2> HIDE DEF gap, event
    <2>6. /\ Frames(c) \in Seq(Frame) /\ Unbroken(Frames(c), seen[c])
          /\ Lead(Frames(c), seen[c]) \in Nat
          /\ Lead(Frames(c), seen[c]) + dropped[c] = watermark
        <3>1. Frames(c) \in Seq(Frame)
            BY FramesType DEF IInv
        <3>2. Lead(Frames(c), seen[c]) \in Nat
            BY <1>2, <3>1, LeadType
        <3> QED
            BY <1>1, <2>1, <3>1, <3>2 DEF StreamInv, Streams
    <2>7. reader[c] \in Open /\ wire[c] # "subscribe"
        BY <1>1, <2>1 DEF StreamInv, Streams
    <2> DEFINE Fit(f) == Answers(f, failed[c], reader[c], wire[c], told[c], applied[c], client[c])
    <2>8. Fit(Frames(c))
        BY <1>1 DEF AnswerInv
    <2>9. SUFFICES /\ Unbroken(Frames(c)', seen[c]) /\ Fit(Frames(c)')
                   /\ Lead(Frames(c)', seen[c]) + dropped'[c] = watermark + 1
        <3>1. StreamInv(c)'
            BY <1>4, <2>1, <2>7, <2>9 DEF StreamInv, Streams
        <3>2. AnswerInv(c)'
            BY <2>9 DEF AnswerInv
        <3> QED
            BY <3>1, <3>2
    <2>10. \A o \in Seq(Frame), r \in Frame : Line(sending[c], Longer(o, r)) = Longer(Line(sending[c], o), r)
        BY <1>2, LineOf
    <2>11. Frames(c) = Line(sending[c], out[c]) /\ Frames(c)' = Line(sending[c], out'[c])
        BY DEF Frames, Line
    <2> HIDE DEF Fit
    <2>12. CASE ~Room(c)
        <3>1. out'[c] = out[c] /\ dropped'[c] = dropped[c] + 1
            <4>1. Queued(c, watermark + 1) = <<>>
                BY <2>4, <2>12
            <4>2. out'[c] = out[c]
                BY <1>2, <2>2, <2>5, <4>1, OneByOne
            <4>3. dropped'[c] = dropped[c] + 1
                BY <2>5, <2>12 DEF Dropped
            <4> QED
                BY <4>2, <4>3
        <3>2. Frames(c)' = Frames(c)
            BY <2>11, <3>1
        <3>3. Unbroken(Frames(c)', seen[c]) /\ Fit(Frames(c)')
            BY <2>6, <2>8, <3>2
        <3>4. Lead(Frames(c)', seen[c]) = Lead(Frames(c), seen[c])
            BY <3>2
        <3>5. dropped[c] \in Nat /\ watermark \in Nat
            BY <1>2, <2>1 DEF IInv, TypeOK
        <3>6. Lead(Frames(c)', seen[c]) + dropped'[c] = watermark + 1
            BY <2>6, <3>1, <3>4, <3>5
        <3> QED
            BY <3>3, <3>6
    <2>13. CASE Room(c) /\ dropped[c] = 0
        <3>1. out'[c] = Longer(out[c], event) /\ dropped'[c] = 0
            <4>1. Queued(c, watermark + 1) = <<event>>
                BY <2>4, <2>13
            <4>2. out'[c] = Longer(out[c], event)
                BY <1>2, <2>2, <2>5, <4>1, OneByOne
            <4>3. dropped'[c] = 0
                BY <1>2, <2>5, <2>13 DEF Dropped
            <4> QED
                BY <4>2, <4>3
        <3>2. Frames(c)' = Longer(Frames(c), event)
            BY <1>2, <2>2, <2>10, <2>11, <3>1
        <3>3. event.at = event.count + Lead(Frames(c), seen[c])
            BY <1>2, <2>3, <2>6, <2>13
        <3>4. Unbroken(Frames(c)', seen[c]) /\ Lead(Frames(c)', seen[c]) = watermark + 1 /\ Fit(Frames(c)')
            BY <1>2, <2>2, <2>3, <2>6, <2>7, <2>8, <2>1, <3>2, <3>3, StreamGrows DEF Fit
        <3> QED
            BY <1>2, <3>1, <3>4
    <2>14. CASE Room(c) /\ dropped[c] # 0
        <3> DEFINE g == Longer(Frames(c), gap)
        <3>1. gap.at = gap.count + Lead(Frames(c), seen[c])
            BY <1>2, <2>3, <2>6
        <3>2. /\ g \in Seq(Frame) /\ Unbroken(g, seen[c]) /\ Lead(g, seen[c]) = watermark /\ Fit(g)
            BY <1>2, <2>2, <2>3, <2>6, <2>7, <2>8, <2>1, <3>1, StreamGrows DEF Fit
        <3>3. CASE Len(out[c]) + 1 < Cap
            <4>1. out'[c] = Longer(Longer(out[c], gap), event) /\ dropped'[c] = 0
                <5>1. Queued(c, watermark + 1) = <<gap, event>>
                    BY <2>4, <2>14, <3>3
                <5>2. out'[c] = Longer(Longer(out[c], gap), event)
                    BY <1>2, <2>2, <2>5, <5>1, OneByOne
                <5>3. Len(out[c]) \in Nat
                    BY <1>2
                <5>4. dropped'[c] = 0
                    BY <1>2, <2>5, <2>14, <3>3, <5>3 DEF Dropped
                <5> QED
                    BY <5>2, <5>4
            <4>2. Longer(out[c], gap) \in Seq(Frame)
                BY <1>2, <2>2, OneByOne
            <4>3. Frames(c)' = Longer(g, event)
                BY <1>2, <2>2, <2>10, <2>11, <4>1, <4>2
            <4>4. event.at = event.count + Lead(g, seen[c])
                BY <1>2, <2>3, <3>2
            <4> HIDE DEF g
            <4>5. Unbroken(Frames(c)', seen[c]) /\ Lead(Frames(c)', seen[c]) = watermark + 1 /\ Fit(Frames(c)')
                BY <1>2, <2>2, <2>3, <2>7, <2>1, <3>2, <4>3, <4>4, StreamGrows DEF Fit
            <4> QED
                BY <1>2, <4>1, <4>5
        <3>4. CASE ~(Len(out[c]) + 1 < Cap)
            <4>1. out'[c] = Longer(out[c], gap)
                <5>1. Queued(c, watermark + 1) = <<gap>>
                    BY <2>4, <2>14, <3>4
                <5> QED
                    BY <1>2, <2>2, <2>5, <5>1, OneByOne
            <4>2. dropped'[c] = 1
                <5>1. Len(out[c]) \in Nat
                    BY <1>2
                <5> QED
                    BY <1>2, <2>5, <2>14, <3>4, <5>1 DEF Dropped
            <4>3. Frames(c)' = g
                BY <1>2, <2>2, <2>10, <2>11, <4>1
            <4> QED
                BY <1>2, <3>2, <4>2, <4>3
        <3> QED
            BY <3>3, <3>4
    <2> QED
        BY <2>12, <2>13, <2>14
<1>5. CASE c \notin subs'
    <2>1. out'[c] = out[c] /\ dropped'[c] = dropped[c]
        BY <1>3, <1>5
    <2>2. Frames(c)' = Frames(c)
        BY <2>1 DEF Frames
    <2>3. c \notin subs \/ failed[c]
        BY <1>3, <1>5
    <2>4. StreamInv(c)'
        BY <1>1, <1>5, <2>2, <2>3 DEF StreamInv, Streams
    <2>5. AnswerInv(c)'
        BY <1>1, <2>2 DEF AnswerInv
    <2> QED
        BY <2>4, <2>5
<1> QED
    BY <1>4, <1>5

\* A reader that ends.
LEMMA EndsHere ==
    ASSUME IInv, NEW c \in Clients, reader[c] \in Open, Ends(c), wire' = wire, out' = out,
           sending' = sending, seen' = seen, failed' = failed, dropped' = dropped,
           watermark' = watermark, told' = told, applied' = applied, client' = client,
           reader[c] \notin {"acking", "answering"} \/ failed[c],
           NEW d \in Clients
    PROVE  StreamInv(d)' /\ AnswerInv(d)'
<1>1. StreamInv(d) /\ AnswerInv(d)
    BY DEF IInv
<1>2. reader' = [reader EXCEPT ![c] = "closing"] /\ subs' = subs \ {c}
    BY DEF Ends
<1>3. CASE d # c
    <2>1. reader'[d] = reader[d] /\ (d \in subs' <=> d \in subs)
        BY <1>2, <1>3 DEF IInv, TypeOK
    <2> QED
        BY <1>1, <2>1, Untouched
<1>4. CASE d = c
    <2>1. reader'[c] = "closing" /\ c \notin subs'
        BY <1>2 DEF IInv, TypeOK
    <2>2. Frames(c)' = Frames(c)
        BY DEF Frames
    <2>3. StreamInv(c)'
        BY <1>1, <1>4, <2>1, <2>2 DEF StreamInv, Streams, Open
    <2>4. AnswerInv(c)'
        BY <1>1, <1>4, <2>1, <2>2 DEF AnswerInv, Answers, Open
    <2> QED
        BY <1>4, <2>3, <2>4
<1> QED
    BY <1>3, <1>4

LEMMA ConnectSafe ==
    ASSUME IInv, NEW c \in Clients, Connect(c), NEW d \in Clients
    PROVE  StreamInv(d)' /\ AnswerInv(d)'
<1>1. StreamInv(d) /\ AnswerInv(d)
    BY DEF IInv
<1>2. CASE d # c
    <2>1. reader'[d] = reader[d]
        BY <1>2 DEF IInv, TypeOK, Connect
    <2> QED
        BY <1>1, <2>1, Untouched DEF Connect, pumpVars, hubVars, clientVars
<1>3. CASE d = c
    <2>1. reader[c] = "away" /\ reader'[c] = "backlog"
        BY DEF IInv, TypeOK, Connect
    <2>2. Frames(c)' = Frames(c)
        BY DEF Frames, Connect
    <2>3. StreamInv(c)'
        BY <1>1, <1>3, <2>1, <2>2 DEF StreamInv, Streams, Open, Connect, pumpVars, hubVars, clientVars
    <2>4. AnswerInv(c)'
        BY <1>1, <1>3, <2>1, <2>2 DEF AnswerInv, Answers, Open, Connect, clientVars
    <2> QED
        BY <1>3, <2>3, <2>4
<1> QED
    BY <1>2, <1>3

LEMMA AskSafe ==
    ASSUME IInv, NEW c \in Clients, NEW what \in {"write", "subscribe"}, Ask(c, what), NEW d \in Clients
    PROVE  StreamInv(d)' /\ AnswerInv(d)'
<1>1. StreamInv(d) /\ AnswerInv(d)
    BY DEF IInv
<1>2. CASE d # c
    <2>1. wire'[d] = wire[d] /\ told'[d] = told[d] /\ applied'[d] = applied[d]
        BY <1>2 DEF IInv, TypeOK, Ask
    <2> QED
        BY <1>1, <2>1, Untouched DEF Ask, pumpVars, hubVars
<1>3. CASE d = c
    <2>1. /\ wire[c] = "none" /\ wire'[c] = what /\ told[c] # "waiting" /\ told'[c] = "waiting"
          /\ applied'[c] = FALSE /\ reader[c] # "away" /\ (what = "subscribe" => c \notin subs)
        BY DEF IInv, TypeOK, Ask
    <2>2. Frames(c)' = Frames(c)
        BY DEF Frames, Ask
    <2>3. StreamInv(c)'
        BY <1>1, <1>3, <2>1, <2>2 DEF StreamInv, Streams, Ask, pumpVars, hubVars
    <2>4. NoAnswer(Frames(c)) /\ reader[c] \notin {"acking", "answering"}
        BY <1>1, <1>3, <2>1 DEF AnswerInv, Answers
    <2>5. AnswerInv(c)'
        BY <1>1, <1>3, <2>1, <2>2, <2>4 DEF AnswerInv, Answers, Ask
    <2> QED
        BY <1>3, <2>3, <2>5
<1> QED
    BY <1>2, <1>3

LEMMA GiveUpSafe ==
    ASSUME IInv, NEW c \in Clients, NEW how \in {"stalled", "left"}, GiveUp(c, how), NEW d \in Clients
    PROVE  StreamInv(d)' /\ AnswerInv(d)'
<1>1. StreamInv(d) /\ AnswerInv(d)
    BY DEF IInv
<1>2. CASE d # c
    <2>1. client'[d] = client[d]
        BY <1>2 DEF IInv, TypeOK, GiveUp
    <2> QED
        BY <1>1, <2>1, Untouched DEF GiveUp, pumpVars, hubVars
<1>3. CASE d = c
    <2>1. client'[c] = how
        BY DEF IInv, TypeOK, GiveUp
    <2>2. Frames(c)' = Frames(c)
        BY DEF Frames, GiveUp
    <2>3. StreamInv(c)'
        BY <1>1, <1>3, <2>2 DEF StreamInv, Streams, GiveUp, pumpVars, hubVars
    <2>4. AnswerInv(c)'
        BY <1>1, <1>3, <2>1, <2>2 DEF AnswerInv, Answers, GiveUp
    <2> QED
        BY <1>3, <2>3, <2>4
<1> QED
    BY <1>2, <1>3

LEMMA TakeSafe ==
    ASSUME IInv, NEW c \in Clients, Take(c), NEW d \in Clients
    PROVE  StreamInv(d)' /\ AnswerInv(d)'
<1>1. StreamInv(d) /\ AnswerInv(d)
    BY DEF IInv
<1>2. CASE d # c
    <2>1. sending'[d] = sending[d] /\ seen'[d] = seen[d] /\ told'[d] = told[d]
        BY <1>2 DEF IInv, TypeOK, Take
    <2> QED
        BY <1>1, <2>1, Untouched DEF Take, pumpVars, hubVars
<1>3. CASE d = c
    <2>1. /\ sending[c] # Idle /\ sending'[c] = Idle /\ client[c] = "reading" /\ seen'[c] = sending[c].at
          /\ told'[c] = IF told[c] = "waiting" /\ sending[c].kind \in {"answer", "refusal"}
                        THEN sending[c].kind ELSE told[c]
        BY DEF IInv, TypeOK, Take
    <2>2. sending[c] \in Frame \cup {Idle} /\ out[c] \in Seq(Frame) /\ seen[c] \in Nat /\ failed[c] \in BOOLEAN
        BY DEF IInv, TypeOK
    <2>3. Frames(c) = Line(sending[c], out[c]) /\ Frames(c) \in Seq(Frame)
        BY FramesType DEF IInv
    <2>4. Frames(c) # <<>> /\ Frames(c)[1] = sending[c] /\ Line(Idle, out[c]) = Tail(Frames(c))
        BY <2>1, <2>2, <2>3, LineOf
    <2>5. Frames(c)' = Tail(Frames(c))
        <3>1. Frames(c)' = Line(Idle, out[c])
            BY <2>1 DEF Frames, Line, Take
        <3> QED
            BY <3>1, <2>4
    <2>6. /\ Unbroken(Frames(c)', seen'[c]) /\ Lead(Frames(c)', seen'[c]) = Lead(Frames(c), seen[c])
          /\ (\A i \in 1 .. Len(Frames(c)) : Frames(c)[i].kind = "answer") =>
                 \A i \in 1 .. Len(Frames(c)') : Frames(c)'[i].kind = "answer"
          /\ Answers(Frames(c)', failed[c], reader[c], wire[c], told'[c], applied[c], "reading")
        <3>1. Unbroken(Frames(c), seen[c])
            BY <1>1, <1>3 DEF StreamInv, Streams
        <3>2. Answers(Frames(c), failed[c], reader[c], wire[c], told[c], applied[c], "reading")
            BY <1>1, <1>3, <2>1 DEF AnswerInv
        <3>3. told'[c] = IF told[c] = "waiting" /\ Frames(c)[1].kind \in {"answer", "refusal"}
                         THEN Frames(c)[1].kind ELSE told[c]
            BY <2>1, <2>4
        <3>4. seen'[c] = Frames(c)[1].at
            BY <2>1, <2>4
        <3> DEFINE f == Frames(c)
                   to == told'[c]
        <3> HIDE DEF f
        <3>5. f \in Seq(Frame) /\ f # <<>> /\ Unbroken(f, seen[c])
            BY <2>3, <2>4, <3>1 DEF f
        <3>6. Answers(f, failed[c], reader[c], wire[c], told[c], applied[c], "reading")
            BY <3>2 DEF f
        <3>7. to = IF told[c] = "waiting" /\ f[1].kind \in {"answer", "refusal"} THEN f[1].kind ELSE told[c]
            BY <3>3 DEF f
        <3> HIDE DEF to
        <3>8. /\ Unbroken(Tail(f), f[1].at) /\ Lead(Tail(f), f[1].at) = Lead(f, seen[c])
              /\ (\A i \in 1 .. Len(f) : f[i].kind = "answer") =>
                      \A i \in 1 .. Len(Tail(f)) : Tail(f)[i].kind = "answer"
              /\ Answers(Tail(f), failed[c], reader[c], wire[c], to, applied[c], "reading")
            BY <2>2, <3>5, <3>6, <3>7, FrameTaken
        <3> QED
            BY <2>5, <3>4, <3>8 DEF f, to
    <2>7. StreamInv(c)'
        BY <1>1, <1>3, <2>6 DEF StreamInv, Streams, Take, pumpVars, hubVars
    <2>8. AnswerInv(c)'
        BY <2>1, <2>6 DEF AnswerInv, Take
    <2> QED
        BY <1>3, <2>7, <2>8
<1> QED
    BY <1>2, <1>3

LEMMA ReadSafe ==
    ASSUME IInv, NEW c \in Clients, Read(c), NEW d \in Clients
    PROVE  StreamInv(d)' /\ AnswerInv(d)'
<1>1. StreamInv(d) /\ AnswerInv(d)
    BY DEF IInv
<1>2. CASE d # c
    <2>1. /\ wire'[d] = wire[d] /\ reader'[d] = reader[d] /\ applied'[d] = applied[d]
          /\ (d \in subs' <=> d \in subs) /\ dropped'[d] = dropped[d] /\ seen'[d] = seen[d]
        BY <1>2 DEF IInv, TypeOK, Read
    <2> QED
        BY <1>1, <2>1, Untouched DEF Read, pumpVars
<1>3. CASE d = c
    <2>1. reader[c] = "reading" /\ wire[c] # "none" /\ wire'[c] = "none"
        BY DEF IInv, TypeOK, Read
    <2>2. /\ Frames(c)' = Frames(c) /\ failed' = failed /\ watermark' = watermark
          /\ told' = told /\ client' = client
        BY DEF Frames, Read, pumpVars
    <2>3. NoAnswer(Frames(c)) /\ told[c] = "waiting" /\ ~applied[c]
        BY <1>1, <1>3, <2>1 DEF AnswerInv, Answers, Open
    <2>4. CASE reader'[c] = "refusing" /\ UNCHANGED <<applied, subs, dropped, seen>>
        <3>1. StreamInv(c)'
            BY <1>1, <1>3, <2>1, <2>2, <2>4 DEF StreamInv, Streams, Open
        <3>2. AnswerInv(c)'
            BY <1>1, <1>3, <2>1, <2>2, <2>3, <2>4 DEF AnswerInv, Answers, Open
        <3> QED
            BY <1>3, <3>1, <3>2
    <2>5. CASE /\ reader'[c] = "acking" /\ applied' = applied /\ c \in subs' /\ dropped'[c] = 0
               /\ seen'[c] = watermark /\ wire[c] = "subscribe"
        <3>1. c \notin subs
            BY <1>1, <1>3, <2>5 DEF StreamInv, Streams
        <3>2. Frames(c) = <<>>
            <4>1. Frames(c) \in Seq(Frame)
                BY FramesType DEF IInv
            <4>2. CASE failed[c]
                BY <1>1, <1>3, <4>2 DEF AnswerInv, Answers
            <4>3. CASE ~failed[c]
                <5>1. \A i \in 1 .. Len(Frames(c)) : Frames(c)[i].kind = "answer"
                    BY <1>1, <1>3, <2>1, <3>1, <4>3 DEF StreamInv, Streams, Open
                <5>2. \A i \in 1 .. Len(Frames(c)) : FALSE
                    BY <2>3, <5>1 DEF NoAnswer
                <5>3. Len(Frames(c)) = 0
                    BY <4>1, <5>2
                <5> QED
                    BY <4>1, <5>3
            <4> QED
                BY <4>2, <4>3
        <3>3. watermark \in Nat
            BY DEF IInv, TypeOK
        <3>4. StreamInv(c)'
            <4>1. Unbroken(<<>>, watermark) /\ Lead(<<>>, watermark) = watermark
                BY NoFrames
            <4>2. Unbroken(Frames(c)', seen'[c]) /\ Lead(Frames(c)', seen'[c]) + dropped'[c] = watermark'
                BY <2>2, <2>5, <3>2, <3>3, <4>1
            <4> QED
                BY <2>1, <2>5, <4>2 DEF StreamInv, Streams, Open
        <3>5. AnswerInv(c)'
            BY <1>1, <1>3, <2>1, <2>2, <2>3, <2>5 DEF AnswerInv, Answers, Open
        <3> QED
            BY <1>3, <3>4, <3>5
    <2>6. CASE reader'[c] = "answering" /\ UNCHANGED <<subs, dropped, seen>> /\ applied'[c] \in BOOLEAN
        <3>1. StreamInv(c)'
            BY <1>1, <1>3, <2>1, <2>2, <2>6 DEF StreamInv, Streams, Open
        <3>2. AnswerInv(c)'
            BY <1>1, <1>3, <2>1, <2>2, <2>3, <2>6 DEF AnswerInv, Answers, Open
        <3> QED
            BY <1>3, <3>1, <3>2
    <2>7. \/ reader'[c] = "refusing" /\ UNCHANGED <<applied, subs, dropped, seen>>
          \/ /\ reader'[c] = "acking" /\ applied' = applied /\ c \in subs' /\ dropped'[c] = 0
             /\ seen'[c] = watermark /\ wire[c] = "subscribe"
          \/ reader'[c] = "answering" /\ UNCHANGED <<subs, dropped, seen>> /\ applied'[c] \in BOOLEAN
        <3>1. /\ reader \in [Clients -> Readers] /\ applied \in [Clients -> BOOLEAN]
              /\ dropped \in [Clients -> Nat] /\ seen \in [Clients -> Nat]
            BY DEF IInv, TypeOK
        <3>2. (log' > log) \in BOOLEAN
            OBVIOUS
        <3>3. CASE stopping
            BY <3>1, <3>3 DEF Read
        <3>4. CASE ~stopping /\ wire[c] = "subscribe"
            BY <3>1, <3>4 DEF Read
        <3>5. CASE ~stopping /\ wire[c] # "subscribe"
            <4>1. /\ applied' = [applied EXCEPT ![c] = log' > log]
                  /\ reader' = [reader EXCEPT ![c] = "answering"] /\ UNCHANGED <<subs, dropped, seen>>
                BY <3>5 DEF Read
            <4>2. applied'[c] = (log' > log)
                BY <3>1, <4>1
            <4> QED
                BY <3>1, <3>2, <4>1, <4>2
        <3> QED
            BY <3>3, <3>4, <3>5
    <2> QED
        BY <2>4, <2>5, <2>6, <2>7
<1> QED
    BY <1>2, <1>3

LEMMA SendSafe ==
    ASSUME IInv, NEW c \in Clients, Send(c), NEW d \in Clients
    PROVE  StreamInv(d)' /\ AnswerInv(d)'
<1>1. StreamInv(d) /\ AnswerInv(d)
    BY DEF IInv
<1>2. CASE failed[c] /\ Ends(c) /\ UNCHANGED out
    <2>1. reader[c] \in Open
        BY DEF Send, Open
    <2> QED
        BY <1>2, <2>1, EndsHere DEF Send, pumpVars, clientVars
<1>3. CASE ~failed[c] /\ d # c
    <2>1. reader'[d] = reader[d] /\ out'[d] = out[d] /\ (d \in subs' <=> d \in subs)
        BY <1>3 DEF IInv, TypeOK, Send, Ends
    <2> QED
        BY <1>1, <2>1, Untouched DEF Send, pumpVars, clientVars
<1>4. CASE ~failed[c] /\ d = c
    <2> DEFINE r == [kind |-> IF reader[c] = "refusing" THEN "refusal" ELSE "answer",
                     count |-> 0, at |-> Reached(c)]
    <2>1. /\ out[c] \in Seq(Frame) /\ sending[c] \in Frame \cup {Idle} /\ seen[c] \in Nat
          /\ watermark \in Nat /\ dropped[c] \in Nat
        BY DEF IInv, TypeOK
    <2>2. Frames(c) = Line(sending[c], out[c]) /\ Frames(c) \in Seq(Frame)
        BY FramesType DEF IInv
    <2>3. /\ reader[c] \in {"acking", "answering", "refusing"}
          /\ out'[c] = Longer(out[c], r)
          /\ \/ /\ reader[c] = "refusing" /\ reader'[c] = "closing" /\ c \notin subs'
             \/ /\ reader[c] # "refusing" /\ subs' = subs
                /\ reader'[c] = IF reader[c] = "acking" THEN "reading" ELSE "pump"
        BY <1>4 DEF IInv, TypeOK, Send, Ends, Longer
    <2>4. Unbroken(Frames(c), seen[c])
        BY <1>1, <1>4 DEF StreamInv, Streams
    <2>5. Reached(c) = Lead(Frames(c), seen[c]) /\ Lead(Frames(c), seen[c]) \in Nat
        <3>1. Lead(Frames(c), seen[c]) \in Nat
            BY <2>1, <2>2, LeadType
        <3>2. CASE c \in subs
            BY <1>1, <1>4, <2>1, <3>1, <3>2 DEF StreamInv, Streams, Reached
        <3>3. CASE c \notin subs
            BY <1>1, <1>4, <2>3, <3>1, <3>3 DEF StreamInv, Streams, Reached, Open
        <3> QED
            BY <3>2, <3>3
    <2>6. r \in Frame /\ r.at = r.count + Lead(Frames(c), seen[c]) /\ r.at = Lead(Frames(c), seen[c])
        BY <2>5 DEF Frame
    <2>7. r.kind = IF reader[c] = "refusing" THEN "refusal" ELSE "answer"
        OBVIOUS
    <2> HIDE DEF r
    <2>8. Frames(c)' = Longer(Frames(c), r)
        <3>1. Frames(c)' = Line(sending[c], Longer(out[c], r))
            BY <2>3 DEF Frames, Line, Send
        <3> QED
            BY <2>1, <2>2, <2>6, <3>1, LineOf
    <2>9. /\ Frames(c)' = Longer(Frames(c), r) /\ seen' = seen /\ failed' = failed /\ dropped' = dropped
          /\ watermark' = watermark /\ wire' = wire /\ told' = told /\ applied' = applied
          /\ client' = client
        BY <2>8 DEF Send, pumpVars, clientVars
    <2>10. Answers(Frames(c), failed[c], reader[c], wire[c], told[c], applied[c], client[c])
        BY <1>1, <1>4 DEF AnswerInv
    <2>11. CASE reader[c] = "refusing"
        <3>1. reader'[c] = "closing" /\ c \notin subs' /\ r.kind = "refusal"
            BY <2>3, <2>7, <2>11
        <3>2. Answers(Frames(c), failed[c], "refusing", wire[c], told[c], applied[c], client[c])
            BY <2>10, <2>11
        <3>3. /\ Unbroken(Longer(Frames(c), r), seen[c])
              /\ Answers(Longer(Frames(c), r), failed[c], "closing", wire[c], told[c], applied[c], client[c])
            BY <1>4, <2>1, <2>2, <2>4, <2>6, <3>1, <3>2, RefusalQueued
        <3>4. StreamInv(c)'
            BY <2>9, <3>1, <3>3 DEF StreamInv, Streams, Open
        <3>5. AnswerInv(c)'
            BY <2>9, <3>1, <3>3 DEF AnswerInv
        <3> QED
            BY <1>4, <3>4, <3>5
    <2>12. CASE reader[c] # "refusing"
        <3>1. /\ reader'[c] \in {"reading", "pump"} /\ subs' = subs /\ r.kind = "answer"
              /\ reader[c] \in {"acking", "answering"}
            BY <2>3, <2>7, <2>12
        <3>2. /\ Longer(Frames(c), r) \in Seq(Frame)
              /\ Unbroken(Longer(Frames(c), r), seen[c]) /\ Lead(Longer(Frames(c), r), seen[c]) = r.at
              /\ Answers(Longer(Frames(c), r), failed[c], reader'[c], wire[c], told[c], applied[c], client[c])
            BY <1>4, <2>1, <2>2, <2>4, <2>6, <2>10, <3>1, AnswerQueued
        <3>3. wire[c] = "none"
            BY <2>10, <3>1 DEF Answers
        <3>4. (\A i \in 1 .. Len(Frames(c)) : Frames(c)[i].kind = "answer") =>
                 \A i \in 1 .. Len(Longer(Frames(c), r)) : Longer(Frames(c), r)[i].kind = "answer"
            <4> DEFINE f == Frames(c)
            <4>1. f \in Seq(Frame)
                BY <2>2
            <4> HIDE DEF f
            <4>2. (\A i \in 1 .. Len(f) : f[i].kind = "answer") =>
                     \A i \in 1 .. Len(Longer(f, r)) : Longer(f, r)[i].kind = "answer"
                BY <2>6, <3>1, <4>1 DEF Longer
            <4> QED
                BY <4>2 DEF f
        <3>5. c \notin subs => /\ Lead(Frames(c), seen[c]) = 0
                               /\ \A i \in 1 .. Len(Frames(c)) : Frames(c)[i].kind = "answer"
            BY <1>1, <1>4, <3>1 DEF StreamInv, Streams, Open
        <3>6. c \in subs => Lead(Frames(c), seen[c]) + dropped[c] = watermark
            BY <1>1, <1>4 DEF StreamInv, Streams
        <3>7. StreamInv(c)'
            BY <2>6, <2>9, <3>1, <3>2, <3>3, <3>4, <3>5, <3>6 DEF StreamInv, Streams, Open
        <3>8. AnswerInv(c)'
            BY <2>9, <3>2 DEF AnswerInv
        <3> QED
            BY <1>4, <3>7, <3>8
    <2> QED
        BY <2>11, <2>12
<1> QED
    BY <1>2, <1>3, <1>4 DEF Send

LEMMA PartSafe ==
    ASSUME IInv, NEW c \in Clients, TimedOut(c) \/ IdleOut(c) \/ Eof(c), NEW d \in Clients
    PROVE  StreamInv(d)' /\ AnswerInv(d)'
<1>1. reader[c] = "reading"
    BY DEF TimedOut, IdleOut, Eof, Parked
<1>2. /\ wire' = wire /\ out' = out /\ sending' = sending /\ seen' = seen /\ failed' = failed
      /\ dropped' = dropped /\ watermark' = watermark /\ told' = told /\ applied' = applied
      /\ client' = client
    BY DEF TimedOut, IdleOut, Eof, pumpVars, clientVars
<1>3. CASE Ends(c)
    BY <1>1, <1>2, <1>3, EndsHere DEF Open
<1>4. CASE c \notin subs /\ reader' = [reader EXCEPT ![c] = "refusing"] /\ subs' = subs
    <2>1. StreamInv(d) /\ AnswerInv(d)
        BY DEF IInv
    <2>2. CASE d # c
        <3>1. reader'[d] = reader[d]
            BY <1>4, <2>2 DEF IInv, TypeOK
        <3> QED
            BY <1>2, <1>4, <2>1, <3>1, Untouched
    <2>3. CASE d = c
        <3>1. reader'[c] = "refusing"
            BY <1>4 DEF IInv, TypeOK
        <3>2. Frames(c)' = Frames(c)
            BY <1>2 DEF Frames
        <3>3. StreamInv(c)'
            BY <1>1, <1>2, <1>4, <2>1, <2>3, <3>1, <3>2 DEF StreamInv, Streams, Open
        <3>4. AnswerInv(c)'
            BY <1>1, <1>2, <2>1, <2>3, <3>1, <3>2 DEF AnswerInv, Answers, Open
        <3> QED
            BY <2>3, <3>3, <3>4
    <2> QED
        BY <2>2, <2>3
<1> QED
    BY <1>3, <1>4 DEF TimedOut, IdleOut, Eof

LEMMA DoneSafe ==
    ASSUME IInv, NEW c \in Clients, Done(c), NEW d \in Clients
    PROVE  StreamInv(d)' /\ AnswerInv(d)'
<1>1. StreamInv(d) /\ AnswerInv(d)
    BY DEF IInv
<1>2. CASE d # c
    <2>1. reader'[d] = reader[d]
        BY <1>2 DEF IInv, TypeOK, Done
    <2> QED
        BY <1>1, <2>1, Untouched DEF Done, pumpVars, hubVars, clientVars
<1>3. CASE d = c
    <2>1. reader[c] = "closing" /\ reader'[c] = "done" /\ Frames(c) = <<>>
        BY DEF IInv, TypeOK, Done
    <2>2. Frames(c)' = Frames(c)
        BY DEF Frames, Done
    <2>3. StreamInv(c)'
        BY <1>1, <1>3, <2>1, <2>2 DEF StreamInv, Streams, Open, Done, pumpVars, hubVars, clientVars
    <2>4. AnswerInv(c)'
        BY <1>1, <1>3, <2>1, <2>2 DEF AnswerInv, Answers, Open, Done, clientVars
    <2> QED
        BY <1>3, <2>3, <2>4
<1> QED
    BY <1>2, <1>3

LEMMA WriterSafe ==
    ASSUME IInv, NEW c \in Clients, WriterTakes(c), NEW d \in Clients
    PROVE  StreamInv(d)' /\ AnswerInv(d)'
<1>1. StreamInv(d) /\ AnswerInv(d)
    BY DEF IInv
<1>2. CASE d # c
    <2>1. sending'[d] = sending[d] /\ out'[d] = out[d]
        BY <1>2 DEF IInv, TypeOK, WriterTakes
    <2> QED
        BY <1>1, <2>1, Untouched DEF WriterTakes, pumpVars, hubVars, clientVars
<1>3. CASE d = c
    <2>1. sending[c] = Idle /\ out[c] # <<>> /\ sending'[c] = Head(out[c]) /\ out'[c] = Tail(out[c])
        BY DEF IInv, TypeOK, WriterTakes
    <2>2. out[c] \in Seq(Frame) /\ sending[c] \in Frame \cup {Idle}
        BY DEF IInv, TypeOK
    <2>3. Frames(c)' = Frames(c)
        <3>1. Frames(c)' = Line(Head(out[c]), Tail(out[c]))
            BY <2>1 DEF Frames, Line
        <3>2. Frames(c) = Line(sending[c], out[c])
            BY DEF Frames, Line
        <3> QED
            BY <2>1, <2>2, <3>1, <3>2, LineOf
    <2>4. StreamInv(c)'
        BY <1>1, <1>3, <2>3 DEF StreamInv, Streams, WriterTakes, pumpVars, hubVars, clientVars
    <2>5. AnswerInv(c)'
        BY <1>1, <1>3, <2>3 DEF AnswerInv, Answers, WriterTakes, clientVars
    <2> QED
        BY <1>3, <2>4, <2>5
<1> QED
    BY <1>2, <1>3

LEMMA FailsSafe ==
    ASSUME IInv, NEW c \in Clients, WriteFails(c), NEW d \in Clients
    PROVE  StreamInv(d)' /\ AnswerInv(d)'
<1>1. StreamInv(d) /\ AnswerInv(d)
    BY DEF IInv
<1>2. CASE d # c
    <2>1. sending'[d] = sending[d] /\ out'[d] = out[d] /\ failed'[d] = failed[d]
        BY <1>2 DEF IInv, TypeOK, WriteFails
    <2> QED
        BY <1>1, <2>1, Untouched DEF WriteFails, pumpVars, hubVars, clientVars
<1>3. CASE d = c
    <2>1. failed'[c] = TRUE /\ sending'[c] = Idle /\ out'[c] = <<>> /\ client[c] # "reading"
        BY DEF IInv, TypeOK, WriteFails
    <2>2. Frames(c)' = <<>>
        BY <2>1 DEF Frames
    <2>3. NoAnswer(<<>>) /\ Unbroken(<<>>, seen[c])
        BY NoFrames DEF NoAnswer
    <2>4. reader[c] \notin {"away", "backlog", "done"}
        <3>1. Frames(c) # <<>>
            <4>1. sending[c] \in Frame \cup {Idle} /\ out[c] \in Seq(Frame) /\ sending[c] # Idle
                BY DEF IInv, TypeOK, WriteFails
            <4> QED
                BY <4>1, FramesType, LineOf DEF IInv
        <3> QED
            BY <1>1, <1>3, <3>1 DEF AnswerInv, Answers
    <2>5. StreamInv(c)'
        BY <1>1, <1>3, <2>1, <2>2, <2>3 DEF StreamInv, Streams, WriteFails, pumpVars, hubVars, clientVars
    <2>6. AnswerInv(c)'
        BY <1>1, <1>3, <2>1, <2>2, <2>3, <2>4 DEF AnswerInv, Answers, WriteFails, clientVars
    <2> QED
        BY <1>3, <2>5, <2>6
<1> QED
    BY <1>2, <1>3

LEMMA PumpSafe ==
    ASSUME IInv, NEW t \in Threads, PumpBegin(t) \/ PumpNext(t) \/ PumpEnd(t), NEW d \in Clients
    PROVE  StreamInv(d)' /\ AnswerInv(d)'
<1>1. StreamInv(d) /\ AnswerInv(d)
    BY DEF IInv
<1>2. CASE PumpBegin(t)
    BY <1>1, <1>2, Untouched DEF PumpBegin, hubVars, clientVars
<1>3. CASE PumpNext(t)
    <2>1. last[t] = watermark /\ watermark \in Nat
        BY <1>3 DEF IInv, TypeOK, PumpInv, PumpNext
    <2>2. Broadcast(watermark + 1) /\ watermark' = watermark + 1
        BY <1>3, <2>1 DEF PumpNext
    <2> QED
        BY <1>3, <2>2, Broadcasted DEF PumpNext, clientVars
<1>4. CASE PumpEnd(t)
    <2>1. CASE d # t
        <3>1. reader'[d] = reader[d]
            BY <1>4, <2>1 DEF PumpEnd
        <3> QED
            BY <1>1, <1>4, <3>1, Untouched DEF PumpEnd, hubVars, clientVars
    <2>2. CASE d = t
        <3>1. reader[d] = "pump"
            BY <1>4, <2>2, DaemonAssumption DEF IInv, PumpInv, PumpEnd
        <3>2. reader'[d] = "reading"
            BY <1>4, <2>2 DEF PumpEnd
        <3>3. Frames(d)' = Frames(d)
            BY <1>4 DEF Frames, PumpEnd
        <3>4. StreamInv(d)'
            BY <1>1, <1>4, <3>1, <3>2, <3>3 DEF StreamInv, Streams, Open, PumpEnd, hubVars, clientVars
        <3>5. AnswerInv(d)'
            BY <1>1, <1>4, <3>1, <3>2, <3>3 DEF AnswerInv, Answers, Open, PumpEnd, clientVars
        <3> QED
            BY <3>4, <3>5
    <2> QED
        BY <2>1, <2>2
<1> QED
    BY <1>2, <1>3, <1>4

\* A client in the backlog subscribes to nothing, and has been sent nothing.
LEMMA LoopSafe ==
    ASSUME IInv, Loop, NEW d \in Clients
    PROVE  StreamInv(d)' /\ AnswerInv(d)'
<1>1. StreamInv(d) /\ AnswerInv(d)
    BY DEF IInv
<1>2. Iteration
    BY DEF Loop, Leave, Accept, Reject, NoneWaits
<1>3. /\ FlushGaps /\ sending' = sending /\ failed' = failed /\ watermark' = watermark /\ seen' = seen
      /\ wire' = wire /\ applied' = applied /\ client' = client
    BY <1>2 DEF Iteration, pumpVars
<1>4. CASE reader'[d] = reader[d] /\ told'[d] = told[d]
    BY <1>3, <1>4, Flushed
<1>5. ASSUME reader[d] = "backlog", reader'[d] \in {"reading", "done"},
             told'[d] = told[d] \/ told'[d] = "refusal", reader'[d] = "reading" => told'[d] = told[d]
      PROVE  StreamInv(d)' /\ AnswerInv(d)'
    <2>1. d \notin subs
        BY <1>1, <1>5 DEF StreamInv, Streams, Open
    <2>2. d \notin subs' /\ out'[d] = out[d]
        BY <1>3, <2>1 DEF FlushGaps
    <2>3. Frames(d)' = Frames(d)
        BY <1>3, <2>2 DEF Frames
    <2>4. Frames(d) = <<>> /\ ~applied[d]
        BY <1>1, <1>5 DEF AnswerInv, Answers
    <2>5. NoAnswer(<<>>)
        BY DEF NoAnswer
    <2>6. StreamInv(d)'
        BY <1>1, <1>3, <1>5, <2>2, <2>3 DEF StreamInv, Streams, Open
    <2>7. AnswerInv(d)'
        BY <1>1, <1>3, <1>5, <2>3, <2>4, <2>5 DEF AnswerInv, Answers, Open
    <2> QED
        BY <2>6, <2>7
<1>6. CASE Leave \/ NoneWaits
    BY <1>4, <1>6 DEF Leave, NoneWaits
<1>7. ASSUME NEW c \in Clients, Accept(c)
      PROVE  StreamInv(d)' /\ AnswerInv(d)'
    <2>1. /\ reader[c] = "backlog" /\ told' = told
          /\ reader'[d] = IF d = c THEN "reading" ELSE reader[d]
        BY <1>7 DEF IInv, TypeOK, Accept
    <2> QED
        BY <1>4, <1>5, <2>1
<1>8. ASSUME NEW c \in Clients, Reject(c)
      PROVE  StreamInv(d)' /\ AnswerInv(d)'
    <2>1. /\ reader[c] = "backlog"
          /\ reader'[d] = IF d = c THEN "done" ELSE reader[d]
          /\ told'[d] = IF d = c /\ client[c] = "reading" THEN "refusal" ELSE told[d]
        BY <1>8 DEF IInv, TypeOK, Reject
    <2> QED
        BY <1>4, <1>5, <2>1
<1> QED
    BY <1>6, <1>7, <1>8 DEF Loop

LEMMA OthersSafe ==
    ASSUME IInv, WriteOutside \/ Stop \/ Drain \/ UNCHANGED vars, NEW d \in Clients
    PROVE  StreamInv(d)' /\ AnswerInv(d)'
<1>1. StreamInv(d) /\ AnswerInv(d)
    BY DEF IInv
<1> QED
    BY <1>1, Untouched DEF WriteOutside, Stop, Drain, vars, pumpVars, hubVars, clientVars

-----------------------------------------------------------------------------
(* Types *)

LEMMA FlushType ==
    ASSUME TypeOK, FlushGaps
    PROVE  subs' \subseteq Clients /\ out' \in [Clients -> Seq(Frame)] /\ dropped' \in [Clients -> Nat]
<1>1. subs' \subseteq Clients
    BY DEF TypeOK, FlushGaps
<1>2. dropped' \in [Clients -> Nat]
    BY DEF TypeOK, FlushGaps
<1>3. ASSUME NEW c \in Clients
      PROVE  [kind |-> "gap", count |-> dropped[c], at |-> watermark] \in Frame /\ out[c] \in Seq(Frame)
    BY DEF TypeOK, Frame
<1>4. out' \in [Clients -> Seq(Frame)]
    BY <1>3 DEF FlushGaps
<1> QED
    BY <1>1, <1>2, <1>4

LEMMA QueuedType ==
    ASSUME TypeOK, NEW c \in Clients, NEW row \in Nat \ {0}
    PROVE  Queued(c, row) \in Seq(Frame) /\ Dropped(c) \in Nat
<1>1. dropped[c] \in Nat
    BY DEF TypeOK
<1> DEFINE gap == [kind |-> "gap", count |-> dropped[c], at |-> row - 1]
           event == [kind |-> "event", count |-> 1, at |-> row]
<1>2. gap \in Frame /\ event \in Frame
    BY <1>1 DEF Frame
<1>3. Queued(c, row) = IF ~Room(c) THEN <<>>
                       ELSE IF dropped[c] = 0 THEN <<event>>
                       ELSE IF Len(out[c]) + 1 < Cap THEN <<gap, event>> ELSE <<gap>>
    BY DEF Queued
<1> HIDE DEF gap, event
<1>4. Queued(c, row) \in Seq(Frame)
    <2>1. <<>> \in Seq(Frame) /\ <<event>> \in Seq(Frame) /\ <<gap>> \in Seq(Frame)
        BY <1>2
    <2>2. <<gap, event>> \in Seq(Frame)
        BY <1>2
    <2> QED
        BY <1>3, <2>1, <2>2
<1>5. Dropped(c) \in Nat
    BY <1>1 DEF Dropped
<1> QED
    BY <1>4, <1>5

LEMMA BroadcastType ==
    ASSUME TypeOK, NEW row \in Nat \ {0}, Broadcast(row)
    PROVE  subs' \subseteq Clients /\ out' \in [Clients -> Seq(Frame)] /\ dropped' \in [Clients -> Nat]
<1>1. subs' \subseteq Clients
    BY DEF TypeOK, Broadcast
<1>2. \A c \in Clients : Queued(c, row) \in Seq(Frame) /\ Dropped(c) \in Nat
    BY QueuedType
<1>3. dropped' \in [Clients -> Nat]
    BY <1>2 DEF TypeOK, Broadcast
<1>4. ASSUME NEW c \in Clients
      PROVE  out[c] \in Seq(Frame) /\ out[c] \o Queued(c, row) \in Seq(Frame)
    <2>1. out[c] \in Seq(Frame) /\ Queued(c, row) \in Seq(Frame)
        BY <1>2 DEF TypeOK
    <2> QED
        BY <2>1
<1>5. out' \in [Clients -> Seq(Frame)]
    BY <1>4 DEF Broadcast
<1> QED
    BY <1>1, <1>3, <1>5

\* Every step keeps every variable in its type. An answer tells a subscriber no
\* more than was broadcast, since what its queue has lost is part of that.
LEMMA TypeStep ==
    ASSUME IInv, [Next]_vars
    PROVE  TypeOK'
<1> USE DEF IInv, TypeOK, pumpVars, hubVars, clientVars
<1>1. ASSUME NEW c \in Clients, Connect(c) PROVE TypeOK'
    BY <1>1 DEF Connect, Readers, Live
<1>2. ASSUME NEW c \in Clients, Take(c) PROVE TypeOK'
    <2>1. sending[c] \in Frame
        BY <1>2 DEF Take
    <2>2. sending[c].at \in Nat /\ sending[c].kind \in {"answer", "refusal", "event", "gap"}
        BY <2>1 DEF Frame
    <2> QED
        BY <1>2, <2>1, <2>2 DEF Take
<1>3. ASSUME NEW c \in Clients, NEW what \in {"write", "subscribe"}, Ask(c, what) PROVE TypeOK'
    BY <1>3 DEF Ask
<1>4. ASSUME NEW c \in Clients, NEW how \in {"stalled", "left"}, GiveUp(c, how) PROVE TypeOK'
    BY <1>4 DEF GiveUp
<1>5. ASSUME NEW c \in Clients, Read(c) PROVE TypeOK'
    <2>1. /\ UNCHANGED <<watermark, pumping, last, upto, out, sending, failed, stopping, daemon, client, asked, told>>
          /\ wire' = [wire EXCEPT ![c] = "none"]
        BY <1>5 DEF Read
    <2>2. CASE stopping
        BY <1>5, <2>1, <2>2 DEF Read, Readers, Live
    <2>3. CASE ~stopping /\ wire[c] = "subscribe"
        <3>1. /\ subs' = subs \cup {c} /\ dropped' = [dropped EXCEPT ![c] = 0]
              /\ seen' = [seen EXCEPT ![c] = watermark] /\ reader' = [reader EXCEPT ![c] = "acking"]
              /\ UNCHANGED <<log, applied>>
            BY <1>5, <2>3 DEF Read
        <3> QED
            BY <2>1, <3>1 DEF Readers, Live
    <2>4. CASE ~stopping /\ wire[c] # "subscribe"
        <3>1. /\ log' = IF log < MaxEvents THEN log + 1 ELSE log
              /\ applied' = [applied EXCEPT ![c] = log' > log]
              /\ reader' = [reader EXCEPT ![c] = "answering"] /\ UNCHANGED <<subs, dropped, seen>>
            BY <1>5, <2>4 DEF Read
        <3>2. log' \in Nat
            BY <3>1
        <3>3. applied' \in [Clients -> BOOLEAN]
            BY <3>1
        <3> QED
            BY <2>1, <3>1, <3>2, <3>3 DEF Readers, Live
    <2> QED
        BY <2>2, <2>3, <2>4
<1>6. ASSUME NEW c \in Clients, Send(c) PROVE TypeOK'
    <2>1. /\ UNCHANGED <<log, watermark, pumping, last, upto, dropped, sending, failed, stopping, daemon,
                         client, wire, asked, told, seen, applied>>
        BY <1>6 DEF Send
    <2>2. subs' \subseteq Clients /\ reader' \in [Clients -> Readers]
        BY <1>6 DEF Send, Ends, Readers, Live
    <2>3. out' \in [Clients -> Seq(Frame)]
        <3>1. CASE failed[c]
            BY <1>6, <3>1 DEF Send
        <3>2. CASE ~failed[c]
            <4> DEFINE r == [kind |-> IF reader[c] = "refusing" THEN "refusal" ELSE "answer",
                             count |-> 0, at |-> Reached(c)]
            <4>1. out' = [out EXCEPT ![c] = Append(@, r)]
                BY <1>6, <3>2 DEF Send
            <4>2. Reached(c) \in Nat
                <5>1. CASE c \in subs
                    <6>1. Lead(Frames(c), seen[c]) \in Nat
                        BY FramesType, LeadType
                    <6>2. Lead(Frames(c), seen[c]) + dropped[c] = watermark
                        BY <3>2, <5>1 DEF StreamInv, Streams
                    <6> QED
                        BY <5>1, <6>1, <6>2 DEF Reached
                <5>2. CASE c \notin subs
                    BY <5>2 DEF Reached
                <5> QED
                    BY <5>1, <5>2
            <4>3. r \in Frame
                BY <4>2 DEF Frame
            <4> HIDE DEF r
            <4>4. Append(out[c], r) \in Seq(Frame)
                BY <4>3
            <4> QED
                BY <4>1, <4>4
        <3> QED
            BY <3>1, <3>2
    <2> QED
        BY <2>1, <2>2, <2>3
<1>7. ASSUME NEW c \in Clients, TimedOut(c) \/ IdleOut(c) \/ Eof(c) PROVE TypeOK'
    <2>1. /\ UNCHANGED <<log, watermark, pumping, last, upto, dropped, out, sending, failed, stopping, daemon,
                         client, wire, asked, told, seen, applied>>
        BY <1>7 DEF TimedOut, IdleOut, Eof
    <2>2. subs' \subseteq Clients /\ reader' \in [Clients -> Readers]
        BY <1>7 DEF TimedOut, IdleOut, Eof, Ends, Readers, Live
    <2> QED
        BY <2>1, <2>2
<1>8. ASSUME NEW c \in Clients, Done(c) PROVE TypeOK'
    BY <1>8 DEF Done, Readers
<1>9. ASSUME NEW c \in Clients, WriterTakes(c) PROVE TypeOK'
    <2>1. out[c] \in Seq(Frame) /\ out[c] # <<>>
        BY <1>9 DEF WriterTakes
    <2>2. Head(out[c]) \in Frame /\ Tail(out[c]) \in Seq(Frame)
        BY <2>1
    <2> QED
        BY <1>9, <2>2 DEF WriterTakes
<1>10. ASSUME NEW c \in Clients, WriteFails(c) PROVE TypeOK'
    BY <1>10 DEF WriteFails
<1>11. ASSUME NEW t \in Threads, PumpBegin(t) PROVE TypeOK'
    BY <1>11 DEF PumpBegin
<1>12. ASSUME NEW t \in Threads, PumpNext(t) PROVE TypeOK'
    <2> DEFINE row == last[t] + 1
    <2>1. row \in Nat \ {0}
        OBVIOUS
    <2>2. Broadcast(row)
        BY <1>12 DEF PumpNext
    <2>3. subs' \subseteq Clients /\ out' \in [Clients -> Seq(Frame)] /\ dropped' \in [Clients -> Nat]
        BY <2>1, <2>2, BroadcastType
    <2>4. watermark' \in Nat /\ last' \in [Threads -> Nat]
        BY <1>12, <2>1 DEF PumpNext
    <2> QED
        BY <1>12, <2>3, <2>4 DEF PumpNext
<1>13. ASSUME NEW t \in Threads, PumpEnd(t) PROVE TypeOK'
    BY <1>13 DEF PumpEnd, Readers, Live
<1>14. CASE WriteOutside
    BY <1>14 DEF WriteOutside
<1>15. CASE Stop
    BY <1>15 DEF Stop
<1>16. CASE Loop
    <2>1. Iteration
        BY <1>16 DEF Loop, Leave, Accept, Reject, NoneWaits
    <2>2. /\ subs' \subseteq Clients /\ out' \in [Clients -> Seq(Frame)] /\ dropped' \in [Clients -> Nat]
          /\ UNCHANGED <<log, watermark, pumping, last, upto, sending, failed, client, wire, asked, seen, applied>>
        BY <2>1, FlushType DEF Iteration
    <2>3. /\ stopping' \in BOOLEAN /\ daemon' \in {"serving", "draining", "gone"}
          /\ reader' \in [Clients -> Readers]
          /\ told' \in [Clients -> {"nothing", "waiting", "answer", "refusal"}]
        BY <1>16 DEF Loop, Leave, Accept, Reject, NoneWaits, Readers, Live
    <2> QED
        BY <2>2, <2>3
<1>17. CASE Drain
    BY <1>17 DEF Drain
<1>18. CASE UNCHANGED vars
    BY <1>18 DEF vars
<1> QED
    BY <1>1, <1>2, <1>3, <1>4, <1>5, <1>6, <1>7, <1>8, <1>9, <1>10, <1>11, <1>12, <1>13, <1>14, <1>15, <1>16,
       <1>17, <1>18 DEF Next, Pumping

-----------------------------------------------------------------------------
(* Theorems *)

\* Whoever is inside the pump is there alone, and what it has still to broadcast
\* begins where the watermark is.
LEMMA PumpStep ==
    ASSUME IInv, [Next]_vars
    PROVE  PumpInv'
<1>1. PumpInv /\ TypeOK
    BY DEF IInv
<1>2. ASSUME UNCHANGED <<watermark, pumping, last, upto>>, log' >= log, log' \in Nat,
             \A c \in Clients : reader[c] = "pump" => reader'[c] = "pump"
      PROVE  PumpInv'
    BY <1>1, <1>2 DEF PumpInv, TypeOK, Threads
<1>3. ASSUME NEW t \in Threads, PumpBegin(t)
      PROVE  PumpInv'
    BY <1>1, <1>3 DEF PumpInv, TypeOK, PumpBegin, LockIsFree
<1>4. ASSUME NEW t \in Threads, PumpNext(t)
      PROVE  PumpInv'
    <2>1. pumping = {t} /\ last[t] = watermark /\ last[t] < upto[t] /\ upto[t] <= log
        BY <1>1, <1>4 DEF PumpInv, PumpNext
    <2>2. watermark' = watermark + 1 /\ last'[t] = watermark + 1
        BY <1>1, <1>4, <2>1 DEF TypeOK, PumpNext
    <2>3. UNCHANGED <<log, upto, pumping, reader>>
        BY <1>4 DEF PumpNext
    <2>4. watermark + 1 <= upto[t] /\ watermark + 1 <= log
        BY <1>1, <2>1 DEF TypeOK
    <2> QED
        BY <1>1, <2>1, <2>2, <2>3, <2>4 DEF PumpInv
<1>5. ASSUME NEW t \in Threads, PumpEnd(t)
      PROVE  PumpInv'
    <2>1. pumping' = {} /\ UNCHANGED <<log, watermark>>
        BY <1>1, <1>5 DEF PumpInv, PumpEnd
    <2> QED
        BY <1>1, <2>1 DEF PumpInv
<1>6. ASSUME NEW c \in Clients, NEW to \in Readers, reader' = [reader EXCEPT ![c] = to], reader[c] # "pump"
      PROVE  \A d \in Clients : reader[d] = "pump" => reader'[d] = "pump"
    BY <1>1, <1>6 DEF TypeOK
<1>7. ASSUME NEW c \in Clients,
             \/ Connect(c) \/ TimedOut(c) \/ IdleOut(c) \/ Eof(c) \/ Done(c)
      PROVE  PumpInv'
    <2>1. UNCHANGED <<watermark, pumping, last, upto, log>>
        BY <1>7 DEF Connect, TimedOut, IdleOut, Eof, Done, pumpVars
    <2>2. \E to \in Readers : reader' = [reader EXCEPT ![c] = to] /\ reader[c] # "pump"
        BY <1>7 DEF Connect, TimedOut, IdleOut, Eof, Done, Parked, Ends, Readers, Live
    <2> QED
        BY <1>1, <1>2, <1>6, <2>1, <2>2 DEF TypeOK
<1>8. ASSUME NEW c \in Clients, Read(c)
      PROVE  PumpInv'
    <2>1. UNCHANGED <<watermark, pumping, last, upto>>
        BY <1>8 DEF Read, pumpVars
    <2>2. log' \in Nat /\ log' >= log
        BY <1>1, <1>8 DEF Read, TypeOK
    <2>3. \E to \in Readers : reader' = [reader EXCEPT ![c] = to] /\ reader[c] # "pump"
        BY <1>8 DEF Read, Readers, Live
    <2> QED
        BY <1>2, <1>6, <2>1, <2>2, <2>3
<1>9. ASSUME NEW c \in Clients, Send(c)
      PROVE  PumpInv'
    <2>1. UNCHANGED <<watermark, pumping, last, upto, log>>
        BY <1>9 DEF Send, pumpVars
    <2>2. \A d \in Clients : reader[d] = "pump" => reader'[d] = "pump"
        BY <1>1, <1>9 DEF Send, Ends, TypeOK
    <2> QED
        BY <1>1, <1>2, <2>1, <2>2 DEF TypeOK
<1>10. ASSUME NEW c \in Clients,
              \/ Take(c) \/ WriterTakes(c) \/ WriteFails(c)
              \/ \E what \in {"write", "subscribe"} : Ask(c, what)
              \/ \E how \in {"stalled", "left"} : GiveUp(c, how)
       PROVE  PumpInv'
    <2>1. UNCHANGED <<watermark, pumping, last, upto, log, reader>>
        BY <1>10 DEF Take, WriterTakes, WriteFails, Ask, GiveUp, pumpVars
    <2> QED
        BY <1>1, <1>2, <2>1 DEF TypeOK
<1>11. CASE WriteOutside \/ Stop \/ Drain \/ UNCHANGED vars
    <2>1. UNCHANGED <<watermark, pumping, last, upto, reader>> /\ log' \in Nat /\ log' >= log
        BY <1>1, <1>11 DEF WriteOutside, Stop, Drain, vars, pumpVars, TypeOK
    <2> QED
        BY <1>2, <2>1
<1>12. CASE Loop
    <2>1. UNCHANGED <<watermark, pumping, last, upto, log>>
        BY <1>12 DEF Loop, Leave, Accept, Reject, NoneWaits, Iteration, pumpVars
    <2>2. \A d \in Clients : reader[d] = "pump" => reader'[d] = "pump"
        BY <1>1, <1>12 DEF Loop, Leave, Accept, Reject, NoneWaits, TypeOK
    <2> QED
        BY <1>1, <1>2, <2>1, <2>2 DEF TypeOK
<1> QED
    BY <1>3, <1>4, <1>5, <1>7, <1>8, <1>9, <1>10, <1>11, <1>12 DEF Next, Pumping

LEMMA Initially == Init => IInv
<1> SUFFICES ASSUME Init PROVE IInv
    OBVIOUS
<1>1. TypeOK
    <2>1. <<>> \in Seq(Frame) /\ {} \subseteq Threads
        OBVIOUS
    <2> QED
        BY <2>1 DEF Init, TypeOK, Readers
<1>2. PumpInv
    BY DEF Init, PumpInv
<1>3. ASSUME NEW c \in Clients
      PROVE  StreamInv(c) /\ AnswerInv(c)
    <2>1. Frames(c) = <<>> /\ NoAnswer(<<>>) /\ Unbroken(<<>>, 0) /\ Lead(<<>>, 0) = 0
        BY <1>3, NoFrames DEF Init, Frames, NoAnswer
    <2>2. /\ seen[c] = 0 /\ c \notin subs /\ ~failed[c] /\ reader[c] = "away" /\ wire[c] = "none"
          /\ told[c] = "nothing" /\ ~applied[c]
        BY <1>3 DEF Init
    <2>3. StreamInv(c)
        BY <2>1, <2>2 DEF StreamInv, Streams
    <2>4. AnswerInv(c)
        BY <2>1, <2>2 DEF AnswerInv, Answers, Open
    <2> QED
        BY <2>3, <2>4
<1> QED
    BY <1>1, <1>2, <1>3 DEF IInv

LEMMA Inductive == IInv /\ [Next]_vars => IInv'
<1> SUFFICES ASSUME IInv, [Next]_vars PROVE IInv'
    OBVIOUS
<1>1. TypeOK' /\ PumpInv'
    BY TypeStep, PumpStep
<1>2. ASSUME NEW d \in Clients
      PROVE  StreamInv(d)' /\ AnswerInv(d)'
    <2>1. CASE \E c \in Clients : Connect(c)
        BY <2>1, ConnectSafe
    <2>2. CASE \E c \in Clients : Take(c)
        BY <2>2, TakeSafe
    <2>3. CASE \E c \in Clients, what \in {"write", "subscribe"} : Ask(c, what)
        BY <2>3, AskSafe
    <2>4. CASE \E c \in Clients, how \in {"stalled", "left"} : GiveUp(c, how)
        BY <2>4, GiveUpSafe
    <2>5. CASE \E c \in Clients : Read(c)
        BY <2>5, ReadSafe
    <2>6. CASE \E c \in Clients : Send(c)
        BY <2>6, SendSafe
    <2>7. CASE \E c \in Clients : TimedOut(c) \/ IdleOut(c) \/ Eof(c)
        BY <2>7, PartSafe
    <2>8. CASE \E c \in Clients : Done(c)
        BY <2>8, DoneSafe
    <2>9. CASE \E c \in Clients : WriterTakes(c)
        BY <2>9, WriterSafe
    <2>10. CASE \E c \in Clients : WriteFails(c)
        BY <2>10, FailsSafe
    <2>11. CASE \E t \in Threads : PumpBegin(t) \/ PumpNext(t) \/ PumpEnd(t)
        BY <2>11, PumpSafe
    <2>12. CASE Loop
        BY <2>12, LoopSafe
    <2>13. CASE WriteOutside \/ Stop \/ Drain \/ UNCHANGED vars
        BY <2>13, OthersSafe
    <2> QED
        BY <2>1, <2>2, <2>3, <2>4, <2>5, <2>6, <2>7, <2>8, <2>9, <2>10, <2>11, <2>12, <2>13 DEF Next, Pumping
<1> QED
    BY <1>1, <1>2 DEF IInv

\* Once the daemon is gone, a client that reads has been told of what was done:
\* the drain waits for all that would tell it, and nothing is done any more.
NothingOwed ==
    daemon = "gone" =>
        \A c \in Clients : client[c] = "reading" /\ applied[c] => told[c] = "answer"

LEMMA GoneStep == IInv /\ NothingOwed /\ [Next]_vars => NothingOwed'
<1> SUFFICES ASSUME IInv, NothingOwed, [Next]_vars, daemon' = "gone",
                    NEW c \in Clients, client'[c] = "reading", applied'[c]
             PROVE  told'[c] = "answer"
    BY DEF NothingOwed
<1>1. CASE daemon = "gone"
    <2>1. applied' = applied /\ told' = told /\ \A d \in Clients : client'[d] = "reading" => client[d] = "reading"
        <3>1. \/ \E d \in Clients, how \in {"stalled", "left"} : GiveUp(d, how)
              \/ WriteOutside \/ Stop \/ UNCHANGED vars
            BY <1>1 DEF Next, Pumping, Connect, Take, Ask, Read, Send, TimedOut, IdleOut, Eof, Parked, Done,
                        WriterTakes, WriteFails, PumpNext, PumpEnd, PumpBegin, Loop, Leave, Accept, Reject,
                        NoneWaits, Iteration, Drain
        <3>2. ASSUME NEW d \in Clients, NEW how \in {"stalled", "left"}, GiveUp(d, how)
              PROVE  applied' = applied /\ told' = told
                     /\ \A e \in Clients : client'[e] = "reading" => client[e] = "reading"
            BY <3>2 DEF GiveUp, IInv, TypeOK
        <3>3. CASE WriteOutside \/ Stop \/ UNCHANGED vars
            BY <3>3 DEF WriteOutside, Stop, vars, clientVars
        <3> QED
            BY <3>1, <3>2, <3>3
    <2> QED
        BY <1>1, <2>1 DEF NothingOwed
<1>2. CASE daemon # "gone"
    <2>1. Drain
        BY <1>2 DEF Next, Pumping, Connect, Take, Ask, GiveUp, Read, Send, TimedOut, IdleOut, Eof, Done,
                    WriterTakes, WriteFails, PumpNext, PumpEnd, PumpBegin, Loop, Leave, Accept, Reject,
                    NoneWaits, Iteration, WriteOutside, Stop, vars
    <2>2. client[c] = "reading" /\ applied[c] /\ told' = told /\ Abandonable(c) /\ reader[c] \in Readers
        BY <2>1 DEF Drain, clientVars, IInv, TypeOK
    <2>3. AnswerInv(c) /\ NoAnswer(<<>>)
        BY DEF IInv, NoAnswer
    <2>4. CASE reader[c] \notin Live
        <3>1. Frames(c) = <<>>
            BY <2>2, <2>3, <2>4 DEF AnswerInv, Answers, Readers
        <3> QED
            BY <2>2, <2>3, <2>4, <3>1 DEF AnswerInv, Answers, Live
    <2>5. CASE reader[c] = "reading" /\ wire[c] = "none" /\ Frames(c) = <<>>
        BY <2>2, <2>3, <2>5 DEF AnswerInv, Answers
    <2> QED
        BY <2>2, <2>4, <2>5 DEF Abandonable
<1> QED
    BY <1>1, <1>2

\* Every variable keeps its type, whatever the clients, the limits and the queue.
THEOREM DaemonTypeCorrect == Spec => []TypeOK
<1>1. IInv => TypeOK
    BY DEF IInv
<1> QED
    BY <1>1, Initially, Inductive, PTL DEF Spec

\* The hub tells a subscriber of every event broadcast since it subscribed, once
\* and in order, or that it was lost, at the place where it was: for any clients,
\* any queue bound and any length of the log, because only one thread is ever in
\* the pump and whoever it is goes on from the watermark.
THEOREM StreamIsWholeCorrect == Spec => []StreamIsWhole
<1>1. IInv => StreamIsWhole
    BY DEF IInv, StreamInv, Streams, StreamIsWhole
<1> QED
    BY <1>1, Initially, Inductive, PTL DEF Spec

\* A request that is refused was not applied, and one that was applied is
\* answered before the connection ends or the daemon exits.
THEOREM AnswerIsTrueCorrect == Spec => []AnswerIsTrue
<1>1. IInv /\ NothingOwed => AnswerIsTrue
    <2> SUFFICES ASSUME IInv, NothingOwed, NEW c \in Clients
                 PROVE  /\ told[c] = "refusal" => ~applied[c]
                        /\ client[c] = "reading" /\ applied[c] /\ (daemon = "gone" \/ reader[c] = "done")
                            => told[c] = "answer"
        BY DEF AnswerIsTrue
    <2>1. AnswerInv(c) /\ NoAnswer(<<>>)
        BY DEF IInv, NoAnswer
    <2>2. told[c] = "refusal" => ~applied[c]
        BY <2>1 DEF AnswerInv, Answers
    <2>3. CASE daemon = "gone"
        BY <2>2, <2>3 DEF NothingOwed
    <2>4. CASE reader[c] = "done"
        <3>1. Frames(c) = <<>>
            BY <2>1, <2>4 DEF AnswerInv, Answers
        <3> QED
            BY <2>1, <2>2, <2>4, <3>1 DEF AnswerInv, Answers
    <2> QED
        BY <2>2, <2>3, <2>4
<1>2. Init => NothingOwed
    BY DEF Init, NothingOwed
<1> QED
    BY <1>1, <1>2, Initially, Inductive, GoneStep, PTL DEF Spec

=============================================================================
