------------------------ MODULE FrameHandling_proofs ------------------------
(***************************************************************************)
(* FrameHandling's properties, for any sequence of messages and failures.   *)
(***************************************************************************)
EXTENDS FrameHandling, TLAPS

\* The step s is still to come.
Occurs(s, q) == \E k \in 1..Len(q) : q[k] = s

\* No ignition is written after a position.
IgnitionFirst(q) ==
    \A k, l \in 1..Len(q) : q[k] = "position" /\ q[l] = "ignition" => l < k

LEMMA OccursConcat ==
    ASSUME NEW p \in Seq(Steps), NEW q \in Seq(Steps), NEW s
    PROVE  p \o q \in Seq(Steps) /\ (Occurs(s, p \o q) <=> Occurs(s, p) \/ Occurs(s, q))
<1>1. p \o q \in Seq(Steps) /\ Len(p \o q) = Len(p) + Len(q)
    OBVIOUS
<1>2. ASSUME Occurs(s, p \o q) PROVE Occurs(s, p) \/ Occurs(s, q)
    <2>1. PICK k \in 1..Len(p \o q) : (p \o q)[k] = s
        BY <1>2 DEF Occurs
    <2>2. CASE k <= Len(p)
        BY <1>1, <2>1, <2>2 DEF Occurs
    <2>3. CASE k > Len(p)
        <3>1. k - Len(p) \in 1..Len(q) /\ q[k - Len(p)] = s
            BY <1>1, <2>1, <2>3
        <3> QED BY <3>1 DEF Occurs
    <2> QED BY <2>2, <2>3
<1>3. ASSUME Occurs(s, p) PROVE Occurs(s, p \o q)
    <2>1. PICK k \in 1..Len(p) : p[k] = s
        BY <1>3 DEF Occurs
    <2>2. k \in 1..Len(p \o q) /\ (p \o q)[k] = s
        BY <1>1, <2>1
    <2> QED BY <2>2 DEF Occurs
<1>4. ASSUME Occurs(s, q) PROVE Occurs(s, p \o q)
    <2>1. PICK k \in 1..Len(q) : q[k] = s
        BY <1>4 DEF Occurs
    <2>2. k + Len(p) \in 1..Len(p \o q) /\ (p \o q)[k + Len(p)] = s
        BY <1>1, <2>1
    <2> QED BY <2>2 DEF Occurs
<1> QED BY <1>1, <1>2, <1>3, <1>4

LEMMA OccursTail ==
    ASSUME NEW q \in Seq(Steps), q # <<>>, NEW s
    PROVE  /\ Tail(q) \in Seq(Steps) /\ Head(q) \in Steps
           /\ Occurs(s, q) <=> (s = Head(q) \/ Occurs(s, Tail(q)))
<1>1. /\ Tail(q) \in Seq(Steps) /\ Len(Tail(q)) = Len(q) - 1 /\ Len(q) \in Nat \ {0}
      /\ Head(q) = q[1] /\ q[1] \in Steps
    OBVIOUS
<1>2. ASSUME Occurs(s, q), s # Head(q) PROVE Occurs(s, Tail(q))
    <2>1. PICK k \in 1..Len(q) : q[k] = s
        BY <1>2 DEF Occurs
    <2>2. k - 1 \in 1..Len(Tail(q)) /\ Tail(q)[k - 1] = s
        BY <1>1, <1>2, <2>1
    <2> QED BY <2>2 DEF Occurs
<1>3. ASSUME Occurs(s, Tail(q)) PROVE Occurs(s, q)
    <2>1. PICK k \in 1..Len(Tail(q)) : Tail(q)[k] = s
        BY <1>3 DEF Occurs
    <2>2. k + 1 \in 1..Len(q) /\ q[k + 1] = s
        BY <1>1, <2>1
    <2> QED BY <2>2 DEF Occurs
<1>4. s = Head(q) => Occurs(s, q)
    BY <1>1 DEF Occurs
<1> QED BY <1>1, <1>2, <1>3, <1>4

LEMMA LastOfTail ==
    ASSUME NEW q \in Seq(Steps), q # <<>>, Len(q) # 1
    PROVE  Tail(q) # <<>> /\ Tail(q)[Len(Tail(q))] = q[Len(q)]
<1>1. /\ Tail(q) \in Seq(Steps) /\ Len(Tail(q)) = Len(q) - 1 /\ Len(q) \in Nat \ {0}
      /\ \A k \in 1..Len(q) - 1 : Tail(q)[k] = q[k + 1]
    OBVIOUS
<1>2. ASSUME NEW p, p = <<>> PROVE Len(p) = 0
    BY <1>2
<1>3. Tail(q) # <<>>
    <2>1. Len(Tail(q)) # 0
        BY <1>1
    <2> QED BY <1>2, <2>1, Zenon
<1> QED BY <1>1, <1>3

LEMMA OccursOne ==
    ASSUME NEW c \in BOOLEAN, NEW a \in Steps, NEW s
    PROVE  /\ <<>> \in Seq(Steps) /\ ~Occurs(s, <<>>)
           /\ <<a>> \in Seq(Steps) /\ (Occurs(s, <<a>>) <=> s = a)
           /\ If(c, a) \in Seq(Steps) /\ (Occurs(s, If(c, a)) <=> c /\ s = a)
<1>1. <<>> \in Seq(Steps) /\ ~Occurs(s, <<>>)
    BY DEF Occurs
<1>2. <<a>> \in Seq(Steps) /\ (Occurs(s, <<a>>) <=> s = a)
    BY DEF Occurs
<1> QED BY <1>1, <1>2 DEF If

LEMMA OccursTwo ==
    ASSUME NEW a \in Steps, NEW b \in Steps, NEW s
    PROVE  <<a, b>> \in Seq(Steps) /\ (Occurs(s, <<a, b>>) <=> s \in {a, b})
<1>1. <<a, b>> \in Seq(Steps) /\ Len(<<a, b>>) = 2
    OBVIOUS
<1> QED BY <1>1 DEF Occurs

LEMMA OccursThree ==
    ASSUME NEW a \in Steps, NEW b \in Steps, NEW c \in Steps, NEW s
    PROVE  <<a, b, c>> \in Seq(Steps) /\ (Occurs(s, <<a, b, c>>) <=> s \in {a, b, c})
<1>1. <<a, b, c>> \in Seq(Steps) /\ Len(<<a, b, c>>) = 3
    OBVIOUS
<1> QED BY <1>1 DEF Occurs

\* What the properties need to know of a message.
LEMMA MessageFacts ==
    ASSUME NEW m \in Messages
    PROVE  /\ m.family \in {"GT06", "GPS103"} /\ m.ignition \in {"on", "off", None}
           /\ m.family = "GT06" =>
                 /\ m.kind \in {"login", "location", "status", "heartbeat", "alarm", "config",
                                "cmdack", "response", "unknown"}
                 /\ m.alarm = None /\ m.values \in BOOLEAN
                 /\ m.kind = "alarm" => m.fix \in {"good", "zero", "fast", "impossible"}
                 /\ m.kind \in {"status", "heartbeat"} => m.ignition # None
           /\ m.family = "GPS103" =>
                 /\ m.kind \in {"login", "heartbeat", "tracker", "unknown"}
                 /\ m.kind # "tracker" => m.alarm = None /\ m.ignition = None
<1>1. ASSUME m \in Gt06Frames
      PROVE  /\ m.family = "GT06" /\ m.ignition \in {"on", "off", None}
             /\ m.kind \in {"login", "location", "status", "heartbeat", "alarm", "config",
                            "cmdack", "response", "unknown"}
             /\ m.alarm = None /\ m.values \in BOOLEAN
             /\ m.kind = "alarm" => m.fix \in {"good", "zero", "fast", "impossible"}
             /\ m.kind \in {"status", "heartbeat"} => m.ignition # None
    BY <1>1, NoneAssumption DEF Gt06Frames, Plain
<1>2. ASSUME m \in Gps103Messages
      PROVE  /\ m.family = "GPS103" /\ m.ignition \in {"on", "off", None}
             /\ m.kind \in {"login", "heartbeat", "tracker", "unknown"}
             /\ m.kind # "tracker" => m.alarm = None /\ m.ignition = None
    <2>1. CASE m \in {parse_tracker(r) : r \in Reports}
        <3>1. PICK r \in Reports : m = parse_tracker(r)
            BY <2>1
        <3>2. m.family = "GPS103" /\ m.kind = "tracker"
            BY <3>1 DEF parse_tracker
        <3>3. m.ignition \in {"on", "off", None}
            BY <3>1 DEF parse_tracker
        <3> QED BY <3>2, <3>3
    <2>2. CASE m \in Plain("GPS103", {"login", "heartbeat", "unknown"}, {"none"}, {None}, {FALSE})
        BY <2>2 DEF Plain
    <2> QED BY <1>2, <2>1, <2>2 DEF Gps103Messages
<1> QED BY <1>1, <1>2 DEF Messages

\* A GT06 plan ends with the acknowledgement.
LEMMA Gt06PlanFacts ==
    ASSUME NEW m \in Messages, m.family = "GT06", NEW stored \in BOOLEAN,
           NEW q, q = Gt06Plan(m, stored)
    PROVE  /\ q \in Seq(Steps) /\ q # <<>> /\ q[Len(q)] = "ack"
           /\ Occurs("position", q) => m.fix \in {"good", "zero"}
           /\ ~Occurs("ignition", q)
           /\ Occurs("status", q) => m.ignition \in {"on", "off"}
           /\ m.kind = "alarm" => Occurs("event", q)
<1> DEFINE raw == If(stored, "raw")
           S == Seq(Steps)
           OK(p) == /\ p \in S
                    /\ Occurs("position", p) => m.fix \in {"good", "zero"}
                    /\ ~Occurs("ignition", p)
                    /\ Occurs("status", p) => m.ignition \in {"on", "off"}
<1>1. OK(<<>>) /\ OK(raw) /\ ~Occurs("event", raw)
    BY OccursOne DEF Steps
<1>2. ASSUME NEW a \in Steps, a \notin {"position", "ignition", "status"} PROVE OK(<<a>>)
    BY <1>2, OccursOne
<1>3. ASSUME NEW p, NEW r, OK(p), OK(r) PROVE OK(p \o r)
    BY <1>3, OccursConcat
<1>4. {"parse", "vehicle", "event", "heartbeat", "response", "ack"}
          \subseteq Steps \ {"position", "ignition", "status"}
    BY DEF Steps
<1>5. OK(<<"parse">>) /\ OK(<<"ack">>)
    BY <1>2, <1>4
<1>6. ASSUME NEW p, OK(p), q = p \o <<"ack">>, m.kind = "alarm" => Occurs("event", p)
      PROVE  OK(q) /\ q # <<>> /\ q[Len(q)] = "ack" /\ (m.kind = "alarm" => Occurs("event", q))
    <2>1. p \in Seq(Steps) /\ <<"ack">> \in Seq(Steps) /\ q = p \o <<"ack">>
        BY <1>5, <1>6
    <2>2. Len(q) = Len(p) + 1 /\ q[Len(p) + 1] = "ack" /\ Len(p) \in Nat
        <3> HIDE DEF OK
        <3> QED BY <2>1
    <2>3. m.kind = "alarm" => Occurs("event", q)
        <3> HIDE DEF OK
        <3>1. Occurs("event", p \o <<"ack">>) <=> Occurs("event", p) \/ Occurs("event", <<"ack">>)
            BY <2>1, OccursConcat
        <3> QED BY <1>6, <2>1, <3>1
    <2>4. OK(p \o <<"ack">>)
        BY <1>3, <1>5, <1>6
    <2>5. q # <<>>
        BY <2>2
    <2> HIDE DEF OK
    <2> QED BY <2>1, <2>2, <2>3, <2>4, <2>5
<1>7. m.kind \in {"login", "location", "status", "heartbeat", "alarm", "config",
                    "cmdack", "response", "unknown"} /\ m.values \in BOOLEAN
      /\ (m.kind \in {"status", "heartbeat"} => m.ignition \in {"on", "off"})
    BY MessageFacts
<1>8. /\ OK(<<"vehicle", "event">>) /\ Occurs("event", <<"vehicle", "event">>)
      /\ OK(<<"parse", "response">>)
    <2>1. ASSUME NEW a \in Steps, NEW b \in Steps,
                 a \notin {"position", "ignition", "status"}, b \notin {"position", "ignition", "status"}
          PROVE  OK(<<a, b>>) /\ Occurs(b, <<a, b>>)
        BY <2>1, OccursTwo
    <2> HIDE DEF OK
    <2> QED BY <1>4, <2>1
<1>9. CASE m.kind \in {"login", "alarm"}
    <2> DEFINE p == <<"parse">> \o raw \o <<"vehicle", "event">>
    <2>1. q = p \o <<"ack">>
        BY <1>9 DEF Gt06Plan
    <2>2. OK(<<"parse">> \o raw)
        BY <1>1, <1>3, <1>5
    <2>3. OK(p) /\ Occurs("event", p)
        BY <1>3, <1>8, <2>2, OccursConcat
    <2> HIDE DEF p
    <2> QED BY <1>6, <2>1, <2>3
<1>10. CASE m.kind = "location"
    <2> DEFINE p == <<"parse">> \o (IF InBounds(m) THEN raw \o <<"position">> ELSE <<>>)
    <2>1. q = p \o <<"ack">>
        BY <1>10 DEF Gt06Plan
    <2>2. InBounds(m) => OK(<<"position">>)
        BY OccursOne DEF Steps, InBounds
    <2>3. OK(IF InBounds(m) THEN raw \o <<"position">> ELSE <<>>)
        BY <1>1, <1>3, <2>2
    <2>4. OK(p)
        BY <1>3, <1>5, <2>3
    <2> HIDE DEF p
    <2> QED BY <1>6, <1>10, <2>1, <2>4
<1>11. CASE m.kind \in {"status", "heartbeat"}
    <2> DEFINE last == IF m.kind = "status" THEN <<"status">> ELSE <<"status", "heartbeat">>
               p == <<"parse">> \o raw \o last
    <2>1. q = p \o <<"ack">>
        BY <1>11 DEF Gt06Plan
    <2>2. OK(<<"status">>) /\ OK(<<"status", "heartbeat">>)
        <3>1. {"status", "heartbeat"} \subseteq Steps
            BY DEF Steps
        <3>2. OK(<<"status">>)
            BY <1>7, <1>11, <3>1, OccursOne
        <3>3. OK(<<"status", "heartbeat">>)
            BY <1>7, <1>11, <3>1, OccursTwo
        <3> QED BY <3>2, <3>3
    <2>3. OK(p)
        BY <1>1, <1>3, <1>5, <2>2
    <2> HIDE DEF p
    <2> QED BY <1>6, <1>11, <2>1, <2>3
<1>12. CASE m.kind = "config"
    <2> DEFINE p == raw \o <<"parse">> \o (IF m.values THEN <<"vehicle", "event">> ELSE <<>>)
    <2>1. q = p \o <<"ack">>
        BY <1>12 DEF Gt06Plan
    <2>2. OK(IF m.values THEN <<"vehicle", "event">> ELSE <<>>)
        BY <1>1, <1>8
    <2>3. OK(p)
        BY <1>1, <1>3, <1>5, <2>2
    <2> HIDE DEF p
    <2> QED BY <1>6, <1>12, <2>1, <2>3
<1>13. CASE m.kind \in {"cmdack", "response", "unknown"}
    <2> DEFINE p == IF m.kind = "cmdack" THEN raw \o <<"parse">>
                    ELSE IF m.kind = "response" THEN raw \o <<"parse", "response">> ELSE raw
    <2>1. q = p \o <<"ack">>
        BY <1>13 DEF Gt06Plan
    <2>2. OK(p)
        BY <1>1, <1>3, <1>5, <1>8
    <2> HIDE DEF p
    <2> QED BY <1>6, <1>13, <2>1, <2>2
<1> QED BY <1>7, <1>9, <1>10, <1>11, <1>12, <1>13

\* A position behind no ignition.
LEMMA IgnitionFirstConcat ==
    ASSUME NEW p \in Seq(Steps), NEW q \in Seq(Steps), ~Occurs("position", p), ~Occurs("ignition", q)
    PROVE  IgnitionFirst(p \o q)
<1> SUFFICES ASSUME NEW k \in 1..Len(p \o q), NEW l \in 1..Len(p \o q),
                    (p \o q)[k] = "position", (p \o q)[l] = "ignition"
             PROVE  l < k
    BY DEF IgnitionFirst
<1>1. k > Len(p)
    BY DEF Occurs
<1>2. l <= Len(p)
    <2>1. SUFFICES ASSUME l > Len(p) PROVE FALSE
        OBVIOUS
    <2>2. l - Len(p) \in 1..Len(q) /\ q[l - Len(p)] = "ignition"
        BY <2>1
    <2> QED BY <2>2 DEF Occurs
<1> QED BY <1>1, <1>2

\* A report is parsed, an SOS answered, the ignition written, then the rest.
LEMMA TrackerPlanFacts ==
    ASSUME NEW m, NEW stored \in BOOLEAN, NEW q, q = TrackerPlan(m, stored)
    PROVE  /\ q \in Seq(Steps) /\ IgnitionFirst(q)
           /\ Len(q) >= 1 /\ q[1] = "parse"
           /\ m.alarm = "SOS" => Len(q) >= 2 /\ q[2] = "reply"
           /\ Occurs("position", q) <=> m.fix = "good"
           /\ Occurs("ignition", q) <=> m.ignition # None
           /\ Occurs("event", q) <=> m.alarm # None
           /\ Occurs("raw", q) <=> stored
           /\ ~Occurs("status", q)
<1> DEFINE s1 == If(m.alarm = "SOS", "reply")
           s2 == If(stored, "raw")
           s3 == If(m.ignition # None, "ignition")
           s4 == If(m.alarm # None, "vehicle")
           s5 == If(position_ok(m), "position")
           s6 == If(m.alarm # None, "event")
           front == <<"parse">> \o s1 \o s2 \o s3
           back == s4 \o s5 \o s6
<1>0. {"parse", "reply", "raw", "ignition", "vehicle", "position", "event"} \subseteq Steps
    BY DEF Steps
<1>1. <<"parse">> \in Seq(Steps) /\ \A s : Occurs(s, <<"parse">>) <=> s = "parse"
    BY <1>0, OccursOne
<1>2. s1 \in Seq(Steps) /\ \A s : Occurs(s, s1) <=> m.alarm = "SOS" /\ s = "reply"
    BY <1>0, OccursOne
<1>3. s2 \in Seq(Steps) /\ \A s : Occurs(s, s2) <=> stored /\ s = "raw"
    BY <1>0, OccursOne
<1>4. s3 \in Seq(Steps) /\ \A s : Occurs(s, s3) <=> m.ignition # None /\ s = "ignition"
    BY <1>0, OccursOne
<1>5. s4 \in Seq(Steps) /\ \A s : Occurs(s, s4) <=> m.alarm # None /\ s = "vehicle"
    BY <1>0, OccursOne
<1>6. s5 \in Seq(Steps) /\ \A s : Occurs(s, s5) <=> m.fix = "good" /\ s = "position"
    BY <1>0, OccursOne DEF position_ok
<1>7. s6 \in Seq(Steps) /\ \A s : Occurs(s, s6) <=> m.alarm # None /\ s = "event"
    BY <1>0, OccursOne
<1>8. \/ m.alarm = "SOS" /\ s1 = <<"reply">>
      \/ m.alarm # "SOS" /\ s1 = <<>>
    BY DEF If
<1> HIDE DEF s1, s2, s3, s4, s5, s6
<1>9. /\ front \in Seq(Steps)
      /\ \A s : Occurs(s, front) <=> Occurs(s, <<"parse">>) \/ Occurs(s, s1) \/ Occurs(s, s2) \/ Occurs(s, s3)
    <2>1. /\ <<"parse">> \o s1 \in Seq(Steps)
          /\ \A s : Occurs(s, <<"parse">> \o s1) <=> Occurs(s, <<"parse">>) \/ Occurs(s, s1)
        BY <1>1, <1>2, OccursConcat
    <2>2. /\ <<"parse">> \o s1 \o s2 \in Seq(Steps)
          /\ \A s : Occurs(s, <<"parse">> \o s1 \o s2) <=> Occurs(s, <<"parse">> \o s1) \/ Occurs(s, s2)
        BY <2>1, <1>3, OccursConcat
    <2>3. /\ front \in Seq(Steps)
          /\ \A s : Occurs(s, front) <=> Occurs(s, <<"parse">> \o s1 \o s2) \/ Occurs(s, s3)
        BY <2>2, <1>4, OccursConcat
    <2> HIDE DEF front
    <2> QED BY <2>1, <2>2, <2>3
<1>10. /\ back \in Seq(Steps)
       /\ \A s : Occurs(s, back) <=> Occurs(s, s4) \/ Occurs(s, s5) \/ Occurs(s, s6)
    <2>1. /\ s4 \o s5 \in Seq(Steps)
          /\ \A s : Occurs(s, s4 \o s5) <=> Occurs(s, s4) \/ Occurs(s, s5)
        BY <1>5, <1>6, OccursConcat
    <2>2. /\ back \in Seq(Steps)
          /\ \A s : Occurs(s, back) <=> Occurs(s, s4 \o s5) \/ Occurs(s, s6)
        BY <2>1, <1>7, OccursConcat
    <2> HIDE DEF back
    <2> QED BY <2>1, <2>2
<1>11. q = front \o back
    BY <1>1, <1>2, <1>3, <1>4, <1>5, <1>6, <1>7 DEF TrackerPlan, s1, s2, s3, s4, s5, s6
<1>12. front[1] = "parse" /\ Len(front) >= 1 /\ (m.alarm = "SOS" => Len(front) >= 2 /\ front[2] = "reply")
    BY <1>1, <1>2, <1>3, <1>4, <1>8
<1> HIDE DEF front, back
<1>13. q \in Seq(Steps) /\ \A s : Occurs(s, q) <=> Occurs(s, front) \/ Occurs(s, back)
    BY <1>9, <1>10, <1>11, OccursConcat
<1>14. \A s : /\ Occurs(s, front) <=> \/ s = "parse" \/ (m.alarm = "SOS" /\ s = "reply")
                                      \/ (stored /\ s = "raw") \/ (m.ignition # None /\ s = "ignition")
              /\ Occurs(s, back) <=> \/ (m.alarm # None /\ s = "vehicle") \/ (m.fix = "good" /\ s = "position")
                                     \/ (m.alarm # None /\ s = "event")
    <2>1. TAKE s
    <2>2. Occurs(s, front) <=> \/ s = "parse" \/ (m.alarm = "SOS" /\ s = "reply")
                               \/ (stored /\ s = "raw") \/ (m.ignition # None /\ s = "ignition")
        BY <1>1, <1>2, <1>3, <1>4, <1>9, Zenon
    <2>3. Occurs(s, back) <=> \/ (m.alarm # None /\ s = "vehicle") \/ (m.fix = "good" /\ s = "position")
                              \/ (m.alarm # None /\ s = "event")
        BY <1>5, <1>6, <1>7, <1>10, Zenon
    <2> QED BY <2>2, <2>3
<1>15. IgnitionFirst(q)
    <2>1. ~Occurs("position", front) /\ ~Occurs("ignition", back)
        BY <1>14
    <2> QED BY <1>9, <1>10, <1>11, <2>1, IgnitionFirstConcat
<1>16. Len(q) >= 1 /\ q[1] = "parse" /\ (m.alarm = "SOS" => Len(q) >= 2 /\ q[2] = "reply")
    BY <1>9, <1>10, <1>11, <1>12
<1>17. /\ Occurs("position", q) <=> m.fix = "good"
       /\ Occurs("ignition", q) <=> m.ignition # None
    BY <1>13, <1>14
<1>18. /\ Occurs("event", q) <=> m.alarm # None
       /\ Occurs("raw", q) <=> stored
       /\ ~Occurs("status", q)
    BY <1>13, <1>14
<1> QED BY <1>13, <1>15, <1>16, <1>17, <1>18
-----------------------------------------------------------------------------
\* The statements a report must try.
Needed(s) ==
    \/ s = "event" /\ msg.alarm # None
    \/ s = "position" /\ msg.fix = "good"
    \/ s = "ignition" /\ msg.ignition # None
    \/ s = "raw" /\ mode # "off" /\ Rare(msg)

\* The answer to an SOS is given, or comes first, or the parser refused it.
SosOK ==
    \/ "reply" \in Tried
    \/ Tried = {} /\ Len(todo) >= 2 /\ todo[1] = "parse" /\ todo[2] = "reply"
    \/ Tried \subseteq {"parse"} /\ Len(todo) >= 1 /\ todo[1] = "reply"
    \/ Tried \subseteq {"parse"} /\ todo = <<>>

\* The ignition goes before the position, which then shows it.
IgnitionOK ==
    /\ IgnitionFirst(todo)
    /\ "position" \in done => ~Occurs("ignition", todo)
    /\ (msg.ignition # None /\ "ignition" \in done \ raised) =>
          /\ statusIgnition = msg.ignition
          /\ "position" \in done => liveIgnition = msg.ignition

IsTracker == msg.family = "GPS103" /\ msg.kind = "tracker"

HasAlarm == msg.kind = "alarm" \/ (msg.kind = "tracker" /\ msg.alarm # None)

\* What the rest of the plan is still good for.
PlanOK ==
    /\ "parse" \in raised => ~msg.wellformed
    /\ Occurs("position", todo) => msg.fix \in {"good", "zero"}
    /\ Occurs("ignition", todo) \/ Occurs("status", todo) => msg.ignition \in {"on", "off"}
    /\ msg.family = "GT06" => "ack" \in Tried \/ (todo # <<>> /\ todo[Len(todo)] = "ack")
    /\ HasAlarm /\ raised = {} => "event" \in done \/ Occurs("event", todo)
    /\ IsTracker => /\ msg.alarm = "SOS" => SosOK
                    /\ msg.wellformed => \A s \in Steps : Needed(s) => s \in Tried \/ Occurs(s, todo)
                    /\ IgnitionOK

FrameInv ==
    /\ TypeOK
    /\ msg = None => todo = <<>> /\ done = {} /\ raised = {}
    /\ msg # None => PlanOK

USE NoneAssumption, MessageAssumption

LEMMA Gps103PlanFacts ==
    ASSUME NEW m \in Messages, m.family = "GPS103", m.kind # "tracker", NEW stored \in BOOLEAN,
           NEW q, q = Gps103Plan(m, stored)
    PROVE  /\ q \in Seq(Steps)
           /\ ~Occurs("position", q) /\ ~Occurs("ignition", q) /\ ~Occurs("status", q)
<1> DEFINE OK(p) == /\ p \in Seq(Steps)
                    /\ ~Occurs("position", p) /\ ~Occurs("ignition", p) /\ ~Occurs("status", p)
<1>0. {"parse", "reply", "raw", "alive", "vehicle", "event"} \subseteq Steps
    BY DEF Steps
<1>1. m.kind \in {"login", "heartbeat", "unknown"}
    BY MessageFacts
<1>2. CASE m.kind = "login"
    <2>1. OK(<<"parse", "reply">>)
        BY <1>0, OccursTwo
    <2>2. OK(If(stored, "raw"))
        BY <1>0, OccursOne
    <2>3. OK(<<"alive", "vehicle", "event">>)
        BY <1>0, OccursThree
    <2>4. OK(<<"parse", "reply">> \o If(stored, "raw"))
        BY <2>1, <2>2, OccursConcat
    <2>5. OK(<<"parse", "reply">> \o If(stored, "raw") \o <<"alive", "vehicle", "event">>)
        BY <2>3, <2>4, OccursConcat
    <2> QED BY <1>2, <2>5 DEF Gps103Plan
<1>3. CASE m.kind = "heartbeat"
    <2>1. OK(<<"parse", "reply", "alive">>)
        BY <1>0, OccursThree
    <2> QED BY <1>3, <2>1 DEF Gps103Plan
<1>4. CASE m.kind = "unknown"
    <2>1. OK(<<>>)
        BY OccursOne DEF Steps
    <2> QED BY <1>4, <2>1 DEF Gps103Plan
<1> QED BY <1>1, <1>2, <1>3, <1>4

LEMMA ReceiveOK ==
    ASSUME FrameInv, NEW m \in Messages, Receive(m)
    PROVE  FrameInv'
<1>1. PICK stored \in should_store_raw(Rare(m)) :
         todo' = IF m.family = "GT06" THEN Gt06Plan(m, stored) ELSE Gps103Plan(m, stored)
    BY DEF Receive
<1>2. stored \in BOOLEAN /\ (mode # "off" /\ Rare(m) => stored)
    BY DEF should_store_raw
<1>3. /\ msg' = m /\ msg = None /\ done' = {} /\ raised' = {} /\ Tried' = {}
      /\ UNCHANGED <<mode, statusIgnition, liveIgnition, row>>
    BY DEF Receive, FrameInv, Tried
<1>4. CASE m.family = "GT06"
    <2>1. todo' = Gt06Plan(m, stored)
        BY <1>1, <1>4
    <2>2. /\ todo' \in Seq(Steps) /\ todo' # <<>> /\ todo'[Len(todo')] = "ack"
          /\ Occurs("position", todo') => m.fix \in {"good", "zero"}
          /\ ~Occurs("ignition", todo')
          /\ Occurs("status", todo') => m.ignition \in {"on", "off"}
          /\ m.kind = "alarm" => Occurs("event", todo')
        BY <1>2, <1>4, <2>1, Gt06PlanFacts
    <2>3. TypeOK'
        BY <1>3, <2>2 DEF FrameInv, TypeOK
    <2>4. PlanOK'
        BY <1>3, <1>4, <2>2, MessageFacts DEF PlanOK, HasAlarm, IsTracker, Occurs
    <2> QED BY <1>3, <2>3, <2>4 DEF FrameInv
<1>5. CASE m.family = "GPS103" /\ m.kind # "tracker"
    <2>1. todo' = Gps103Plan(m, stored)
        BY <1>1, <1>5
    <2>2. /\ todo' \in Seq(Steps)
          /\ ~Occurs("position", todo') /\ ~Occurs("ignition", todo') /\ ~Occurs("status", todo')
        BY <1>2, <1>5, <2>1, Gps103PlanFacts
    <2>3. TypeOK'
        BY <1>3, <2>2 DEF FrameInv, TypeOK
    <2>4. PlanOK'
        BY <1>3, <1>5, <2>2, MessageFacts DEF PlanOK, HasAlarm, IsTracker, Occurs
    <2> QED BY <1>3, <2>3, <2>4 DEF FrameInv
<1>6. CASE m.family = "GPS103" /\ m.kind = "tracker"
    <2>1. todo' = TrackerPlan(m, stored)
        BY <1>1, <1>6 DEF Gps103Plan
    <2>2. /\ todo' \in Seq(Steps) /\ IgnitionFirst(todo')
          /\ Len(todo') >= 1 /\ todo'[1] = "parse"
          /\ m.alarm = "SOS" => Len(todo') >= 2 /\ todo'[2] = "reply"
          /\ Occurs("position", todo') <=> m.fix = "good"
          /\ Occurs("ignition", todo') <=> m.ignition # None
          /\ Occurs("event", todo') <=> m.alarm # None
          /\ Occurs("raw", todo') <=> stored
          /\ ~Occurs("status", todo')
        BY <1>2, <2>1, TrackerPlanFacts
    <2>3. TypeOK'
        BY <1>3, <2>2 DEF FrameInv, TypeOK
    <2>4. SosOK' \/ m.alarm # "SOS"
        BY <1>3, <2>2 DEF SosOK
    <2>5. IgnitionOK'
        BY <1>3, <2>2 DEF IgnitionOK, IgnitionFirst, Occurs
    <2>6. ASSUME NEW s \in Steps, Needed(s)' PROVE Occurs(s, todo')
        BY <1>2, <1>3, <2>2, <2>6 DEF Needed, Rare
    <2>7. PlanOK'
        BY <1>3, <1>6, <2>2, <2>4, <2>5, <2>6, MessageFacts DEF PlanOK, HasAlarm, IsTracker, Occurs
    <2> QED BY <1>3, <2>3, <2>7 DEF FrameInv
<1> QED BY <1>4, <1>5, <1>6, MessageFacts

\* One step is over and the plan goes on behind it.
TailStep(step) ==
    /\ msg # None /\ todo # <<>> /\ step = Head(todo)
    /\ todo' = Tail(todo)
    /\ step = "parse" => msg.wellformed
    /\ \/ done' = done \cup {step} /\ raised' = raised /\ Apply(step)
       \/ /\ step # "parse" /\ done' = done /\ raised' = raised \cup {step}
          /\ Apply(step) \/ UNCHANGED <<statusIgnition, liveIgnition, row>>
    /\ UNCHANGED <<mode, msg>>

\* The effects of a step of the plan are of their types.
LEMMA ApplyTypes ==
    ASSUME FrameInv, msg # None, todo # <<>>, NEW step, step = Head(todo),
           Apply(step) \/ UNCHANGED <<statusIgnition, liveIgnition, row>>
    PROVE  /\ statusIgnition' \in {"on", "off"} /\ liveIgnition' \in {"on", "off"}
           /\ row' \in {"good", "zero", "null", None}
<1>1. msg \in Messages /\ todo \in Seq(Steps)
    BY DEF FrameInv, TypeOK
<1>2. Occurs(step, todo)
    BY <1>1, OccursTail
<1>3. step \in {"ignition", "status"} => msg.ignition \in {"on", "off"}
    BY <1>2 DEF FrameInv, PlanOK
<1>4. step = "position" => msg.fix \in {"good", "zero"}
    BY <1>2 DEF FrameInv, PlanOK
<1>5. EventPosition(msg) \in {"good", "zero", "null"}
    <2>1. CASE msg.kind = "alarm"
        <3>1. msg.fix \in {"good", "zero", "fast", "impossible"}
            BY <1>1, <2>1, MessageFacts
        <3>2. EventPosition(msg) = clean_coordinates(msg.fix)
            BY <2>1 DEF EventPosition
        <3> QED BY <3>1, <3>2 DEF clean_coordinates
    <2>2. CASE msg.kind # "alarm"
        BY <2>2 DEF EventPosition, position_ok, clean_coordinates
    <2> QED BY <2>1, <2>2
<1>6. CASE Apply(step)
    <2>1. statusIgnition' \in {"on", "off"} /\ liveIgnition' \in {"on", "off"}
        BY <1>3, <1>6 DEF Apply, FrameInv, TypeOK
    <2>2. row' \in {msg.fix, EventPosition(msg), row} /\ (row' = msg.fix => step = "position" \/ row' \in {row, EventPosition(msg)})
        BY <1>6 DEF Apply
    <2> QED BY <1>4, <1>5, <2>1, <2>2 DEF FrameInv, TypeOK
<1>7. CASE UNCHANGED <<statusIgnition, liveIgnition, row>>
    BY <1>7 DEF FrameInv, TypeOK
<1> QED BY <1>6, <1>7

LEMMA IgnitionStep ==
    ASSUME FrameInv, NEW step, TailStep(step), IsTracker
    PROVE  IgnitionOK'
<1>1. msg \in Messages /\ todo \in Seq(Steps) /\ done \subseteq Steps /\ raised \subseteq Steps /\ IgnitionOK
    BY DEF FrameInv, TypeOK, TailStep, PlanOK
<1>2. IgnitionFirst(todo')
    BY <1>1 DEF IgnitionOK, IgnitionFirst, TailStep
<1>3. Occurs("ignition", todo) <=> step = "ignition" \/ Occurs("ignition", todo')
    BY <1>1, OccursTail DEF TailStep
<1>4. step = "position" => ~Occurs("ignition", todo')
    <2> SUFFICES ASSUME step = "position", NEW l \in 1..Len(Tail(todo)), Tail(todo)[l] = "ignition"
                 PROVE  FALSE
        BY DEF Occurs, TailStep
    <2>1. l + 1 \in 1..Len(todo) /\ todo[l + 1] = "ignition" /\ 1 \in 1..Len(todo) /\ todo[1] = "position"
        BY <1>1 DEF TailStep
    <2>2. ~(l + 1 < 1)
        OBVIOUS
    <2> QED BY <1>1, <2>1, <2>2 DEF IgnitionOK, IgnitionFirst
<1>5. "position" \in done' => ~Occurs("ignition", todo')
    BY <1>1, <1>3, <1>4 DEF IgnitionOK, TailStep
<1>6. ~Occurs("status", todo) \/ msg.ignition \in {"on", "off"}
    BY DEF FrameInv, PlanOK, TailStep
<1>7. ASSUME msg.ignition # None, "ignition" \in done' \ raised'
      PROVE  statusIgnition' = msg.ignition /\ ("position" \in done' => liveIgnition' = msg.ignition)
    <2>1. CASE step = "ignition"
        <3>1. Apply(step) /\ "ignition" \in done' /\ "position" \notin done
            BY <1>1, <1>3, <1>7, <2>1 DEF TailStep, IgnitionOK
        <3>2. "position" \notin done'
            BY <2>1, <3>1 DEF TailStep
        <3> QED BY <2>1, <3>1, <3>2 DEF Apply
    <2>2. CASE step # "ignition"
        <3>1. "ignition" \in done \ raised
            BY <1>7, <2>2 DEF TailStep
        <3>2. statusIgnition = msg.ignition /\ ("position" \in done => liveIgnition = msg.ignition)
            BY <1>1, <1>7, <3>1 DEF IgnitionOK
        <3>3. CASE Apply(step)
            BY <3>2, <3>3, <2>2 DEF Apply, TailStep
        <3>4. CASE UNCHANGED <<statusIgnition, liveIgnition, row>> /\ done' = done
            BY <3>2, <3>4
        <3> QED BY <3>3, <3>4 DEF TailStep
    <2> QED BY <2>1, <2>2
<1>8. msg' = msg
    BY DEF TailStep
<1> QED BY <1>2, <1>5, <1>7, <1>8 DEF IgnitionOK

LEMMA SosStep ==
    ASSUME FrameInv, NEW step, TailStep(step), SosOK
    PROVE  SosOK'
<1>1. todo \in Seq(Steps) /\ Tried' = Tried \cup {step} /\ step = Head(todo) /\ todo # <<>>
    BY DEF FrameInv, TypeOK, TailStep, Tried
<1>2. CASE "reply" \in Tried
    BY <1>1, <1>2 DEF SosOK
<1>3. CASE Tried = {} /\ Len(todo) >= 2 /\ todo[1] = "parse" /\ todo[2] = "reply"
    <2>1. step = "parse" /\ Len(todo') >= 1 /\ todo'[1] = "reply"
        BY <1>1, <1>3 DEF TailStep
    <2> QED BY <1>1, <1>3, <2>1 DEF SosOK
<1>4. CASE Tried \subseteq {"parse"} /\ Len(todo) >= 1 /\ todo[1] = "reply"
    <2>1. step = "reply"
        BY <1>1, <1>4
    <2> QED BY <1>1, <2>1 DEF SosOK
<1> QED BY <1>1, <1>2, <1>3, <1>4 DEF SosOK

LEMMA TailStepOK ==
    ASSUME FrameInv, NEW step, TailStep(step)
    PROVE  FrameInv'
<1>1. msg \in Messages /\ todo \in Seq(Steps) /\ PlanOK /\ todo # <<>> /\ step = Head(todo)
    BY DEF FrameInv, TypeOK, TailStep
<1>2. todo' \in Seq(Steps) /\ step \in Steps
    BY <1>1, OccursTail DEF TailStep
<1>3. ASSUME NEW s PROVE Occurs(s, todo) <=> s = step \/ Occurs(s, todo')
    BY <1>1, OccursTail DEF TailStep
<1>4. /\ statusIgnition' \in {"on", "off"} /\ liveIgnition' \in {"on", "off"}
      /\ row' \in {"good", "zero", "null", None}
    BY <1>1, ApplyTypes DEF TailStep
<1>5. TypeOK'
    BY <1>1, <1>2, <1>4 DEF FrameInv, TypeOK, TailStep
<1>6. msg' = msg /\ mode' = mode /\ Tried' = Tried \cup {step}
    BY DEF TailStep, Tried
<1>7. "parse" \in raised' => ~msg.wellformed
    BY <1>1 DEF PlanOK, TailStep
<1>8. /\ Occurs("position", todo') => msg.fix \in {"good", "zero"}
      /\ Occurs("ignition", todo') \/ Occurs("status", todo') => msg.ignition \in {"on", "off"}
    BY <1>1, <1>3 DEF PlanOK
<1>9. msg.family = "GT06" => "ack" \in Tried' \/ (todo' # <<>> /\ todo'[Len(todo')] = "ack")
    <2>1. CASE "ack" \in Tried
        BY <1>6, <2>1
    <2>2. CASE todo[Len(todo)] = "ack" /\ Len(todo) = 1
        BY <1>1, <1>6, <2>2
    <2>3. CASE todo[Len(todo)] = "ack" /\ Len(todo) # 1
        BY <1>1, <2>3, LastOfTail DEF TailStep
    <2> QED BY <1>1, <2>1, <2>2, <2>3 DEF PlanOK
<1>10. HasAlarm /\ raised' = {} => "event" \in done' \/ Occurs("event", todo')
    BY <1>1, <1>3 DEF PlanOK, TailStep
<1>11. IsTracker /\ msg.wellformed => \A s \in Steps : Needed(s) => s \in Tried' \/ Occurs(s, todo')
    BY <1>1, <1>3, <1>6 DEF PlanOK
<1>12. IsTracker => IgnitionOK' /\ (msg.alarm = "SOS" => SosOK')
    BY <1>1, IgnitionStep, SosStep DEF PlanOK
<1>13. (IsTracker' <=> IsTracker) /\ (HasAlarm' <=> HasAlarm) /\ \A s : Needed(s)' <=> Needed(s)
    BY <1>6 DEF IsTracker, HasAlarm, Needed
<1>14. PlanOK'
    BY <1>6, <1>7, <1>8, <1>9, <1>10, <1>11, <1>12, <1>13 DEF PlanOK
<1> QED BY <1>1, <1>5, <1>6, <1>14 DEF FrameInv

\* A step raises and the rest of the branch is skipped.
LEMMA AbortOK ==
    ASSUME FrameInv, StepFails,
           \/ msg.family = "GT06" /\ Head(todo) # "ack"
           \/ msg.family = "GPS103" /\ Head(todo) = "parse"
    PROVE  FrameInv'
<1>1. msg \in Messages /\ todo \in Seq(Steps) /\ PlanOK /\ todo # <<>>
    BY DEF FrameInv, TypeOK, StepFails
<1>2. Head(todo) \in Steps /\ Head(todo) = todo[1]
    BY <1>1, OccursTail
<1>3. \/ msg.family = "GT06" /\ Head(todo) # "ack" /\ todo' = <<"ack">>
      \/ msg.family = "GPS103" /\ Head(todo) = "parse" /\ todo' = <<>> /\ ~msg.wellformed
    <2>1. CASE msg.family = "GT06" /\ Head(todo) # "ack"
        BY <2>1 DEF StepFails, AfterFailure
    <2>2. CASE msg.family = "GPS103" /\ Head(todo) = "parse"
        <3>1. AfterFailure(Head(todo)) = <<>>
            BY <2>2 DEF AfterFailure
        <3> QED BY <2>2, <3>1 DEF StepFails, Refuses
    <2> QED BY <2>1, <2>2
<1>4. /\ todo' \in Seq(Steps) /\ ~Occurs("position", todo') /\ ~Occurs("ignition", todo')
      /\ ~Occurs("status", todo')
    <2>1. CASE todo' = <<"ack">>
        <3>1. "ack" \in Steps
            BY DEF Steps
        <3>2. /\ <<"ack">> \in Seq(Steps)
              /\ \A s : Occurs(s, <<"ack">>) <=> s = "ack"
            BY <3>1, OccursOne
        <3>3. ~Occurs("position", <<"ack">>) /\ ~Occurs("ignition", <<"ack">>) /\ ~Occurs("status", <<"ack">>)
            BY <3>2
        <3> QED BY <2>1, <3>2, <3>3
    <2>2. CASE todo' = <<>>
        BY <2>2 DEF Occurs
    <2> QED BY <1>3, <2>1, <2>2
<1>5. /\ statusIgnition' \in {"on", "off"} /\ liveIgnition' \in {"on", "off"}
      /\ row' \in {"good", "zero", "null", None}
    BY <1>1, ApplyTypes DEF StepFails
<1>6. /\ msg' = msg /\ mode' = mode /\ done' = done /\ raised' = raised \cup {Head(todo)}
      /\ Tried' = Tried \cup {Head(todo)} /\ (Head(todo) = "parse" => ~msg.wellformed)
    BY DEF StepFails, Tried, Refuses
<1>7. TypeOK'
    BY <1>1, <1>2, <1>4, <1>5, <1>6 DEF FrameInv, TypeOK
<1>8. CASE msg.family = "GT06" /\ todo' = <<"ack">>
    <2>1. todo' # <<>> /\ todo'[Len(todo')] = "ack"
        BY <1>8
    <2>2. PlanOK'
        BY <1>1, <1>4, <1>6, <1>8, <2>1 DEF PlanOK, IsTracker
    <2> QED BY <1>1, <1>6, <1>7, <2>2 DEF FrameInv
<1>9. CASE msg.family = "GPS103" /\ Head(todo) = "parse" /\ todo' = <<>> /\ ~msg.wellformed
    <2>1. IsTracker /\ msg.alarm = "SOS" => SosOK'
        <3>1. IsTracker /\ msg.alarm = "SOS" => SosOK
            BY <1>1 DEF PlanOK
        <3> QED BY <1>2, <1>6, <1>9, <3>1 DEF SosOK
    <2>2. IsTracker => IgnitionOK'
        <3> SUFFICES ASSUME IsTracker PROVE IgnitionOK'
            OBVIOUS
        <3>1. IgnitionOK
            BY <1>1 DEF PlanOK
        <3>2. UNCHANGED <<statusIgnition, liveIgnition>>
            BY <1>9 DEF StepFails
        <3>3. IgnitionFirst(todo')
            BY <1>9 DEF IgnitionFirst
        <3> QED BY <1>4, <1>6, <3>1, <3>2, <3>3 DEF IgnitionOK
    <2>3. PlanOK'
        BY <1>1, <1>4, <1>6, <1>9, <2>1, <2>2 DEF PlanOK, IsTracker
    <2> QED BY <1>1, <1>6, <1>7, <2>3 DEF FrameInv
<1> QED BY <1>3, <1>8, <1>9

LEMMA StepOK == ASSUME FrameInv, StepDone \/ StepFails PROVE FrameInv'
<1>1. CASE StepDone
    <2>1. TailStep(Head(todo))
        BY <1>1 DEF StepDone, TailStep, Refuses
    <2> QED BY <2>1, TailStepOK
<1>2. CASE StepFails /\ (\/ msg.family = "GT06" /\ Head(todo) # "ack"
                         \/ msg.family = "GPS103" /\ Head(todo) = "parse")
    BY <1>2, AbortOK
<1>3. CASE StepFails /\ ~(msg.family = "GT06" /\ Head(todo) # "ack")
                     /\ ~(msg.family = "GPS103" /\ Head(todo) = "parse")
    <2>1. AfterFailure(Head(todo)) = Tail(todo)
        BY <1>3 DEF AfterFailure
    <2>2. Head(todo) # "parse"
        <3>1. msg \in Messages
            BY <1>3 DEF FrameInv, TypeOK, StepFails
        <3> QED BY <1>3, <3>1, MessageFacts
    <2>3. TailStep(Head(todo))
        BY <1>3, <2>1, <2>2 DEF StepFails, TailStep
    <2> QED BY <2>3, TailStepOK
<1> QED BY <1>1, <1>2, <1>3

(***************************************************************************)
(* In every reachable state the rest of a handler's plan still does what    *)
(* process_packet and process_gps103_message owe the message.               *)
(***************************************************************************)
THEOREM FrameInvariant == Spec => []FrameInv
<1>1. Init => FrameInv
    BY DEF Init, FrameInv, TypeOK
<1>2. FrameInv /\ [Next]_vars => FrameInv'
    <2> SUFFICES ASSUME FrameInv, [Next]_vars PROVE FrameInv'
        OBVIOUS
    <2>1. CASE UNCHANGED vars
        BY <2>1 DEF vars, FrameInv, TypeOK, PlanOK, HasAlarm, IsTracker, SosOK, IgnitionOK,
                    IgnitionFirst, Occurs, Needed, Tried
    <2>2. CASE StepDone \/ StepFails
        BY <2>2, StepOK
    <2>3. CASE Return
        BY <2>3 DEF Return, FrameInv, TypeOK
    <2>4. CASE \E m \in Messages : Receive(m)
        BY <2>4, ReceiveOK
    <2> QED BY <2>1, <2>2, <2>3, <2>4 DEF Next, Work
<1> QED BY <1>1, <1>2, PTL DEF Spec

(***************************************************************************)
(* Message, plan and rows keep their types; in particular no impossible     *)
(* position is ever stored.                                                 *)
(***************************************************************************)
THEOREM FrameTypeCorrect == Spec => []TypeOK
<1>1. FrameInv => TypeOK
    BY DEF FrameInv
<1> QED BY <1>1, FrameInvariant, PTL

(***************************************************************************)
(* process_packet answers every GT06 frame, and _handle_tracker an SOS      *)
(* before anything else, whatever raises.                                   *)
(***************************************************************************)
THEOREM FramesAreAnswered == Spec => []Answered
<1>1. FrameInv => Answered
    BY DEF FrameInv, PlanOK, Answered, Returning, IsTracker, SosOK
<1> QED BY <1>1, FrameInvariant, PTL

(***************************************************************************)
(* No statement of _handle_tracker that raises keeps another from being     *)
(* tried, and positions show the ignition of their own report.              *)
(***************************************************************************)
THEOREM WritesAreIndependent == Spec => []WritesIndependent
<1>1. FrameInv => WritesIndependent
    <2> SUFFICES ASSUME FrameInv, Returning, IsTracker, msg.wellformed
                 PROVE  /\ msg.alarm # None => "event" \in Tried
                        /\ msg.fix = "good" => "position" \in Tried
                        /\ msg.ignition # None => "ignition" \in Tried
                        /\ (mode # "off" /\ Rare(msg)) => "raw" \in Tried
                        /\ (msg.ignition # None /\ "position" \in done /\ "ignition" \notin raised) =>
                              liveIgnition = msg.ignition
        BY DEF WritesIndependent, Returning, IsTracker
    <2>1. todo = <<>> /\ PlanOK /\ \A s : ~Occurs(s, todo)
        BY DEF FrameInv, Returning, Occurs
    <2>2. \A s \in Steps : Needed(s) => s \in Tried
        BY <2>1 DEF PlanOK
    <2>3. /\ msg.alarm # None => "event" \in Tried
          /\ msg.fix = "good" => "position" \in Tried
          /\ msg.ignition # None => "ignition" \in Tried
          /\ (mode # "off" /\ Rare(msg)) => "raw" \in Tried
        BY <2>2 DEF Needed, Steps
    <2> QED BY <2>1, <2>3 DEF PlanOK, IgnitionOK, Tried
<1> QED BY <1>1, FrameInvariant, PTL

(***************************************************************************)
(* clean_coordinates keeps impossible positions out of the events, and no   *)
(* alarm is dropped over one.                                               *)
(***************************************************************************)
THEOREM AlarmsAreKept == Spec => []BadFixKeepsAlarm
<1>1. FrameInv => BadFixKeepsAlarm
    <2> SUFFICES ASSUME FrameInv PROVE BadFixKeepsAlarm
        OBVIOUS
    <2>1. row \notin {"impossible", "fast"}
        BY DEF FrameInv, TypeOK
    <2>2. ASSUME Returning, HasAlarm, raised = {} PROVE "event" \in done
        <3>1. PlanOK /\ ~Occurs("event", todo)
            BY <2>2 DEF FrameInv, Returning, Occurs
        <3> QED BY <2>2, <3>1 DEF PlanOK
    <2> QED BY <2>1, <2>2 DEF BadFixKeepsAlarm, HasAlarm
<1> QED BY <1>1, FrameInvariant, PTL
=============================================================================
