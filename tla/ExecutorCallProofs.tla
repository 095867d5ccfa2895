------------------------- MODULE ExecutorCallProofs -------------------------
(***************************************************************************)
(* Theorems about ExecutorCall, for any number of calls and any output:    *)
(* the types, that a timeout stops the whole process group, that           *)
(* active.pid names what runs as long as calls do not overlap, and that    *)
(* the usage that is billed was printed, however the output is cut.        *)
(***************************************************************************)
EXTENDS ExecutorCall, FiniteSetTheorems, FunctionTheorems, SequenceTheorems,
        WellFoundedInduction, TLAPS

USE CallAssumption

-----------------------------------------------------------------------------
(* Lines.  A text is what a chunk and the line before it make: characters of *)
(* the script, and the line that stderr breaks in.                           *)

Char == {"u", "v", "e", "nl"}
Line == Seq({"u", "v", "e"})

LEMMA LastOf ==
  ASSUME NEW n \in Nat, NEW B \in SUBSET (1 .. n), B # {}
  PROVE  \E j \in B : \A k \in B : k <= j
<1> DEFINE T == {n - b : b \in B}
<1>1. T \subseteq Nat /\ T # {}
  <2>1. PICK b \in B : TRUE
    OBVIOUS
  <2>2. n - b \in T
    BY <2>1
  <2>3. \A t \in T : t \in Nat
    OBVIOUS
  <2> QED
    BY <2>2, <2>3
<1>2. PICK x \in T : \A y \in T : ~(<<y, x>> \in OpToRel(<, Nat))
  BY <1>1, NatLessThanWellFounded, WFMin
<1>3. PICK j \in B : x = n - j
  OBVIOUS
<1>4. ASSUME NEW k \in B
      PROVE  k <= j
  <2>1. n - k \in T /\ n - k \in Nat /\ x \in Nat
    BY <1>1
  <2>2. ~(n - k < x)
    BY <1>2, <2>1 DEF OpToRel
  <2> QED
    BY <1>3, <2>1, <2>2
<1> QED
  BY <1>4

\* The line that ends before position i starts after the last end before it.
LEMMA LineStart ==
  ASSUME NEW text \in Seq(Char), NEW i \in 1 .. Len(text) + 1
  PROVE  \E f \in 1 .. i : /\ \A j \in f .. i - 1 : text[j] # "nl"
                           /\ f = 1 \/ text[f - 1] = "nl"
                           /\ LineAt(text, i) = SubSeq(text, f, i - 1)
<1> DEFINE before == {j \in Ends(text) : j < i}
<1>1. Len(text) \in Nat /\ before \in SUBSET (1 .. Len(text))
  BY DEF Ends
<1>2. CASE before = {}
  <2>1. \A j \in 1 .. i - 1 : text[j] # "nl"
    BY <1>2, <1>1 DEF Ends
  <2>2. LineAt(text, i) = SubSeq(text, 1, i - 1)
    BY <1>2 DEF LineAt
  <2>3. 1 \in 1 .. i
    BY <1>1
  <2> QED
    BY <2>1, <2>2, <2>3
<1>3. CASE before # {}
  <2> DEFINE last == CHOOSE j \in before : \A k \in before : k <= j
  <2>1. last \in before /\ \A k \in before : k <= last
    BY <1>1, <1>3, LastOf
  <2>2. LineAt(text, i) = SubSeq(text, 1 + last, i - 1)
    BY <1>3 DEF LineAt
  <2>3. last \in 1 .. Len(text) /\ last < i /\ text[last] = "nl"
    BY <2>1 DEF Ends
  <2>4. \A j \in 1 + last .. i - 1 : text[j] # "nl"
    BY <1>1, <2>1, <2>3 DEF Ends
  <2> HIDE DEF last
  <2>5. 1 + last \in 1 .. i /\ (1 + last) - 1 = last
    BY <1>1, <2>3
  <2> QED
    BY <2>2, <2>3, <2>4, <2>5
<1> QED
  BY <1>2, <1>3

\* The line that ends at position i is a summary.
UsageAt(text, i) ==
  i >= 3 /\ text[i - 2] = "u" /\ text[i - 1] = "v" /\ (i = 3 \/ text[i - 3] = "nl")

LEMMA UsageEnd ==
  ASSUME NEW text \in Seq(Char), NEW i \in 1 .. Len(text) + 1
  PROVE  UsageOf(LineAt(text, i)) = 1 <=> UsageAt(text, i)
<1>1. PICK f \in 1 .. i : /\ \A j \in f .. i - 1 : text[j] # "nl"
                          /\ f = 1 \/ text[f - 1] = "nl"
                          /\ LineAt(text, i) = SubSeq(text, f, i - 1)
  BY LineStart
<1> DEFINE line == SubSeq(text, f, i - 1)
<1>2. Len(text) \in Nat /\ text \in [1 .. Len(text) -> Char]
  BY LenProperties
<1>3. line \in Seq(Char) /\ Len(line) = i - f /\ \A j \in 1 .. i - f : line[j] = text[f + j - 1]
  <2>1. \A j \in f .. i - 1 : text[j] \in Char
    BY <1>2
  <2> QED
    BY <2>1, SubSeqProperties
<1>4. UsageOf(line) = 1 <=> line = <<"u", "v">>
  BY DEF UsageOf
<1>5. ASSUME line = <<"u", "v">>
      PROVE  UsageAt(text, i)
  <2> HIDE DEF line
  <2>1. i - f = 2 /\ line[1] = "u" /\ line[2] = "v"
    BY <1>3, <1>5
  <2>2. f = i - 2 /\ line[1] = text[f] /\ line[2] = text[f + 1]
    BY <1>3, <2>1
  <2> QED
    BY <1>1, <2>1, <2>2 DEF UsageAt
<1>6. ASSUME UsageAt(text, i)
      PROVE  line = <<"u", "v">>
  <2>1. f = i - 2
    BY <1>1, <1>6 DEF UsageAt
  <2>2. Len(line) = 2 /\ line[1] = "u" /\ line[2] = "v"
    BY <1>3, <1>6, <2>1 DEF UsageAt
  <2> HIDE DEF line
  <2>3. <<"u", "v">> \in Seq(Char) /\ Len(<<"u", "v">>) = 2
    BY DEF Char
  <2> QED
    BY <1>3, <2>2, <2>3, SeqEqual
<1> QED
  BY <1>1, <1>4, <1>5, <1>6

LEMMA UsagesAre ==
  ASSUME NEW text \in Seq(Char)
  PROVE  /\ UsagesIn(text) = Cardinality({i \in Ends(text) : UsageAt(text, i)})
         /\ IsFiniteSet({i \in Ends(text) : UsageAt(text, i)})
         /\ UsagesIn(text) \in Nat
<1> DEFINE U == {i \in Ends(text) : UsageAt(text, i)}
<1>1. Len(text) \in Nat /\ Ends(text) \subseteq 1 .. Len(text)
  BY DEF Ends
<1>2. {i \in Ends(text) : UsageOf(LineAt(text, i)) = 1} = U
  BY <1>1, UsageEnd
<1>3. IsFiniteSet(U)
  <2>1. IsFiniteSet(1 .. Len(text))
    BY <1>1, FS_Interval
  <2>2. U \in SUBSET (1 .. Len(text))
    BY <1>1
  <2> QED
    BY <2>1, <2>2, FS_Subset
<1> QED
  BY <1>2, <1>3, FS_CardinalityType DEF UsagesIn

LEMMA CutOf ==
  ASSUME NEW s, NEW m \in Nat, NEW n \in Nat, m <= n + 1, \A i \in m .. n : s[i] \in Char
  PROVE  /\ SubSeq(s, m, n) \in Seq(Char) /\ Len(SubSeq(s, m, n)) = n - m + 1
         /\ \A i \in 1 .. n - m + 1 : SubSeq(s, m, n)[i] = s[m + i - 1]
<1>1. /\ SubSeq(s, m, n) \in Seq(Char) /\ Len(SubSeq(s, m, n)) = (IF m <= n THEN n - m + 1 ELSE 0)
      /\ \A i \in 1 .. n - m + 1 : SubSeq(s, m, n)[i] = s[m + i - 1]
  BY SubSeqProperties
<1>2. m <= n \/ n - m + 1 = 0
  OBVIOUS
<1> QED
  BY <1>1, <1>2

\* What is left after the last end.
LEMMA RestOf ==
  ASSUME NEW text \in Seq(Char)
  PROVE  \E f \in 1 .. Len(text) + 1 :
           /\ \A j \in f .. Len(text) : text[j] # "nl"
           /\ f = 1 \/ text[f - 1] = "nl"
           /\ LineAt(Append(text, "nl"), Len(text) + 1) = SubSeq(text, f, Len(text))
           /\ SubSeq(text, f, Len(text)) \in Line
<1> DEFINE ended == Append(text, "nl")
<1>1. /\ Len(text) \in Nat
      /\ ended \in Seq(Char) /\ Len(ended) = Len(text) + 1
      /\ \A j \in 1 .. Len(text) : ended[j] = text[j]
  BY AppendProperties, LenProperties DEF Char
<1>2. PICK f \in 1 .. Len(text) + 1 :
        /\ \A j \in f .. Len(text) : ended[j] # "nl"
        /\ f = 1 \/ ended[f - 1] = "nl"
        /\ LineAt(ended, Len(text) + 1) = SubSeq(ended, f, Len(text))
  <2>1. Len(text) + 1 \in 1 .. Len(ended) + 1 /\ (Len(text) + 1) - 1 = Len(text)
    BY <1>1
  <2> HIDE DEF ended
  <2>2. PICK f \in 1 .. Len(text) + 1 :
          /\ \A j \in f .. (Len(text) + 1) - 1 : ended[j] # "nl"
          /\ f = 1 \/ ended[f - 1] = "nl"
          /\ LineAt(ended, Len(text) + 1) = SubSeq(ended, f, (Len(text) + 1) - 1)
    BY <1>1, <2>1, LineStart, Zenon
  <2> QED
    BY <2>1, <2>2
<1>3. \A j \in f .. Len(text) : text[j] # "nl"
  BY <1>1, <1>2
<1>4. f = 1 \/ text[f - 1] = "nl"
  BY <1>1, <1>2
<1>5. \A j \in f .. Len(text) : text[j] \in {"u", "v", "e"}
  BY <1>1, <1>3, ElementOfSeq DEF Char
<1>6. SubSeq(text, f, Len(text)) \in Line
  BY <1>1, <1>5, SubSeqProperties DEF Line
<1>7. SubSeq(ended, f, Len(text)) = SubSeq(text, f, Len(text))
  <2>1. \A j \in f .. Len(text) : ended[j] = text[j] /\ text[j] \in Char
    BY <1>1, ElementOfSeq
  <2>2. /\ SubSeq(ended, f, Len(text)) \in Seq(Char) /\ SubSeq(text, f, Len(text)) \in Seq(Char)
        /\ Len(SubSeq(ended, f, Len(text))) = Len(text) - f + 1
        /\ Len(SubSeq(text, f, Len(text))) = Len(text) - f + 1
        /\ \A j \in 1 .. Len(text) - f + 1 :
             SubSeq(ended, f, Len(text))[j] = SubSeq(text, f, Len(text))[j]
    <3> HIDE DEF ended
    <3>1. \A j \in f .. Len(text) : ended[j] \in Char /\ text[j] \in Char
      BY <2>1
    <3>2. f \in Nat /\ Len(text) \in Nat /\ f <= Len(text) + 1
      BY <1>1
    <3>3. /\ SubSeq(ended, f, Len(text)) \in Seq(Char)
          /\ Len(SubSeq(ended, f, Len(text))) = Len(text) - f + 1
          /\ \A j \in 1 .. Len(text) - f + 1 : SubSeq(ended, f, Len(text))[j] = ended[f + j - 1]
      BY <3>1, <3>2, CutOf
    <3>4. /\ SubSeq(text, f, Len(text)) \in Seq(Char)
          /\ Len(SubSeq(text, f, Len(text))) = Len(text) - f + 1
          /\ \A j \in 1 .. Len(text) - f + 1 : SubSeq(text, f, Len(text))[j] = text[f + j - 1]
      BY <3>1, <3>2, CutOf
    <3>5. \A j \in 1 .. Len(text) - f + 1 : ended[f + j - 1] = text[f + j - 1]
      BY <1>1, <3>2
    <3> QED
      BY <3>3, <3>4, <3>5
  <2> HIDE DEF ended
  <2> QED
    BY <2>2, SeqEqual
<1> QED
  BY <1>2, <1>3, <1>4, <1>6, <1>7

LEMMA FeedType ==
  ASSUME NEW a \in AccType, NEW chunk \in Seq(Char)
  PROVE  Feed(a, chunk) \in AccType
<1> DEFINE text == a.line \o chunk
<1>1. a.line \in Seq(Char) /\ a.usage \in Nat
  <2>1. a.line \in Seq({"u", "v", "e"})
    BY DEF AccType
  <2> QED
    BY <2>1 DEF AccType, Char
<1>2. text \in Seq(Char)
  BY <1>1, ConcatProperties
<1> HIDE DEF text
<1>3. LineAt(Append(text, "nl"), Len(text) + 1) \in Seq({"u", "v", "e"})
  BY <1>2, RestOf DEF Line
<1>4. UsagesIn(text) \in Nat
  BY <1>2, UsagesAre
<1> QED
  BY <1>1, <1>3, <1>4 DEF Feed, AccType, text

LEMMA ScriptType ==
  /\ Script \in Seq(Char) /\ Len(Script) \in Nat
  /\ \A i \in 1 .. Len(Script) : Script[i] \in {"u", "v", "nl"}
  /\ \A m \in Nat, n \in 0 .. Len(Script) : m >= 1 =>
       /\ SubSeq(Script, m, n) \in Seq(Char)
       /\ Len(SubSeq(Script, m, n)) = IF m <= n THEN n - m + 1 ELSE 0
       /\ \A i \in 1 .. n - m + 1 : SubSeq(Script, m, n)[i] = Script[m + i - 1]
<1>1. Script \in Seq({"u", "v", "nl"}) /\ Len(Script) \in Nat
  BY CallAssumption
<1>2. \A i \in 1 .. Len(Script) : Script[i] \in {"u", "v", "nl"}
  BY <1>1, ElementOfSeq
<1>3. Script \in Seq(Char)
  BY <1>1 DEF Char
<1>4. ASSUME NEW m \in Nat, NEW n \in 0 .. Len(Script), m >= 1
      PROVE  /\ SubSeq(Script, m, n) \in Seq(Char)
             /\ Len(SubSeq(Script, m, n)) = IF m <= n THEN n - m + 1 ELSE 0
             /\ \A i \in 1 .. n - m + 1 : SubSeq(Script, m, n)[i] = Script[m + i - 1]
  <2>1. \A i \in m .. n : Script[i] \in Char
    BY <1>1, <1>2, <1>4 DEF Char
  <2> QED
    BY <2>1, <1>1, SubSeqProperties
<1> QED
  BY <1>1, <1>2, <1>3, <1>4

-----------------------------------------------------------------------------
(* Types. *)

LEMMA InitType == Init => TypeOK
BY ScriptType DEF Init, TypeOK, CallType, PipeType, AccType

\* What an action does to the call it is about, and to no other.
OnlyCall(c) == call' \in [Call -> CallType] /\ \A d \in Call \ {c} : call'[d] = call[d]

LEMMA CallBecomes ==
  ASSUME TypeOK, NEW c \in Call, NEW v \in CallType, call' = [call EXCEPT ![c] = v]
  PROVE  OnlyCall(c) /\ call'[c] = v
BY DEF TypeOK, OnlyCall

LEMMA StartedCall ==
  ASSUME TypeOK, NEW c \in Call, NEW kind \in {"agent", "plugin", "runner"}, Started(c, kind)
  PROVE  /\ OnlyCall(c)
         /\ call'[c].kind = kind /\ call'[c].phase = "running" /\ call'[c].timer = "armed"
         /\ call'[c].timedOut = call[c].timedOut
<1> DEFINE v == [call[c] EXCEPT !.kind = kind, !.phase = "running", !.timer = "armed"]
<1>1. call[c] \in CallType /\ call \in [Call -> CallType]
  BY DEF TypeOK
<1>2. call' = [call EXCEPT ![c] = v]
  BY <1>1 DEF Started
<1>3. v \in CallType
  BY <1>1 DEF CallType
<1>4. OnlyCall(c) /\ call'[c] = v
  BY <1>2, <1>3, CallBecomes
<1> QED
  BY <1>1, <1>4 DEF CallType

LEMMA RejectedCall ==
  ASSUME TypeOK, NEW c \in Call, SpawnFails(c)
  PROVE  /\ OnlyCall(c)
         /\ call'[c].kind = "agent" /\ call'[c].phase = "rejected"
         /\ call'[c].timer = call[c].timer /\ call'[c].timedOut = call[c].timedOut
<1> DEFINE v == [call[c] EXCEPT !.kind = "agent", !.phase = "rejected"]
<1>1. call[c] \in CallType /\ call \in [Call -> CallType]
  BY DEF TypeOK
<1>2. call' = [call EXCEPT ![c] = v]
  BY <1>1 DEF SpawnFails
<1>3. v \in CallType
  BY <1>1 DEF CallType
<1>4. OnlyCall(c) /\ call'[c] = v
  BY <1>2, <1>3, CallBecomes
<1> QED
  BY <1>1, <1>4 DEF CallType

LEMMA RunnerCall ==
  ASSUME TypeOK, NEW c \in Call, RunnerAnswers(c) \/ RunnerFails(c)
  PROVE  /\ OnlyCall(c)
         /\ call'[c].kind = "runner" /\ call'[c].phase \in {"settled", "rejected"}
         /\ call'[c].timer = "off"
<1>1. call[c] \in CallType /\ call \in [Call -> CallType] /\ call[c].kind = "runner"
  BY DEF TypeOK, RunnerAnswers, RunnerFails
<1>2. ASSUME RunnerAnswers(c)
      PROVE  OnlyCall(c) /\ call'[c].kind = "runner" /\ call'[c].phase = "settled"
             /\ call'[c].timer = "off"
  <2>1. PICK late \in BOOLEAN :
          call' = [call EXCEPT ![c].phase = "settled", ![c].timer = "off", ![c].timedOut = late,
                               ![c].from = c]
    BY <1>2 DEF RunnerAnswers
  <2> DEFINE v == [call[c] EXCEPT !.phase = "settled", !.timer = "off", !.timedOut = late, !.from = c]
  <2>2. call' = [call EXCEPT ![c] = v]
    BY <1>1, <2>1
  <2>3. v \in CallType
    BY <1>1 DEF CallType
  <2>4. OnlyCall(c) /\ call'[c] = v
    BY <2>2, <2>3, CallBecomes
  <2> QED
    BY <1>1, <2>4 DEF CallType
<1>3. ASSUME RunnerFails(c)
      PROVE  OnlyCall(c) /\ call'[c].kind = "runner" /\ call'[c].phase = "rejected"
             /\ call'[c].timer = "off"
  <2> DEFINE v == [call[c] EXCEPT !.phase = "rejected", !.timer = "off"]
  <2>1. call' = [call EXCEPT ![c] = v]
    BY <1>1, <1>3 DEF RunnerFails
  <2>2. v \in CallType
    BY <1>1 DEF CallType
  <2>3. OnlyCall(c) /\ call'[c] = v
    BY <2>1, <2>2, CallBecomes
  <2> QED
    BY <1>1, <2>3 DEF CallType
<1> QED
  BY <1>2, <1>3

LEMMA TimedOutCall ==
  ASSUME TypeOK, NEW c \in Call, TimeOut(c)
  PROVE  /\ OnlyCall(c)
         /\ call'[c].kind = call[c].kind /\ call'[c].phase = call[c].phase
         /\ call'[c].timer = "grace" /\ call'[c].timedOut
<1> DEFINE v == [call[c] EXCEPT !.timedOut = TRUE, !.timer = "grace"]
<1>1. call[c] \in CallType /\ call \in [Call -> CallType]
  BY DEF TypeOK
<1>2. call' = [call EXCEPT ![c] = v]
  BY <1>1 DEF TimeOut
<1>3. v \in CallType
  BY <1>1 DEF CallType
<1>4. OnlyCall(c) /\ call'[c] = v
  BY <1>2, <1>3, CallBecomes
<1> QED
  BY <1>1, <1>4 DEF CallType

LEMMA SettledCall ==
  ASSUME TypeOK, NEW c \in Call, Settled(c)
  PROVE  /\ OnlyCall(c)
         /\ call'[c].kind = call[c].kind /\ call'[c].phase = "settled" /\ call'[c].timer = "off"
         /\ call'[c].timedOut = call[c].timedOut
<1> DEFINE v == [call[c] EXCEPT !.phase = "settled", !.timer = "off", !.from = Answer(c)]
<1>1. call[c] \in CallType /\ call \in [Call -> CallType] /\ Answer(c) \in Call \cup {NoCall}
  BY DEF TypeOK, Answer
<1>2. call' = [call EXCEPT ![c] = v]
  BY <1>1 DEF Settled
<1>3. v \in CallType
  BY <1>1 DEF CallType
<1>4. OnlyCall(c) /\ call'[c] = v
  BY <1>2, <1>3, CallBecomes
<1> QED
  BY <1>1, <1>4 DEF CallType

LEMMA SettleType ==
  ASSUME TypeOK, NEW c \in Call, Settle(c)
  PROVE  /\ call' \in [Call -> CallType] /\ acc' \in [Call -> AccType]
         /\ billed' \in [Call -> Nat] /\ {pidFile', resultFile'} \subseteq Call \cup {NoCall}
<1>1. CASE Running(c)
  <2>1. Settled(c)
    BY <1>1 DEF Settle
  <2>2. call' \in [Call -> CallType]
    BY <2>1, SettledCall DEF OnlyCall
  <2>3. acc[c].usage + UsageOf(acc[c].line) \in Nat
    BY DEF TypeOK, AccType, UsageOf
  <2>4. acc' \in [Call -> AccType] /\ billed' \in [Call -> Nat]
    BY <2>1, <2>3 DEF Settled, Flush, Bill, TypeOK, AccType
  <2>5. {pidFile', resultFile'} \subseteq Call \cup {NoCall}
    BY <2>1 DEF Settled, TypeOK
  <2> QED
    BY <2>2, <2>4, <2>5
<1>2. CASE ~Running(c)
  BY <1>2 DEF Settle, TypeOK
<1> QED
  BY <1>1, <1>2

LEMMA KillType ==
  ASSUME TypeOK, NEW c \in Call, KillTree(c)
  PROVE  /\ child' \in [Call -> {"none", "up", "gone"}]
         /\ helper' \in [Call -> {"none", "member", "quiet", "escaped", "gone"}]
BY DEF KillTree, TypeOK

LEMMA ReadPipe ==
  ASSUME TypeOK, NEW c \in Call, NEW n \in 1 .. Len(Script) - pipe[c].out,
         pipe' = [pipe EXCEPT ![c].out = @ + n]
  PROVE  /\ pipe' \in [Call -> PipeType] /\ \A d \in Call \ {c} : pipe'[d] = pipe[d]
         /\ pipe'[c].out = pipe[c].out + n /\ pipe'[c].err = pipe[c].err
<1> DEFINE v == [pipe[c] EXCEPT !.out = @ + n]
<1>1. pipe \in [Call -> PipeType] /\ pipe[c] \in PipeType
  BY DEF TypeOK
<1>2. pipe' = [pipe EXCEPT ![c] = v]
  BY <1>1
<1>3. v \in PipeType /\ v.out = pipe[c].out + n /\ v.err = pipe[c].err
  BY <1>1, ScriptType DEF PipeType
<1> HIDE DEF v
<1> QED
  BY <1>1, <1>2, <1>3

LEMMA NextType == TypeOK /\ [Next]_vars => TypeOK'
<1> SUFFICES ASSUME TypeOK, [Next]_vars PROVE TypeOK'
  OBVIOUS
<1>1. ASSUME NEW c \in Call, Start(c)
      PROVE  TypeOK'
  <2>1. CASE SpawnFails(c)
    BY <2>1, RejectedCall DEF SpawnFails, TypeOK, OnlyCall
  <2>2. CASE Spawn(c)
    BY <2>2, StartedCall DEF Spawn, TypeOK, OnlyCall
  <2>3. CASE StartRunner(c)
    BY <2>3, StartedCall DEF StartRunner, TypeOK, OnlyCall
  <2> QED
    BY <1>1, <2>1, <2>2, <2>3 DEF Start
<1>2. ASSUME NEW c \in Call, Read(c)
      PROVE  TypeOK'
  <2>1. PICK n \in 1 .. Len(Script) - pipe[c].out :
          /\ acc' = [acc EXCEPT ![c] = Feed(@, SubSeq(Script, pipe[c].out + 1, pipe[c].out + n))]
          /\ pipe' = [pipe EXCEPT ![c].out = @ + n]
    BY <1>2 DEF Read
  <2>2. pipe[c].out \in 0 .. Len(Script) /\ pipe[c].err \in BOOLEAN
    BY DEF TypeOK, PipeType
  <2>3. SubSeq(Script, pipe[c].out + 1, pipe[c].out + n) \in Seq(Char)
    BY <2>2, ScriptType
  <2>4. acc' \in [Call -> AccType]
    BY <2>1, <2>3, FeedType DEF TypeOK
  <2> QED
    BY <1>2, <2>1, <2>4, ReadPipe DEF Read, TypeOK
<1>3. ASSUME NEW c \in Call, ReadError(c)
      PROVE  TypeOK'
  <2>1. <<"e", "nl">> \in Seq(Char)
    BY DEF Char
  <2>2. acc' \in [Call -> AccType]
    BY <1>3, <2>1, FeedType DEF ReadError, TypeOK
  <2>3. pipe' \in [Call -> PipeType]
    BY <1>3 DEF ReadError, TypeOK, PipeType
  <2> QED
    BY <1>3, <2>2, <2>3 DEF ReadError, TypeOK
<1>4. ASSUME NEW c \in Call, Close(c)
      PROVE  TypeOK'
  BY <1>4, SettleType DEF Close, TypeOK
<1>5. ASSUME NEW c \in Call, TimeOut(c)
      PROVE  TypeOK'
  BY <1>5, TimedOutCall, KillType DEF TimeOut, TypeOK, OnlyCall
<1>6. ASSUME NEW c \in Call, ForceSettle(c)
      PROVE  TypeOK'
  BY <1>6, SettleType, KillType DEF ForceSettle, TypeOK
<1>7. ASSUME NEW c \in Call, RunnerAnswers(c) \/ RunnerFails(c)
      PROVE  TypeOK'
  <2>1. call' \in [Call -> CallType]
    BY <1>7, RunnerCall DEF OnlyCall
  <2>2. UNCHANGED <<child, helper, pipe, acc, billed, pidFile, resultFile>>
    BY <1>7 DEF RunnerAnswers, RunnerFails
  <2> QED
    BY <2>1, <2>2 DEF TypeOK
<1>8. ASSUME NEW c \in Call, Processes(c)
      PROVE  TypeOK'
  BY <1>8 DEF Processes, WriteResult, StartHelper, Exit, HelperEnds, TypeOK
<1>9. CASE UNCHANGED vars
  BY <1>9 DEF vars, TypeOK
<1> QED
  BY <1>1, <1>2, <1>3, <1>4, <1>5, <1>6, <1>7, <1>8, <1>9 DEF Next, Worker

\* Every variable keeps its type, whatever is printed and however it is cut:
\* what the accumulator keeps back is a line without an end.
THEOREM TypeCorrect == Spec => []TypeOK
BY InitType, NextType, PTL DEF Spec

-----------------------------------------------------------------------------
(* Processes. *)

\* A call that has timed out has had its group killed, and nothing joins a
\* group that has no child: TimeoutStopsGroup is the case of a settled call.
GroupOf(c) ==
  /\ call[c].phase = "idle" => child[c] = "none" /\ call[c].kind = "none" /\ ~call[c].timedOut
  /\ call[c].kind = "runner" \/ call[c].phase = "rejected" => child[c] = "none"
  /\ child[c] = "none" => helper[c] = "none"
  /\ call[c].timedOut => child[c] # "up" /\ ~InGroup(c)
  /\ call[c].timer # "off" => Running(c)
  /\ call[c].timer = "grace" => call[c].kind # "runner" /\ call[c].timedOut

GroupInv == TypeOK /\ \A c \in Call : GroupOf(c)

LEMMA InitGroup == Init => GroupInv
BY InitType DEF Init, GroupInv, GroupOf, InGroup

LEMMA NextGroup == GroupInv /\ [Next]_vars => GroupInv'
<1> SUFFICES ASSUME GroupInv, [Next]_vars PROVE GroupInv'
  OBVIOUS
<1>0. TypeOK /\ TypeOK'
  BY NextType DEF GroupInv
<1> SUFFICES ASSUME NEW d \in Call PROVE GroupOf(d)'
  BY <1>0 DEF GroupInv
<1>1. /\ GroupOf(d)
      /\ child \in [Call -> {"none", "up", "gone"}] /\ DOMAIN helper = Call
  BY <1>0 DEF GroupInv, TypeOK
<1>2. ASSUME NEW c \in Call, Spawn(c)
      PROVE  GroupOf(d)'
  <2>1. /\ OnlyCall(c) /\ call'[c].kind # "runner" /\ call'[c].phase = "running"
        /\ call'[c].timer = "armed" /\ call'[c].timedOut = call[c].timedOut
    BY <1>0, <1>2, StartedCall DEF Spawn
  <2> QED
    <3>1. call[c].phase = "idle" /\ child' = [child EXCEPT ![c] = "up"] /\ helper' = helper
      BY <1>2 DEF Spawn, MayStart
    <3>2. ~call[c].timedOut /\ child[c] = "none" /\ helper[c] = "none"
      BY <3>1 DEF GroupInv, GroupOf
    <3> QED
      BY <1>1, <2>1, <3>1, <3>2 DEF GroupOf, InGroup, Running, OnlyCall
<1>3. ASSUME NEW c \in Call, SpawnFails(c)
      PROVE  GroupOf(d)'
  <2>1. /\ OnlyCall(c) /\ call'[c].kind = "agent" /\ call'[c].phase = "rejected"
        /\ call'[c].timer = call[c].timer /\ call'[c].timedOut = call[c].timedOut
    BY <1>0, <1>3, RejectedCall
  <2>2. call[c].phase = "idle" /\ child' = child /\ helper' = helper
    BY <1>3 DEF SpawnFails, MayStart
  <2>3. child[c] = "none" /\ ~call[c].timedOut /\ call[c].timer = "off"
    BY <2>2 DEF GroupInv, GroupOf, Running
  <2> QED
    BY <1>1, <2>1, <2>2, <2>3 DEF GroupOf, InGroup, Running, OnlyCall
<1>4. ASSUME NEW c \in Call, StartRunner(c)
      PROVE  GroupOf(d)'
  <2>1. /\ OnlyCall(c) /\ call'[c].kind = "runner" /\ call'[c].phase = "running"
        /\ call'[c].timer = "armed" /\ call'[c].timedOut = call[c].timedOut
    BY <1>0, <1>4, StartedCall DEF StartRunner
  <2> QED
    BY <1>1, <1>4, <2>1 DEF StartRunner, MayStart, GroupOf, InGroup, Running, OnlyCall
<1>5. ASSUME NEW c \in Call, Read(c) \/ ReadError(c)
      PROVE  GroupOf(d)'
  BY <1>1, <1>5 DEF Read, ReadError, GroupOf, InGroup, Running
<1>6. ASSUME NEW c \in Call, Settle(c), GroupOf(d), child' = child, helper' = helper
      PROVE  GroupOf(d)'
  <2>1. CASE Running(c)
    BY <1>0, <1>6, <2>1, SettledCall
       DEF Settle, GroupOf, InGroup, Running, OnlyCall
  <2>2. CASE ~Running(c)
    BY <1>6, <2>2 DEF Settle, GroupOf, InGroup, Running
  <2> QED
    BY <2>1, <2>2
<1>7. ASSUME NEW c \in Call, TimeOut(c)
      PROVE  GroupOf(d)'
  <2>1. /\ OnlyCall(c) /\ call'[c].kind = call[c].kind /\ call'[c].phase = call[c].phase
        /\ call'[c].timer = "grace" /\ call'[c].timedOut
    BY <1>0, <1>7, TimedOutCall
  <2>2. call[c].timer = "armed" /\ call[c].kind # "runner" /\ KillTree(c)
    BY <1>7 DEF TimeOut
  <2> QED
    BY <1>1, <2>1, <2>2 DEF KillTree, GroupOf, InGroup, Running, OnlyCall
<1>8. ASSUME NEW c \in Call, ForceSettle(c)
      PROVE  GroupOf(d)'
  <2>1. call[c].kind # "runner" /\ child[c] # "up" /\ ~InGroup(c)
    BY <1>0, <1>8 DEF ForceSettle, GroupInv, GroupOf
  <2>2. child' = child /\ helper' = helper
    BY <1>0, <1>8, <2>1 DEF ForceSettle, KillTree, InGroup, TypeOK
  <2> QED
    BY <1>1, <1>6, <1>8, <2>2 DEF ForceSettle
<1>9. ASSUME NEW c \in Call, RunnerAnswers(c) \/ RunnerFails(c)
      PROVE  GroupOf(d)'
  <2>1. child[c] = "none" /\ helper[c] = "none" /\ UNCHANGED <<child, helper>>
    BY <1>9 DEF RunnerAnswers, RunnerFails, GroupInv, GroupOf
  <2> QED
    BY <1>0, <1>1, <1>9, <2>1, RunnerCall DEF GroupOf, InGroup, Running, OnlyCall
<1>10. ASSUME NEW c \in Call, Processes(c)
       PROVE  GroupOf(d)'
  BY <1>1, <1>10
     DEF Processes, WriteResult, StartHelper, Exit, HelperEnds, GroupOf, InGroup, Running
<1>11. CASE UNCHANGED vars
  BY <1>1, <1>11 DEF vars, GroupOf, InGroup, Running
<1> QED
  BY <1>1, <1>2, <1>3, <1>4, <1>5, <1>6, <1>7, <1>8, <1>9, <1>10, <1>11
     DEF Next, Start, Worker, Close

\* When the worker gives up a call that has timed out, no process of its group
\* is left to write in the worktree.
THEOREM TimedOutIsStopped == Spec => []TimeoutStopsGroup
<1>1. GroupInv => TimeoutStopsGroup
  BY DEF GroupInv, GroupOf, TimeoutStopsGroup
<1> QED
  BY <1>1, InitGroup, NextGroup, PTL DEF Spec

\* One call at a time: pidFile is the file of the call that runs.
RecordInv == GroupInv /\ RunningChildIsRecorded /\ \A c, d \in Call : Running(c) /\ Running(d) => c = d

\* While a call runs, active.pid names its process group, and when none runs
\* there is no such file, provided that calls do not overlap.
THEOREM RunningIsRecorded == ASSUME Serial PROVE Spec => []RunningChildIsRecorded
<1>1. Init => RecordInv
  BY InitGroup DEF Init, RecordInv, RunningChildIsRecorded, Running
<1>2. RecordInv /\ [Next]_vars => RecordInv'
  <2> SUFFICES ASSUME RecordInv, [Next]_vars PROVE RecordInv'
    OBVIOUS
  <2>0. TypeOK /\ GroupInv /\ GroupInv'
    BY NextGroup DEF RecordInv, GroupInv
  <2> DEFINE Good == RunningChildIsRecorded /\ \A c, d \in Call : Running(c) /\ Running(d) => c = d
  <2> SUFFICES Good'
    BY <2>0 DEF RecordInv
  <2>1. Good
    BY DEF RecordInv
  <2>2. ASSUME NEW c \in Call, Start(c)
        PROVE  Good'
    <3>1. \A d \in Call : ~Running(d) /\ pidFile # d
      BY <2>1, <2>2, Serial
         DEF Start, Spawn, SpawnFails, StartRunner, MayStart, RunningChildIsRecorded
    <3>2. CASE Spawn(c)
      <4>1. OnlyCall(c) /\ call'[c].kind # "runner" /\ call'[c].phase = "running"
        BY <2>0, <3>2, StartedCall DEF Spawn
      <4> QED
        BY <3>1, <3>2, <4>1 DEF Spawn, RunningChildIsRecorded, Running, OnlyCall
    <3>3. CASE SpawnFails(c)
      BY <2>0, <3>1, <3>3, RejectedCall
         DEF SpawnFails, RunningChildIsRecorded, Running, OnlyCall
    <3>4. CASE StartRunner(c)
      <4>1. OnlyCall(c) /\ call'[c].kind = "runner" /\ call'[c].phase = "running"
        BY <2>0, <3>4, StartedCall DEF StartRunner
      <4> QED
        BY <3>1, <3>4, <4>1 DEF StartRunner, RunningChildIsRecorded, Running, OnlyCall
    <3> QED
      BY <2>2, <3>2, <3>3, <3>4 DEF Start
  <2>3. ASSUME UNCHANGED <<call, pidFile>>
        PROVE  Good'
    BY <2>1, <2>3 DEF RunningChildIsRecorded, Running
  <2>4. ASSUME NEW c \in Call, Settle(c), call[c].kind # "runner"
        PROVE  Good'
    <3>1. CASE Running(c)
      <4>1. OnlyCall(c) /\ call'[c].phase = "settled"
        BY <2>0, <2>4, <3>1, SettledCall DEF Settle
      <4>2. pidFile' = NoCall /\ \A d \in Call : Running(d) => d = c
        BY <2>1, <2>4, <3>1 DEF Settle, Settled
      <4> QED
        BY <4>1, <4>2 DEF RunningChildIsRecorded, Running, OnlyCall
    <3>2. CASE ~Running(c)
      BY <2>3, <2>4, <3>2 DEF Settle
    <3> QED
      BY <3>1, <3>2
  <2>5. ASSUME NEW c \in Call, Close(c)
        PROVE  Good'
    <3>1. call[c].kind # "runner"
      BY <2>0, <2>5 DEF Close, GroupInv, GroupOf
    <3> QED
      BY <2>4, <2>5, <3>1 DEF Close
  <2>6. ASSUME NEW c \in Call, TimeOut(c)
        PROVE  Good'
    <3>1. /\ OnlyCall(c) /\ call'[c].kind = call[c].kind /\ call'[c].phase = call[c].phase
          /\ pidFile' = pidFile
      BY <2>0, <2>6, TimedOutCall DEF TimeOut
    <3> QED
      BY <2>1, <3>1 DEF RunningChildIsRecorded, Running, OnlyCall
  <2>7. ASSUME NEW c \in Call, ForceSettle(c)
        PROVE  Good'
    <3>1. call[c].kind # "runner"
      BY <2>0, <2>7 DEF ForceSettle, GroupInv, GroupOf
    <3> QED
      BY <2>4, <2>7, <3>1 DEF ForceSettle
  <2>8. ASSUME NEW c \in Call, RunnerAnswers(c) \/ RunnerFails(c)
        PROVE  Good'
    <3>1. Running(c) /\ call[c].kind = "runner" /\ UNCHANGED pidFile
      BY <2>8 DEF RunnerAnswers, RunnerFails
    <3> QED
      BY <2>0, <2>1, <2>8, <3>1, RunnerCall DEF RunningChildIsRecorded, Running, OnlyCall
  <2>9. ASSUME NEW c \in Call, Read(c) \/ ReadError(c) \/ Processes(c)
        PROVE  Good'
    BY <2>3, <2>9 DEF Read, ReadError, Processes, WriteResult, StartHelper, Exit, HelperEnds
  <2> QED
    BY <2>2, <2>3, <2>5, <2>6, <2>7, <2>8, <2>9 DEF Next, Worker, vars
<1> QED
  BY <1>1, <1>2, PTL DEF Spec, RecordInv

-----------------------------------------------------------------------------
(* Usage. *)

\* The summaries that end in the first k characters of the script, and
\* whether another one ends there but for the end of its line.
Printed(k) == {i \in 1 .. k : Script[i] = "nl" /\ UsageAt(Script, i)}
Open(k)    == UsageAt(Script, k + 1)
PrintedUsage(k) == Cardinality(Printed(k)) + (IF Open(k) THEN 1 ELSE 0)

LEMMA PrintedFinite ==
  ASSUME NEW k \in Nat
  PROVE  /\ IsFiniteSet(Printed(k)) /\ Cardinality(Printed(k)) \in Nat
         /\ PrintedUsage(k) \in Nat
<1>1. IsFiniteSet(1 .. k)
  BY FS_Interval
<1>2. Printed(k) \in SUBSET (1 .. k)
  BY DEF Printed
<1>3. IsFiniteSet(Printed(k))
  BY <1>1, <1>2, FS_Subset
<1> QED
  BY <1>3, FS_CardinalityType DEF PrintedUsage

LEMMA PrintedUsageIs ==
  ASSUME NEW k \in 0 .. Len(Script)
  PROVE  UsagesIn(Append(SubSeq(Script, 1, k), "nl")) = PrintedUsage(k)
<1> DEFINE text == Append(SubSeq(Script, 1, k), "nl")
           extra == IF Open(k) THEN {k + 1} ELSE {}
<1> SUFFICES UsagesIn(text) = PrintedUsage(k)
  OBVIOUS
<1>1. /\ text \in Seq(Char) /\ Len(text) = k + 1 /\ text[k + 1] = "nl"
      /\ \A i \in 1 .. k : text[i] = Script[i]
  <2>1. /\ SubSeq(Script, 1, k) \in Seq(Char) /\ Len(SubSeq(Script, 1, k)) = k
        /\ \A i \in 1 .. k : SubSeq(Script, 1, k)[i] = Script[i]
    BY ScriptType
  <2> QED
    BY <2>1, AppendProperties DEF Char
<1> HIDE DEF text
<1>2. {i \in Ends(text) : UsageAt(text, i)} = Printed(k) \cup extra
  <2>1. \A i \in 1 .. k + 1 : UsageAt(text, i) <=> UsageAt(Script, i)
    BY <1>1 DEF UsageAt
  <2>2. \A i \in 1 .. k + 1 : i \in Printed(k) \cup extra <=> text[i] = "nl" /\ UsageAt(Script, i)
    BY <1>1 DEF Printed, Open
  <2>3. Printed(k) \cup extra \subseteq 1 .. k + 1
    BY DEF Printed
  <2> QED
    BY <1>1, <2>1, <2>2, <2>3 DEF Ends
<1>3. /\ k \in Nat /\ IsFiniteSet(Printed(k)) /\ k + 1 \notin Printed(k)
      /\ Cardinality(Printed(k)) \in Nat
  <2>1. k \in Nat
    OBVIOUS
  <2>2. k + 1 \notin Printed(k)
    BY <2>1 DEF Printed
  <2> QED
    BY <2>1, <2>2, PrintedFinite
<1>4. UsagesIn(text) = Cardinality(Printed(k) \cup extra)
  BY <1>1, <1>2, UsagesAre
<1>5. CASE Open(k)
  <2>1. Cardinality(Printed(k) \cup {k + 1}) = Cardinality(Printed(k)) + 1
    BY <1>3, FS_AddElement
  <2> QED
    BY <1>3, <1>4, <1>5, <2>1 DEF PrintedUsage
<1>6. CASE ~Open(k)
  <2>1. Printed(k) \cup extra = Printed(k)
    BY <1>6
  <2> QED
    BY <1>3, <1>4, <1>6, <2>1 DEF PrintedUsage
<1> QED
  BY <1>5, <1>6

\* More output takes nothing back: a summary whose line has no end yet is one.
LEMMA PrintedGrows ==
  ASSUME NEW k \in 0 .. Len(Script), NEW m \in k .. Len(Script)
  PROVE  PrintedUsage(k) <= PrintedUsage(m)
<1>1. k \in Nat /\ m \in Nat /\ IsFiniteSet(Printed(m)) /\ IsFiniteSet(Printed(k))
  BY PrintedFinite, ScriptType
<1>2. Printed(k) \in SUBSET Printed(m)
  BY <1>1 DEF Printed
<1>3. Cardinality(Printed(k)) <= Cardinality(Printed(m))
  BY <1>1, <1>2, FS_Subset
<1>4. Cardinality(Printed(k)) \in Nat /\ Cardinality(Printed(m)) \in Nat
  BY <1>1, PrintedFinite
<1>5. CASE m > k /\ Open(k)
  <2>1. /\ k + 1 >= 3 /\ Script[k - 1] = "u" /\ Script[k] = "v" /\ k - 1 \in 1 .. Len(Script) - 1
        /\ (k + 1) - 2 = k - 1 /\ (k - 1) + 1 = k /\ (k - 1) + 2 = k + 1 /\ k # Len(Script)
    BY <1>5, ScriptType DEF Open, UsageAt
  <2>2. Script[k + 1] = "nl"
    BY <2>1, ScriptAssumption
  <2>3. k + 1 \in Printed(m) /\ k + 1 \notin Printed(k)
    BY <1>1, <1>5, <2>2 DEF Printed, Open
  <2>4. Printed(k) \cup {k + 1} \in SUBSET Printed(m)
    BY <1>2, <2>3
  <2>5. Cardinality(Printed(k) \cup {k + 1}) = Cardinality(Printed(k)) + 1
    BY <1>1, <2>3, FS_AddElement
  <2>6. Cardinality(Printed(k)) + 1 <= Cardinality(Printed(m))
    BY <1>1, <2>4, <2>5, FS_Subset
  <2> QED
    BY <1>4, <2>6 DEF PrintedUsage
<1>6. CASE m > k /\ ~Open(k)
  BY <1>3, <1>4, <1>6 DEF PrintedUsage
<1>7. CASE m = k
  BY <1>4, <1>7 DEF PrintedUsage
<1> QED
  BY <1>1, <1>5, <1>6, <1>7

\* A line that begins at f, f being the beginning of a line of the script or
\* a place where stderr has cut one.
From(f, k) == f \in 1 .. k + 1 /\ \A j \in f .. k : Script[j] # "nl"
Clean(f)   == f = 1 \/ Script[f - 1] = "nl"

LEMMA OpenLine ==
  ASSUME NEW k \in 0 .. Len(Script), NEW f, From(f, k)
  PROVE  /\ UsageOf(SubSeq(Script, f, k)) <= (IF Open(k) THEN 1 ELSE 0)
         /\ Clean(f) => UsageOf(SubSeq(Script, f, k)) = (IF Open(k) THEN 1 ELSE 0)
<1> DEFINE line == SubSeq(Script, f, k)
<1>1. f \in Nat /\ f >= 1 /\ f <= k + 1 /\ k \in Nat /\ k <= Len(Script) /\ Len(Script) \in Nat
  BY ScriptType DEF From
<1>2. line \in Seq(Char) /\ Len(line) = k - f + 1 /\ \A i \in 1 .. k - f + 1 : line[i] = Script[f + i - 1]
  BY <1>1, ScriptType
<1> HIDE DEF line
<1>3. ASSUME line = <<"u", "v">>
      PROVE  Open(k)
  <2>1. k - f + 1 = 2 /\ line[1] = "u" /\ line[2] = "v"
    BY <1>2, <1>3
  <2>2. f = k - 1 /\ Script[k - 1] = "u" /\ Script[k] = "v"
    BY <1>1, <1>2, <2>1
  <2>3. k - 1 \in 1 .. Len(Script) - 1 /\ (k - 1) + 1 = k /\ (k - 1) - 1 = k - 2
    BY <1>1, <2>2
  <2>4. k - 1 = 1 \/ Script[k - 2] = "nl"
    BY <2>2, <2>3, ScriptAssumption
  <2> QED
    BY <1>1, <2>2, <2>4 DEF Open, UsageAt
<1>4. ASSUME Clean(f), Open(k)
      PROVE  line = <<"u", "v">>
  <2>1. k >= 2 /\ Script[k - 1] = "u" /\ Script[k] = "v" /\ (k = 2 \/ Script[k - 2] = "nl")
    BY <1>1, <1>4 DEF Open, UsageAt
  <2>2. f = k - 1
    BY <1>1, <1>4, <2>1 DEF Clean, From
  <2>3. Len(line) = 2 /\ line[1] = "u" /\ line[2] = "v"
    BY <1>1, <1>2, <2>1, <2>2
  <2> DEFINE uv == <<"u", "v">>
  <2>4. uv \in Seq(Char) /\ Len(uv) = 2 /\ uv[1] = "u" /\ uv[2] = "v"
    BY DEF Char
  <2> HIDE DEF uv
  <2>5. \A i \in 1 .. Len(line) : line[i] = uv[i]
    BY <2>3, <2>4
  <2>6. line = uv
    BY <1>2, <2>3, <2>4, <2>5, SeqEqual
  <2> QED
    BY <2>6 DEF uv
<1> QED
  BY <1>3, <1>4 DEF UsageOf, line

LEMMA ShiftedSet ==
  ASSUME NEW U, IsFiniteSet(U), U \subseteq Nat, NEW d \in Nat
  PROVE  IsFiniteSet({i + d : i \in U}) /\ Cardinality({i + d : i \in U}) = Cardinality(U)
<1> DEFINE V == {i + d : i \in U}
           shift == [i \in U |-> i + d]
<1>1. shift \in [U -> V] /\ \A a, b \in U : shift[a] = shift[b] => a = b
  OBVIOUS
<1>2. \A v \in V : \E i \in U : shift[i] = v
  OBVIOUS
<1> HIDE DEF V, shift
<1>3. shift \in Bijection(U, V)
  BY <1>1, <1>2, Fun_IsBij
<1>4. ExistsBijection(U, V)
  BY <1>3 DEF ExistsBijection
<1> QED
  BY <1>4, FS_Bijection DEF V

\* What a chunk adds: the summaries that end in it, except one that a line
\* of stderr has cut.
LEMMA ChunkUsage ==
  ASSUME NEW k \in 0 .. Len(Script), NEW f, From(f, k), NEW m \in k .. Len(Script)
  PROVE  LET usage == UsagesIn(SubSeq(Script, f, m))
         IN  /\ usage \in Nat
             /\ Cardinality(Printed(k)) + usage <= Cardinality(Printed(m))
             /\ Clean(f) => Cardinality(Printed(k)) + usage = Cardinality(Printed(m))
<1> DEFINE text == SubSeq(Script, f, m)
           U    == {i \in Ends(text) : UsageAt(text, i)}
           V    == {i + (f - 1) : i \in U}
           more == Printed(m) \ Printed(k)
<1>1. /\ f \in Nat /\ f >= 1 /\ f <= k + 1 /\ k \in Nat /\ m \in Nat /\ k <= m /\ m <= Len(Script)
      /\ Len(Script) \in Nat /\ f - 1 \in Nat /\ \A j \in f .. k : Script[j] # "nl"
  BY ScriptType DEF From
<1>2. text \in Seq(Char) /\ Len(text) = m - f + 1 /\ \A i \in 1 .. m - f + 1 : text[i] = Script[f + i - 1]
  <2>1. m \in 0 .. Len(Script)
    BY <1>1
  <2> QED
    BY <1>1, <2>1, ScriptType
<1> HIDE DEF text
<1>3. UsagesIn(text) = Cardinality(U) /\ IsFiniteSet(U) /\ UsagesIn(text) \in Nat
  BY <1>2, UsagesAre
<1>4. U \subseteq Nat
  BY <1>2 DEF Ends
<1>5. Cardinality(V) = Cardinality(U)
  <2> HIDE DEF U
  <2> QED
    BY <1>1, <1>3, <1>4, ShiftedSet
<1>6. \A i \in 1 .. m - f + 1 :
        /\ text[i] = Script[i + (f - 1)] /\ i + (f - 1) \in 1 .. m
        /\ i >= 3 => /\ text[i - 2] = Script[(i + (f - 1)) - 2]
                     /\ text[i - 1] = Script[(i + (f - 1)) - 1]
        /\ i > 3 => text[i - 3] = Script[(i + (f - 1)) - 3]
  BY <1>1, <1>2
<1>7. ASSUME NEW i \in U
      PROVE  i + (f - 1) \in more
  <2> DEFINE j == i + (f - 1)
  <2>1. i \in 1 .. m - f + 1 /\ text[i] = "nl" /\ UsageAt(text, i)
    BY <1>2 DEF Ends
  <2>2. j \in 1 .. m /\ Script[j] = "nl" /\ j >= f /\ j >= 3
    BY <1>1, <1>6, <2>1 DEF UsageAt
  <2>3. Script[j - 2] = "u" /\ Script[j - 1] = "v"
    BY <1>6, <2>1 DEF UsageAt
  <2>4. j - 2 \in 1 .. Len(Script) - 1 /\ (j - 2) + 1 = j - 1 /\ (j - 2) - 1 = j - 3
    BY <1>1, <2>2
  <2> HIDE DEF j
  <2>5. j - 2 = 1 \/ Script[j - 3] = "nl"
    BY <2>3, <2>4, ScriptAssumption
  <2>6. j \in Printed(m)
    BY <2>2, <2>3, <2>5 DEF Printed, UsageAt
  <2>7. j > k
    BY <1>1, <2>2
  <2> QED
    BY <1>1, <2>6, <2>7 DEF Printed, j
<1>8. ASSUME Clean(f), NEW j \in more
      PROVE  j \in V
  <2>1. /\ j \in k + 1 .. m /\ Script[j] = "nl" /\ j >= 3
        /\ Script[j - 2] = "u" /\ Script[j - 1] = "v" /\ (j = 3 \/ Script[j - 3] = "nl")
    BY <1>1 DEF Printed, UsageAt
  <2>2. j # f /\ j # f + 1
    BY <1>1, <1>8, <2>1 DEF Clean
  <2> DEFINE i == j - (f - 1)
  <2>3. i \in 1 .. m - f + 1 /\ i >= 3 /\ i + (f - 1) = j
    BY <1>1, <2>1, <2>2
  <2> HIDE DEF i
  <2>4. i = 3 \/ j # 3
    BY <1>1, <2>3
  <2>5. text[i] = "nl" /\ UsageAt(text, i)
    <3>1. text[i] = "nl" /\ text[i - 2] = "u" /\ text[i - 1] = "v"
      BY <1>6, <2>1, <2>3
    <3>2. i > 3 => text[i - 3] = "nl"
      BY <1>6, <2>1, <2>3, <2>4
    <3> QED
      BY <2>3, <3>1, <3>2 DEF UsageAt
  <2>6. i \in U
    BY <1>2, <2>3, <2>5 DEF Ends
  <2> QED
    BY <2>3, <2>6
<1>9. /\ IsFiniteSet(Printed(m)) /\ IsFiniteSet(more) /\ Printed(k) \cap Printed(m) = Printed(k)
      /\ Cardinality(more) = Cardinality(Printed(m)) - Cardinality(Printed(k))
      /\ Cardinality(Printed(m)) \in Nat /\ Cardinality(Printed(k)) \in Nat
  <2>1. IsFiniteSet(Printed(m)) /\ Cardinality(Printed(m)) \in Nat /\ Cardinality(Printed(k)) \in Nat
    BY <1>1, PrintedFinite
  <2>2. Printed(m) \cap Printed(k) = Printed(k)
    BY <1>1 DEF Printed
  <2> QED
    BY <2>1, <2>2, FS_Difference
<1>10. V \in SUBSET more
  <2> HIDE DEF U, more
  <2> QED
    BY <1>7
<1>11. Cardinality(V) <= Cardinality(more)
  BY <1>9, <1>10, FS_Subset
<1>12. Clean(f) => V = more
  <2> HIDE DEF U, V, more
  <2> QED
    BY <1>8, <1>10
<1> HIDE DEF U, V, more
<1> QED
  BY <1>3, <1>5, <1>9, <1>11, <1>12 DEF text

\* The accumulator of an agent that runs: its line is what has come since f,
\* and its sum has no summary that was not printed.
LineFrom(c, f) ==
  /\ From(f, pipe[c].out)
  /\ acc[c].line = SubSeq(Script, f, pipe[c].out)
  /\ acc[c].usage <= Cardinality(Printed(pipe[c].out))
  /\ ~pipe[c].err => Clean(f) /\ acc[c].usage = Cardinality(Printed(pipe[c].out))

LEMMA ScriptCuts ==
  ASSUME NEW f \in Nat, f >= 1, NEW m \in 0 .. Len(Script), f <= m + 1
  PROVE  /\ SubSeq(Script, f, m) \in Seq(Char) /\ Len(SubSeq(Script, f, m)) = m - f + 1
         /\ \A i \in 1 .. m - f + 1 : SubSeq(Script, f, m)[i] = Script[f + i - 1]
<1>1. Len(SubSeq(Script, f, m)) = IF f <= m THEN m - f + 1 ELSE 0
  BY ScriptType
<1>2. f <= m \/ m - f + 1 = 0
  OBVIOUS
<1> QED
  BY <1>1, <1>2, ScriptType

LEMMA JoinedCuts ==
  ASSUME NEW k \in 0 .. Len(Script), NEW m \in k .. Len(Script), NEW f \in 1 .. k + 1
  PROVE  SubSeq(Script, f, k) \o SubSeq(Script, k + 1, m) = SubSeq(Script, f, m)
<1> DEFINE line  == SubSeq(Script, f, k)
           chunk == SubSeq(Script, k + 1, m)
           text  == SubSeq(Script, f, m)
<1>1. /\ k \in Nat /\ m \in Nat /\ f \in Nat /\ m \in 0 .. Len(Script)
      /\ f >= 1 /\ f <= k + 1 /\ k <= m
  BY ScriptType
<1>2. /\ line \in Seq(Char) /\ Len(line) = k - f + 1
      /\ \A i \in 1 .. k - f + 1 : line[i] = Script[f + i - 1]
  BY <1>1, ScriptCuts
<1>3. /\ chunk \in Seq(Char) /\ Len(chunk) = m - (k + 1) + 1
      /\ \A i \in 1 .. m - (k + 1) + 1 : chunk[i] = Script[(k + 1) + i - 1]
  BY <1>1, ScriptCuts
<1>4. /\ text \in Seq(Char) /\ Len(text) = m - f + 1
      /\ \A i \in 1 .. m - f + 1 : text[i] = Script[f + i - 1]
  BY <1>1, ScriptCuts
<1> HIDE DEF line, chunk, text
<1>5. /\ line \o chunk \in Seq(Char) /\ Len(line \o chunk) = Len(line) + Len(chunk)
      /\ \A i \in 1 .. Len(line) + Len(chunk) :
           (line \o chunk)[i] = IF i <= Len(line) THEN line[i] ELSE chunk[i - Len(line)]
  BY <1>2, <1>3, ConcatProperties
<1>6. Len(line \o chunk) = Len(text) /\ Len(line) + Len(chunk) = m - f + 1
  BY <1>1, <1>2, <1>3, <1>4, <1>5
<1>7. ASSUME NEW i \in 1 .. m - f + 1
      PROVE  (line \o chunk)[i] = text[i]
  <2>1. CASE i <= k - f + 1
    BY <1>1, <1>2, <1>4, <1>5, <1>6, <2>1
  <2>2. CASE i > k - f + 1
    <3>1. i - (k - f + 1) \in 1 .. m - (k + 1) + 1 /\ (k + 1) + (i - (k - f + 1)) - 1 = f + i - 1
      BY <1>1, <2>2
    <3>2. (line \o chunk)[i] = chunk[i - (k - f + 1)]
      <4>1. Len(line) = k - f + 1 /\ ~(i <= k - f + 1) /\ i \in 1 .. Len(line) + Len(chunk)
        BY <1>1, <1>2, <1>6, <2>2
      <4> QED
        BY <1>5, <4>1
    <3> QED
      BY <1>3, <1>4, <3>1, <3>2
  <2>3. i <= k - f + 1 \/ i > k - f + 1
    BY <1>1
  <2> QED
    BY <2>1, <2>2, <2>3
<1>8. line \o chunk = text
  BY <1>4, <1>5, <1>6, <1>7, SeqEqual
<1> QED
  BY <1>8 DEF line, chunk, text

LEMMA FedLine ==
  ASSUME NEW k \in 0 .. Len(Script), NEW m \in k .. Len(Script), NEW f, From(f, k),
         NEW a \in AccType, a.line = SubSeq(Script, f, k)
  PROVE  \E g : /\ From(g, m) /\ (Clean(f) => Clean(g))
                /\ Feed(a, SubSeq(Script, k + 1, m)).line = SubSeq(Script, g, m)
                /\ Feed(a, SubSeq(Script, k + 1, m)).usage = a.usage + UsagesIn(SubSeq(Script, f, m))
<1> DEFINE text == SubSeq(Script, f, m)
<1>1. /\ k \in Nat /\ m \in Nat /\ f \in Nat /\ m \in 0 .. Len(Script)
      /\ f \in 1 .. k + 1 /\ f >= 1 /\ f <= m + 1 /\ k <= m
  BY ScriptType DEF From
<1>2. a.line \o SubSeq(Script, k + 1, m) = text
  BY <1>1, JoinedCuts
<1>3. /\ text \in Seq(Char) /\ Len(text) = m - f + 1
      /\ \A i \in 1 .. m - f + 1 : text[i] = Script[f + i - 1]
  BY <1>1, ScriptCuts
<1>4. PICK e \in 1 .. Len(text) + 1 :
        /\ \A j \in e .. Len(text) : text[j] # "nl"
        /\ e = 1 \/ text[e - 1] = "nl"
        /\ LineAt(Append(text, "nl"), Len(text) + 1) = SubSeq(text, e, Len(text))
  <2> HIDE DEF text
  <2> QED
    BY <1>3, RestOf
<1>5. PICK g \in Nat : g = f + e - 1
  BY <1>1, <1>3, <1>4
<1>6. /\ g >= 1 /\ g <= m + 1 /\ g \in 1 .. m + 1 /\ e \in Nat /\ e >= 1 /\ e <= m - f + 2
      /\ m - g + 1 = (m - f + 1) - e + 1
  BY <1>1, <1>3, <1>4, <1>5
<1>7. ASSUME NEW j \in g .. m
      PROVE  Script[j] # "nl"
  <2>1. j - f + 1 \in e .. m - f + 1 /\ j - f + 1 \in 1 .. m - f + 1 /\ f + (j - f + 1) - 1 = j
    BY <1>1, <1>5, <1>6
  <2> HIDE DEF text
  <2>2. text[j - f + 1] = Script[j]
    BY <1>3, <2>1
  <2> QED
    BY <1>3, <1>4, <2>1, <2>2
<1>8. SubSeq(text, e, Len(text)) = SubSeq(Script, g, m)
  <2> DEFINE s == SubSeq(text, e, m - f + 1)
             t == SubSeq(Script, g, m)
  <2>1. /\ s \in Seq(Char) /\ Len(s) = m - g + 1
        /\ \A i \in 1 .. m - g + 1 : s[i] = text[e + i - 1]
    <3> HIDE DEF text
    <3>1. \A i \in e .. m - f + 1 : text[i] \in Char
      BY <1>3, <1>6, ElementOfSeq
    <3>2. m - f + 1 \in Int /\ e \in Int
      BY <1>1, <1>6
    <3>3. /\ s \in Seq(Char) /\ Len(s) = (IF e <= m - f + 1 THEN (m - f + 1) - e + 1 ELSE 0)
          /\ \A i \in 1 .. (m - f + 1) - e + 1 : s[i] = text[e + i - 1]
      BY <3>1, <3>2, SubSeqProperties
    <3> HIDE DEF s
    <3> QED
      BY <1>1, <1>6, <3>3
  <2>2. /\ t \in Seq(Char) /\ Len(t) = m - g + 1
        /\ \A i \in 1 .. m - g + 1 : t[i] = Script[g + i - 1]
    BY <1>1, <1>6, ScriptCuts
  <2> HIDE DEF s, t, text
  <2>3. ASSUME NEW i \in 1 .. m - g + 1
        PROVE  s[i] = t[i]
    <3>1. e + i - 1 \in 1 .. m - f + 1 /\ f + (e + i - 1) - 1 = g + i - 1
      BY <1>1, <1>5, <1>6
    <3>2. text[e + i - 1] = Script[g + i - 1]
      BY <1>3, <3>1
    <3> QED
      BY <2>1, <2>2, <3>2
  <2>4. s = t
    BY <2>1, <2>2, <2>3, SeqEqual
  <2> QED
    BY <1>3, <2>4 DEF s, t
<1>9. Clean(f) => Clean(g)
  <2> HIDE DEF text
  <2>1. CASE e = 1
    BY <1>1, <1>5, <2>1
  <2>2. CASE e # 1
    <3>1. e - 1 \in 1 .. m - f + 1 /\ f + (e - 1) - 1 = g - 1
      BY <1>1, <1>5, <1>6, <2>2
    <3> QED
      BY <1>3, <1>4, <2>2, <3>1 DEF Clean
  <2> QED
    BY <2>1, <2>2
<1>10. From(g, m)
  BY <1>6, <1>7 DEF From
<1>11. /\ Feed(a, SubSeq(Script, k + 1, m)).line = SubSeq(Script, g, m)
       /\ Feed(a, SubSeq(Script, k + 1, m)).usage = a.usage + UsagesIn(text)
  BY <1>2, <1>4, <1>8 DEF Feed
<1> QED
  BY <1>9, <1>10, <1>11

LEMMA ReadLine ==
  ASSUME TypeOK, NEW c \in Call, Read(c), NEW f, LineFrom(c, f)
  PROVE  \E g : LineFrom(c, g)'
<1>1. PICK k \in Nat : k = pipe[c].out /\ k \in 0 .. Len(Script)
  BY DEF TypeOK, PipeType
<1>2. PICK n \in 1 .. Len(Script) - pipe[c].out :
        /\ acc' = [acc EXCEPT ![c] = Feed(@, SubSeq(Script, pipe[c].out + 1, pipe[c].out + n))]
        /\ pipe' = [pipe EXCEPT ![c].out = @ + n]
  BY DEF Read
<1>3. PICK m \in Nat : m = k + n /\ m \in k .. Len(Script)
  <2>1. n \in 1 .. Len(Script) - k
    BY <1>1
  <2>2. k + n \in Nat /\ k + n \in k .. Len(Script)
    BY <2>1, ScriptType
  <2> QED
    BY <2>2
<1>4. PICK a \in AccType : a = acc[c]
  BY DEF TypeOK
<1>5. pipe'[c].out = m /\ pipe'[c].err = pipe[c].err
  BY <1>1, <1>2, <1>3, ReadPipe
<1>6. acc'[c] = Feed(a, SubSeq(Script, k + 1, m))
  BY <1>1, <1>2, <1>3, <1>4 DEF TypeOK
<1>7. /\ From(f, k) /\ a.line = SubSeq(Script, f, k) /\ a.usage <= Cardinality(Printed(k))
      /\ ~pipe[c].err => Clean(f) /\ a.usage = Cardinality(Printed(k))
  BY <1>1, <1>4 DEF LineFrom
<1> DEFINE usage == UsagesIn(SubSeq(Script, f, m))
<1>8. PICK g : /\ From(g, m) /\ (Clean(f) => Clean(g))
               /\ acc'[c].line = SubSeq(Script, g, m) /\ acc'[c].usage = a.usage + usage
  <2>1. From(f, k) /\ a.line = SubSeq(Script, f, k) /\ k \in 0 .. Len(Script) /\ m \in k .. Len(Script)
    BY <1>1, <1>3, <1>7
  <2>2. \E g : /\ From(g, m) /\ (Clean(f) => Clean(g))
               /\ Feed(a, SubSeq(Script, k + 1, m)).line = SubSeq(Script, g, m)
               /\ Feed(a, SubSeq(Script, k + 1, m)).usage = a.usage + usage
    BY <2>1, FedLine, Zenon
  <2> QED
    BY <1>6, <2>2
<1>9. /\ usage \in Nat
      /\ Cardinality(Printed(k)) + usage <= Cardinality(Printed(m))
      /\ Clean(f) => Cardinality(Printed(k)) + usage = Cardinality(Printed(m))
  BY <1>1, <1>3, <1>7, ChunkUsage
<1> HIDE DEF usage
<1>10. Cardinality(Printed(k)) \in Nat /\ Cardinality(Printed(m)) \in Nat /\ a.usage \in Nat
  <2>1. a.usage \in Nat
    BY DEF AccType
  <2> QED
    BY <1>1, <1>3, <2>1, PrintedFinite
<1>11. acc'[c].usage <= Cardinality(Printed(m))
  BY <1>7, <1>8, <1>9, <1>10
<1>12. ~pipe[c].err => Clean(g) /\ acc'[c].usage = Cardinality(Printed(m))
  BY <1>7, <1>8, <1>9, <1>10
<1>13. LineFrom(c, g)'
  BY <1>5, <1>8, <1>11, <1>12 DEF LineFrom, From, Clean, Printed, UsageAt
<1> QED
  BY <1>13

\* A line on stderr ends what stands before it.
LEMMA CutLine ==
  ASSUME NEW a \in AccType
  PROVE  Feed(a, <<"e", "nl">>).line = <<>> /\ Feed(a, <<"e", "nl">>).usage = a.usage
<1> DEFINE cut  == <<"e", "nl">>
           text == a.line \o cut
           n    == Len(a.line)
<1>1. a.line \in Seq({"u", "v", "e"}) /\ a.usage \in Nat
  BY DEF AccType
<1>2. a.line \in Seq(Char)
  BY <1>1 DEF Char
<1>3. n \in Nat /\ \A i \in 1 .. n : a.line[i] # "nl"
  <2>1. \A i \in 1 .. n : a.line[i] \in {"u", "v", "e"}
    BY <1>1, ElementOfSeq
  <2> QED
    BY <1>1, <2>1, LenProperties
<1>4. cut \in Seq(Char) /\ Len(cut) = 2 /\ cut[1] = "e" /\ cut[2] = "nl"
  BY DEF Char
<1> HIDE DEF cut
<1>5. /\ text \in Seq(Char) /\ Len(text) = n + 2
      /\ \A i \in 1 .. n + 2 : text[i] = IF i <= n THEN a.line[i] ELSE cut[i - n]
  <2>1. /\ text \in Seq(Char) /\ Len(text) = Len(a.line) + Len(cut)
        /\ \A i \in 1 .. Len(a.line) + Len(cut) :
             text[i] = IF i <= Len(a.line) THEN a.line[i] ELSE cut[i - Len(a.line)]
    BY <1>2, <1>4, ConcatProperties, Zenon
  <2> HIDE DEF text
  <2> QED
    BY <1>4, <2>1
<1> HIDE DEF text, n
<1>6. \A i \in 1 .. n + 2 : /\ i <= n => text[i] # "nl"
                            /\ i = n + 1 => text[i] = "e"
                            /\ i = n + 2 => text[i] = "nl"
  <2>1. ASSUME NEW i \in 1 .. n + 2, i <= n
        PROVE  text[i] # "nl"
    BY <1>3, <1>5, <2>1 DEF n
  <2>2. (n + 1) - n = 1 /\ (n + 2) - n = 2 /\ ~(n + 1 <= n) /\ ~(n + 2 <= n)
        /\ n + 1 \in 1 .. n + 2 /\ n + 2 \in 1 .. n + 2
    BY <1>3
  <2>3. text[n + 1] = cut[1] /\ text[n + 2] = cut[2]
    BY <1>5, <2>2
  <2> QED
    BY <1>4, <2>1, <2>3
<1>7. UsagesIn(text) = 0
  <2>1. \A i \in 1 .. n + 2 : ~(text[i] = "nl" /\ UsageAt(text, i))
    <3> SUFFICES ASSUME NEW i \in 1 .. n + 2, text[i] = "nl", UsageAt(text, i) PROVE FALSE
      OBVIOUS
    <3>1. i = n + 2
      BY <1>3, <1>6
    <3>2. i - 1 = n + 1 /\ n + 1 \in 1 .. n + 2
      BY <1>3, <3>1
    <3>3. text[i - 1] = "e"
      BY <1>6, <3>2
    <3> QED
      BY <3>3 DEF UsageAt
  <2>2. {i \in Ends(text) : UsageAt(text, i)} = {}
    BY <1>5, <2>1 DEF Ends
  <2> QED
    BY <1>5, <2>2, UsagesAre, FS_EmptySet
<1>8. LineAt(Append(text, "nl"), Len(text) + 1) = <<>>
  <2>1. PICK e \in 1 .. Len(text) + 1 :
          /\ \A j \in e .. Len(text) : text[j] # "nl"
          /\ LineAt(Append(text, "nl"), Len(text) + 1) = SubSeq(text, e, Len(text))
    BY <1>5, RestOf
  <2>2. n + 2 \in 1 .. n + 2
    BY <1>3
  <2>3. e = n + 3
    BY <1>3, <1>5, <1>6, <2>1, <2>2
  <2>4. SubSeq(text, n + 3, n + 2) = <<>>
    BY <1>3, SubSeqEmpty
  <2> QED
    BY <1>5, <2>1, <2>3, <2>4
<1>9. Feed(a, cut).line = <<>> /\ Feed(a, cut).usage = a.usage + 0
  BY <1>7, <1>8 DEF Feed, text
<1> QED
  BY <1>1, <1>9 DEF cut

LEMMA ReadErrorLine ==
  ASSUME TypeOK, NEW c \in Call, ReadError(c), NEW f, LineFrom(c, f)
  PROVE  \E g : LineFrom(c, g)'
<1>1. PICK k \in Nat : k = pipe[c].out
  BY DEF TypeOK, PipeType
<1>2. acc'[c].line = <<>> /\ acc'[c].usage = acc[c].usage
  <2>1. acc[c] \in AccType /\ acc'[c] = Feed(acc[c], <<"e", "nl">>)
    BY DEF ReadError, TypeOK
  <2> QED
    BY <2>1, CutLine
<1>3. pipe'[c].out = k /\ pipe'[c].err
  BY <1>1 DEF ReadError, TypeOK, PipeType
<1>4. SubSeq(Script, k + 1, k) = <<>>
  BY SubSeqEmpty
<1>5. acc[c].usage <= Cardinality(Printed(k)) /\ From(k + 1, k)
  BY <1>1 DEF LineFrom, From
<1>6. LineFrom(c, k + 1)'
  BY <1>2, <1>3, <1>4, <1>5 DEF LineFrom, From, Clean, Printed, UsageAt
<1> QED
  BY <1>6

-----------------------------------------------------------------------------
(* What is billed. *)

\* A call bills once, when it settles, what its accumulator has then; a call
\* whose streams have closed gets no more output.
HonestOf(c) ==
  /\ call[c].phase = "idle" => pipe[c].out = 0 /\ ~pipe[c].err
  /\ call[c].kind # "agent" => acc[c].line = <<>> /\ acc[c].usage = 0
  /\ call[c].phase # "settled" => billed[c] = 0
  /\ Running(c) /\ call[c].kind = "agent" => \E f : LineFrom(c, f)
  /\ billed[c] <= PrintedUsage(pipe[c].out)
  /\ call[c].phase = "settled" /\ call[c].kind = "agent" /\ ~call[c].timedOut =>
       /\ ~HoldsPipe(c) /\ child[c] = "gone"
       /\ ~pipe[c].err => billed[c] = PrintedUsage(pipe[c].out)

HonestInv == GroupInv /\ \A c \in Call : HonestOf(c)

LEMMA InitHonest == Init => HonestInv
<1> SUFFICES ASSUME Init, NEW c \in Call PROVE HonestOf(c)
  BY InitGroup DEF HonestInv
<1>1. PrintedUsage(0) \in Nat
  BY PrintedFinite
<1> QED
  BY <1>1 DEF Init, HonestOf, Running

\* What the accumulator would bill now.
LEMMA ToBill ==
  ASSUME TypeOK, NEW c \in Call, NEW f, LineFrom(c, f)
  PROVE  /\ acc[c].usage + UsageOf(acc[c].line) \in Nat
         /\ acc[c].usage + UsageOf(acc[c].line) <= PrintedUsage(pipe[c].out)
         /\ ~pipe[c].err => acc[c].usage + UsageOf(acc[c].line) = PrintedUsage(pipe[c].out)
<1>1. PICK k \in Nat : k = pipe[c].out /\ k \in 0 .. Len(Script)
  BY DEF TypeOK, PipeType
<1>2. /\ acc[c].line = SubSeq(Script, f, k) /\ From(f, k)
      /\ acc[c].usage <= Cardinality(Printed(k))
      /\ ~pipe[c].err => Clean(f) /\ acc[c].usage = Cardinality(Printed(k))
  BY <1>1 DEF LineFrom
<1> DEFINE more == UsageOf(SubSeq(Script, f, k))
           open == IF Open(k) THEN 1 ELSE 0
<1>3. more <= open /\ (Clean(f) => more = open) /\ more \in Nat /\ open \in Nat
  BY <1>1, <1>2, OpenLine DEF UsageOf
<1>4. acc[c].usage \in Nat /\ Cardinality(Printed(k)) \in Nat
  BY PrintedFinite DEF TypeOK, AccType
<1>5. PrintedUsage(k) = Cardinality(Printed(k)) + open
  BY DEF PrintedUsage
<1> HIDE DEF more, open
<1>6. acc[c].usage + more <= PrintedUsage(k)
  BY <1>2, <1>3, <1>4, <1>5
<1>7. ~pipe[c].err => acc[c].usage + more = PrintedUsage(k)
  BY <1>2, <1>3, <1>4, <1>5
<1>8. UsageOf(acc[c].line) = more /\ acc[c].usage + more \in Nat
  BY <1>2, <1>3, <1>4 DEF more
<1> QED
  BY <1>1, <1>6, <1>7, <1>8

LEMMA SettleHonest ==
  ASSUME HonestInv, NEW c \in Call, Settle(c), UNCHANGED pipe,
         NEW d \in Call, child'[d] = child[d], helper'[d] = helper[d],
         call[c].timedOut \/ (child[c] = "gone" /\ ~HoldsPipe(c))
  PROVE  HonestOf(d)'
<1>0. TypeOK /\ HonestOf(c) /\ HonestOf(d)
  BY DEF HonestInv, GroupInv
<1>1. CASE ~Running(c)
  <2>1. UNCHANGED <<call, acc, billed, pipe>> /\ HoldsPipe(d)' = HoldsPipe(d)
    BY <1>1 DEF Settle, HoldsPipe
  <2> QED
    BY <1>0, <2>1 DEF HonestOf, Running, LineFrom, From, Clean, Printed, UsageAt, PrintedUsage, Open
<1>2. CASE Running(c) /\ d # c
  <2>1. Settled(c)
    BY <1>2 DEF Settle
  <2>2. call'[d] = call[d]
    BY <1>0, <1>2, <2>1, SettledCall DEF OnlyCall
  <2>3. acc'[d] = acc[d] /\ billed'[d] = billed[d] /\ HoldsPipe(d)' = HoldsPipe(d)
    BY <1>0, <1>2, <2>1 DEF Settled, Bill, TypeOK, HoldsPipe
  <2> QED
    BY <1>0, <2>2, <2>3 DEF HonestOf, Running, LineFrom, From, Clean, Printed, UsageAt, PrintedUsage, Open
<1>3. CASE Running(c) /\ d = c
  <2>1. Settled(c)
    BY <1>3 DEF Settle
  <2>2. /\ call'[c].kind = call[c].kind /\ call'[c].phase = "settled"
        /\ call'[c].timedOut = call[c].timedOut
    BY <1>0, <2>1, SettledCall
  <2>3. /\ billed[c] = 0 /\ acc'[c].line = <<>> /\ acc'[c].usage = 0
        /\ billed'[c] = 0 + (acc[c].usage + UsageOf(acc[c].line))
    <3>1. billed[c] = 0
      BY <1>0, <1>3 DEF HonestOf, Running
    <3>2. acc'[c].line = <<>> /\ acc'[c].usage = 0
      BY <1>0, <2>1 DEF Settled, Flush, TypeOK
    <3>3. billed'[c] = billed[c] + (acc[c].usage + UsageOf(acc[c].line))
      BY <1>0, <2>1 DEF Settled, Flush, Bill, TypeOK
    <3> QED
      BY <3>1, <3>2, <3>3
  <2>4. PICK k \in Nat : k = pipe[c].out /\ k = pipe'[c].out
    BY <1>0 DEF TypeOK, PipeType
  <2>5. PrintedUsage(k) \in Nat
    BY PrintedFinite
  <2>6. /\ billed'[c] <= PrintedUsage(k)
        /\ call[c].kind = "agent" /\ ~pipe[c].err => billed'[c] = PrintedUsage(k)
    <3>1. CASE call[c].kind = "agent"
      <4>1. PICK f : LineFrom(c, f)
        BY <1>0, <1>3, <3>1 DEF HonestOf
      <4> DEFINE told == acc[c].usage + UsageOf(acc[c].line)
      <4>2. /\ told \in Nat /\ told <= PrintedUsage(k)
            /\ ~pipe[c].err => told = PrintedUsage(k)
        BY <1>0, <2>4, <4>1, ToBill
      <4>3. billed'[c] = 0 + told
        BY <2>3
      <4> HIDE DEF told
      <4> QED
        BY <4>2, <4>3
    <3>2. CASE call[c].kind # "agent"
      <4>1. acc[c].usage = 0 /\ acc[c].line = <<>>
        BY <1>0, <3>2 DEF HonestOf
      <4>2. UsageOf(<<>>) = 0
        <5>1. Len(<<>>) = 0 /\ Len(<<"u", "v">>) = 2
          OBVIOUS
        <5>2. <<>> # <<"u", "v">>
          BY <5>1
        <5> QED
          BY <5>2 DEF UsageOf
      <4> QED
        BY <2>3, <2>5, <3>2, <4>1, <4>2
    <3> QED
      BY <3>1, <3>2
  <2>7. PrintedUsage(pipe[c].out)' = PrintedUsage(k)
    BY <2>4 DEF PrintedUsage, Printed, Open, UsageAt
  <2>8. call[c].timedOut \/ (child'[c] = "gone" /\ ~HoldsPipe(c)')
    BY <1>3 DEF HoldsPipe
  <2> QED
    BY <1>3, <2>2, <2>3, <2>6, <2>7, <2>8 DEF HonestOf, Running
<1> QED
  BY <1>1, <1>2, <1>3

LEMMA NextHonest == HonestInv /\ [Next]_vars => HonestInv'
<1> SUFFICES ASSUME HonestInv, [Next]_vars PROVE HonestInv'
  OBVIOUS
<1>0. TypeOK /\ GroupInv /\ GroupInv' /\ \A c \in Call : GroupOf(c) /\ HonestOf(c)
  BY NextGroup DEF HonestInv, GroupInv
<1> SUFFICES ASSUME NEW d \in Call PROVE HonestOf(d)'
  BY <1>0 DEF HonestInv
<1>1. HonestOf(d)
  BY <1>0
\* What an action leaves alone when it is about another call, or reads nothing.
<1>2. ASSUME call'[d] = call[d], child'[d] = child[d], helper'[d] = helper[d],
             pipe'[d] = pipe[d], acc'[d] = acc[d], billed'[d] = billed[d]
      PROVE  HonestOf(d)'
  BY <1>1, <1>2
     DEF HonestOf, Running, HoldsPipe, LineFrom, From, Clean, Printed, UsageAt, PrintedUsage, Open
<1>3. ASSUME NEW c \in Call, Start(c)
      PROVE  HonestOf(d)'
  <2>1. /\ OnlyCall(c) /\ call[c].phase = "idle" /\ call'[c].phase # "settled"
        /\ call'[c].phase # "idle" /\ \A e \in Call \ {c} : child'[e] = child[e]
        /\ UNCHANGED <<helper, pipe, acc, billed>>
    <3>1. CASE Spawn(c)
      <4>1. OnlyCall(c) /\ call'[c].phase = "running"
        BY <1>0, <3>1, StartedCall DEF Spawn
      <4> QED
        BY <1>0, <3>1, <4>1 DEF Spawn, MayStart, TypeOK
    <3>2. CASE SpawnFails(c)
      <4>1. OnlyCall(c) /\ call'[c].phase = "rejected"
        BY <1>0, <3>2, RejectedCall
      <4> QED
        BY <1>0, <3>2, <4>1 DEF SpawnFails, MayStart, TypeOK
    <3>3. CASE StartRunner(c)
      <4>1. OnlyCall(c) /\ call'[c].phase = "running"
        BY <1>0, <3>3, StartedCall DEF StartRunner
      <4> QED
        BY <1>0, <3>3, <4>1 DEF StartRunner, MayStart, TypeOK
    <3> QED
      BY <1>3, <3>1, <3>2, <3>3 DEF Start
  <2>2. CASE d # c
    BY <1>2, <2>1, <2>2 DEF OnlyCall
  <2>3. CASE d = c
    <3>1. /\ pipe[d].out = 0 /\ ~pipe[d].err /\ acc[d].line = <<>> /\ acc[d].usage = 0 /\ billed[d] = 0
      BY <1>0, <1>1, <2>1, <2>3 DEF HonestOf, GroupOf
    <3>2. Printed(0) = {} /\ Cardinality({}) = 0 /\ PrintedUsage(0) \in Nat
      BY PrintedFinite, FS_EmptySet DEF Printed
    <3>3. SubSeq(Script, 1, 0) = <<>>
      BY SubSeqEmpty
    <3>4. LineFrom(d, 1)'
      BY <2>1, <3>1, <3>2, <3>3 DEF LineFrom, From, Clean, Printed, UsageAt
    <3>5. billed'[d] <= PrintedUsage(pipe[d].out)'
      BY <2>1, <3>1, <3>2 DEF PrintedUsage, Printed, Open, UsageAt
    <3> QED
      BY <2>1, <2>3, <3>1, <3>4, <3>5 DEF HonestOf, Running
  <2> QED
    BY <2>2, <2>3
<1>4. ASSUME NEW c \in Call, Read(c) \/ ReadError(c)
      PROVE  HonestOf(d)'
  <2>1. /\ HoldsPipe(c) /\ call[c].kind = "agent"
        /\ UNCHANGED <<call, child, helper, billed>>
    BY <1>4 DEF Read, ReadError
  <2>2. CASE d # c
    <3>1. pipe'[d] = pipe[d] /\ acc'[d] = acc[d]
      BY <1>0, <1>4, <2>2 DEF Read, ReadError, TypeOK
    <3> QED
      BY <1>2, <2>1, <3>1
  <2>3. CASE d = c
    <3>1. call[d].phase # "idle"
      BY <1>0, <2>1, <2>3 DEF GroupOf
    <3>2. Running(d) => \E f : LineFrom(d, f)'
      <4> SUFFICES ASSUME Running(d) PROVE \E f : LineFrom(d, f)'
        OBVIOUS
      <4>1. PICK f : LineFrom(d, f)
        BY <1>1, <2>1, <2>3 DEF HonestOf
      <4> QED
        BY <1>0, <1>4, <2>3, <4>1, ReadLine, ReadErrorLine
    <3>3. ~(call[d].phase = "settled" /\ ~call[d].timedOut)
      BY <1>1, <2>1, <2>3 DEF HonestOf
    <3>4. billed[d] <= PrintedUsage(pipe[d].out)'
      <4>0. PICK k \in 0 .. Len(Script) : k = pipe[d].out
        BY <1>0 DEF TypeOK, PipeType
      <4>1. PICK m \in k .. Len(Script) : k = pipe[d].out /\ m = pipe'[d].out
        <5>1. CASE Read(c)
          <6>1. PICK n \in 1 .. Len(Script) - pipe[c].out : pipe' = [pipe EXCEPT ![c].out = @ + n]
            BY <5>1 DEF Read
          <6>2. pipe'[c].out = pipe[c].out + n
            BY <1>0, <6>1, ReadPipe
          <6>3. k + n \in k .. Len(Script)
            BY <2>3, <4>0, ScriptType
          <6> QED
            BY <2>3, <4>0, <6>2, <6>3
        <5>2. CASE ReadError(c)
          <6>1. pipe'[c].out = pipe[c].out
            BY <1>0, <5>2 DEF ReadError, TypeOK, PipeType
          <6> QED
            BY <2>3, <4>0, <6>1, ScriptType
        <5> QED
          BY <1>4, <5>1, <5>2
      <4>2. PrintedUsage(k) <= PrintedUsage(m) /\ PrintedUsage(k) \in Nat /\ PrintedUsage(m) \in Nat
        <5>1. PrintedUsage(k) <= PrintedUsage(m)
          BY PrintedGrows
        <5>2. k \in Nat /\ m \in Nat
          BY ScriptType
        <5> QED
          BY <5>1, <5>2, PrintedFinite
      <4>3. billed[d] \in Nat /\ billed[d] <= PrintedUsage(k)
        BY <1>0, <1>1, <4>1 DEF HonestOf, TypeOK
      <4>4. billed[d] <= PrintedUsage(m)
        BY <4>2, <4>3
      <4> QED
        BY <4>1, <4>4 DEF PrintedUsage, Printed, Open, UsageAt
    <3> QED
      BY <1>1, <2>1, <2>3, <3>1, <3>2, <3>3, <3>4 DEF HonestOf, Running
  <2> QED
    BY <2>2, <2>3
<1>5. ASSUME NEW c \in Call, Close(c)
      PROVE  HonestOf(d)'
  BY <1>5, SettleHonest DEF Close
<1>6. ASSUME NEW c \in Call, TimeOut(c)
      PROVE  HonestOf(d)'
  <2>1. /\ OnlyCall(c) /\ call'[c].kind = call[c].kind /\ call'[c].phase = call[c].phase
        /\ call'[c].timedOut /\ UNCHANGED <<pipe, acc, billed>> /\ KillTree(c)
    BY <1>0, <1>6, TimedOutCall DEF TimeOut
  <2>2. CASE d # c
    BY <1>0, <1>2, <2>1, <2>2 DEF OnlyCall, KillTree, TypeOK
  <2>3. CASE d = c
    BY <1>1, <2>1, <2>3
       DEF HonestOf, Running, LineFrom, From, Clean, Printed, UsageAt, PrintedUsage, Open
  <2> QED
    BY <2>2, <2>3
<1>7. ASSUME NEW c \in Call, ForceSettle(c)
      PROVE  HonestOf(d)'
  <2>1. call[c].timedOut /\ child[c] # "up" /\ ~InGroup(c)
    BY <1>0, <1>7 DEF ForceSettle, GroupOf
  <2>2. UNCHANGED <<child, helper, pipe>>
    BY <1>0, <1>7, <2>1 DEF ForceSettle, KillTree, InGroup, TypeOK
  <2> QED
    BY <1>7, <2>1, <2>2, SettleHonest DEF ForceSettle
<1>8. ASSUME NEW c \in Call, RunnerAnswers(c) \/ RunnerFails(c)
      PROVE  HonestOf(d)'
  <2>1. /\ OnlyCall(c) /\ call'[c].kind = "runner" /\ call'[c].phase \in {"settled", "rejected"}
        /\ call[c].kind = "runner" /\ Running(c)
        /\ UNCHANGED <<child, helper, pipe, acc, billed>>
    <3>1. /\ Running(c) /\ call[c].kind = "runner"
          /\ UNCHANGED <<child, helper, pipe, acc, billed>>
      BY <1>8 DEF RunnerAnswers, RunnerFails
    <3> QED
      BY <1>0, <1>8, <3>1, RunnerCall
  <2>2. CASE d # c
    BY <1>2, <2>1, <2>2 DEF OnlyCall
  <2>3. CASE d = c
    BY <1>1, <2>1, <2>3
       DEF HonestOf, Running, PrintedUsage, Printed, Open, UsageAt
  <2> QED
    BY <2>2, <2>3
<1>9. ASSUME NEW c \in Call, Processes(c)
      PROVE  HonestOf(d)'
  <2>1. UNCHANGED <<call, pipe, acc, billed>>
    BY <1>9 DEF Processes, WriteResult, StartHelper, Exit, HelperEnds
  <2>2. child[d] = "gone" /\ ~HoldsPipe(d) => child'[d] = "gone" /\ ~HoldsPipe(d)'
    BY <1>0, <1>9
       DEF Processes, WriteResult, StartHelper, Exit, HelperEnds, InGroup, HoldsPipe, TypeOK
  <2> QED
    BY <1>1, <2>1, <2>2
       DEF HonestOf, Running, LineFrom, From, Clean, Printed, UsageAt, PrintedUsage, Open
<1>10. CASE UNCHANGED vars
  BY <1>2, <1>10 DEF vars
<1> QED
  BY <1>3, <1>4, <1>5, <1>6, <1>7, <1>8, <1>9, <1>10 DEF Next, Worker

\* What is billed was printed, however the output was cut into chunks and
\* whatever came late or on stderr; and when the streams have closed without
\* a word on stderr, none is missing.
THEOREM BilledWasPrinted == Spec => []UsageIsHonest
<1>1. HonestInv => UsageIsHonest
  <2> SUFFICES ASSUME HonestInv, NEW c \in Call
               PROVE  LET printed == UsagesIn(Append(SubSeq(Script, 1, pipe[c].out), "nl"))
                      IN  /\ billed[c] <= printed
                          /\ call[c].phase = "settled" /\ call[c].kind = "agent"
                             /\ ~call[c].timedOut /\ ~pipe[c].err => billed[c] = printed
    BY DEF UsageIsHonest
  <2>1. TypeOK /\ HonestOf(c)
    BY DEF HonestInv, GroupInv
  <2>2. PICK k \in 0 .. Len(Script) : k = pipe[c].out
    BY <2>1 DEF TypeOK, PipeType
  <2>3. UsagesIn(Append(SubSeq(Script, 1, k), "nl")) = PrintedUsage(k)
    BY PrintedUsageIs
  <2> QED
    BY <2>1, <2>2, <2>3 DEF HonestOf
<1> QED
  BY <1>1, InitHonest, NextHonest, PTL DEF Spec

=============================================================================
