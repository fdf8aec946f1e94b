----------------------------- MODULE AttachProofs -----------------------------
(***************************************************************************)
(* Proofs about the file that all browser processes share: for any number  *)
(* of processes, starts and versions of the plugin it is never a mixture,  *)
(* and no browser shows one.                                               *)
(***************************************************************************)
EXTENDS Attach, TLAPS, SequenceTheorems, FiniteSetTheorems, WellFoundedInduction

Associates(p, q, r) == (p \o q) \o r = p \o (q \o r)

LEMMA Regroup == \A p, q, r \in Seq(Nat) : Associates(p, q, r)
<1> TAKE p, q, r \in Seq(Nat)
<1>1. (p \o q) \o r = p \o (q \o r)
  OBVIOUS
<1> QED BY <1>1, Zenon DEF Associates

LEMMA Close == \A p, q \in Seq(Nat) : p \o q \in Seq(Nat)
BY ConcatProperties

Regrouped(p, q, r, s, rest) ==
    (((p \o q) \o r) \o s) \o rest = p \o (q \o (r \o (s \o rest)))

LEMMA RegroupAll ==
    \A p, q, r, s, rest \in Seq(Nat) : Regrouped(p, q, r, s, rest)
<1> TAKE p, q, r, s, rest \in Seq(Nat)
<1>1. p \o q \in Seq(Nat) /\ s \o rest \in Seq(Nat)
  BY Close, Zenon
<1>2. (p \o q) \o r \in Seq(Nat) /\ r \o (s \o rest) \in Seq(Nat)
  BY <1>1, Close, Zenon
<1>3. Associates((p \o q) \o r, s, rest)
  BY <1>2, Regroup, Zenon
<1>4. Associates(p \o q, r, s \o rest)
  BY <1>1, Regroup, Zenon
<1>5. Associates(p, q, r \o (s \o rest))
  BY <1>2, Regroup, Zenon
<1> QED BY <1>3, <1>4, <1>5, Zenon DEF Associates, Regrouped

LEMMA Joined ==
    ASSUME NEW a \in Seq(Nat), NEW b \in Seq(Nat)
    PROVE  /\ a \o b \in Seq(Nat) /\ Len(a) \in Nat /\ Len(b) \in Nat /\ Len(a \o b) = Len(a) + Len(b)
           /\ \A i \in 1 .. Len(a) + Len(b) : (a \o b)[i] = IF i <= Len(a) THEN a[i] ELSE b[i - Len(a)]
BY ConcatProperties, LenProperties

\* One text and its length, with more behind it: what fread_check makes of it.
LEMMA OneText ==
    ASSUME NEW text \in Texts, NEW rest \in Seq(Nat)
    PROVE  LET file == WithLength(text) \o rest
           IN  /\ file \in Seq(Nat)
               /\ HasText(file) /\ FirstText(file) = text /\ AfterText(file) = rest
<1> DEFINE file == WithLength(text) \o rest
<1>1. text \in Seq(Nat) /\ Len(text) < MaxText
  BY TextAssumption
<1>2. Len(text) \in Nat /\ Len(rest) \in Nat /\ \A i \in 1 .. Len(text) : text[i] \in Nat
  BY <1>1, LenProperties, ElementOfSeq
<1>3. <<Len(text)>> \in Seq(Nat) /\ Len(<<Len(text)>>) = 1 /\ <<Len(text)>>[1] = Len(text)
  BY <1>2
<1>4. /\ WithLength(text) \in Seq(Nat) /\ Len(WithLength(text)) = Len(text) + 1
      /\ WithLength(text)[1] = Len(text)
      /\ \A i \in 1 .. Len(text) : WithLength(text)[i + 1] = text[i]
  <2>1. /\ WithLength(text) \in Seq(Nat) /\ Len(WithLength(text)) = 1 + Len(text)
        /\ \A i \in 1 .. 1 + Len(text) :
              WithLength(text)[i] = IF i <= 1 THEN <<Len(text)>>[i] ELSE text[i - 1]
    BY <1>1, <1>3, ConcatProperties DEF WithLength
  <2> QED BY <1>2, <1>3, <2>1
<1>5. /\ file \in Seq(Nat) /\ Len(file) = Len(text) + 1 + Len(rest)
      /\ \A i \in 1 .. Len(text) + 1 + Len(rest) :
            file[i] = IF i <= Len(text) + 1 THEN WithLength(text)[i] ELSE rest[i - (Len(text) + 1)]
  <2> DEFINE w == WithLength(text)
  <2>1. /\ w \o rest \in Seq(Nat) /\ Len(w \o rest) = Len(w) + Len(rest)
        /\ \A i \in 1 .. Len(w) + Len(rest) : (w \o rest)[i] = IF i <= Len(w) THEN w[i] ELSE rest[i - Len(w)]
    BY <1>4, Joined
  <2> QED BY <1>4, <2>1
<1> HIDE DEF file
<1>6. file[1] = Len(text)
  BY <1>2, <1>4, <1>5
<1>7. HasText(file)
  BY <1>1, <1>2, <1>5, <1>6 DEF HasText
<1>8. \A i \in 1 .. Len(file) : file[i] \in Nat
  BY <1>5, ElementOfSeq
<1>9. FirstText(file) = text
  <2>1. \A i \in 2 .. Len(text) + 1 : file[i] \in Nat
    BY <1>2, <1>5, <1>8
  <2>2. /\ FirstText(file) \in Seq(Nat) /\ Len(FirstText(file)) = Len(text)
        /\ \A i \in 1 .. Len(text) : FirstText(file)[i] = file[i + 1]
    <3>1. /\ SubSeq(file, 2, Len(text) + 1) \in Seq(Nat)
          /\ Len(SubSeq(file, 2, Len(text) + 1)) =
                IF 2 <= Len(text) + 1 THEN Len(text) + 1 - 2 + 1 ELSE 0
          /\ \A i \in 1 .. Len(text) + 1 - 2 + 1 : SubSeq(file, 2, Len(text) + 1)[i] = file[2 + i - 1]
      BY <1>2, <2>1, SubSeqProperties
    <3>2. FirstText(file) = SubSeq(file, 2, Len(text) + 1)
      BY <1>6 DEF FirstText
    <3>3. Len(text) + 1 - 2 + 1 = Len(text) /\ \A i \in 1 .. Len(text) : 2 + i - 1 = i + 1
      BY <1>2
    <3>4. (IF 2 <= Len(text) + 1 THEN Len(text) + 1 - 2 + 1 ELSE 0) = Len(text)
      BY <1>2
    <3> QED BY <3>1, <3>2, <3>3, <3>4
  <2>3. \A i \in 1 .. Len(text) : file[i + 1] = text[i]
    <3> TAKE i \in 1 .. Len(text)
    <3>1. i + 1 \in 1 .. Len(text) + 1 + Len(rest) /\ i + 1 <= Len(text) + 1
      BY <1>2
    <3> QED BY <1>4, <1>5, <3>1
  <2>4. \A i \in 1 .. Len(text) : FirstText(file)[i] = text[i]
    BY <2>2, <2>3
  <2> QED BY <1>1, <2>2, <2>4, SeqEqual
<1>10. AfterText(file) = rest
  <2>1. \A i \in Len(text) + 2 .. Len(file) : file[i] \in Nat
    BY <1>2, <1>8
  <2>2. /\ AfterText(file) \in Seq(Nat) /\ Len(AfterText(file)) = Len(rest)
        /\ \A i \in 1 .. Len(rest) : AfterText(file)[i] = file[Len(text) + 1 + i]
    <3>1. /\ SubSeq(file, Len(text) + 2, Len(file)) \in Seq(Nat)
          /\ Len(SubSeq(file, Len(text) + 2, Len(file))) =
                IF Len(text) + 2 <= Len(file) THEN Len(file) - (Len(text) + 2) + 1 ELSE 0
          /\ \A i \in 1 .. Len(file) - (Len(text) + 2) + 1 :
                SubSeq(file, Len(text) + 2, Len(file))[i] = file[Len(text) + 2 + i - 1]
      BY <1>2, <1>5, <2>1, SubSeqProperties
    <3> QED BY <1>2, <1>5, <1>6, <3>1 DEF AfterText
  <2>3. \A i \in 1 .. Len(rest) : file[Len(text) + 1 + i] = rest[i]
    BY <1>2, <1>5, SMTT(60)
  <2> QED BY <2>2, <2>3, SeqEqual
<1> QED BY <1>5, <1>7, <1>9, <1>10 DEF file

\* The rest of a longer file is still there, and nothing reads it.
LEMMA WholeFile ==
    ASSUME NEW info \in Info, NEW rest \in Seq(Nat)
    PROVE  /\ Written(info) \o rest \in Seq(Nat)
           /\ Readable(Written(info) \o rest)
           /\ Read(Written(info) \o rest) = info
<1> DEFINE f4 == WithLength(info.version) \o rest
           f3 == WithLength(info.description) \o f4
           f2 == WithLength(info.name) \o f3
           f1 == WithLength(info.mime) \o f2
<1>1. /\ info.mime \in Texts /\ info.name \in Texts /\ info.description \in Texts /\ info.version \in Texts
      /\ info = [mime |-> info.mime, name |-> info.name,
                 description |-> info.description, version |-> info.version]
  BY DEF Info
<1>2. f4 \in Seq(Nat) /\ HasText(f4) /\ FirstText(f4) = info.version
  BY <1>1, OneText
<1> HIDE DEF f4
<1>3. f3 \in Seq(Nat) /\ HasText(f3) /\ FirstText(f3) = info.description /\ AfterText(f3) = f4
  BY <1>1, <1>2, OneText
<1> HIDE DEF f3
<1>4. f2 \in Seq(Nat) /\ HasText(f2) /\ FirstText(f2) = info.name /\ AfterText(f2) = f3
  BY <1>1, <1>3, OneText
<1> HIDE DEF f2
<1>5. f1 \in Seq(Nat) /\ HasText(f1) /\ FirstText(f1) = info.mime /\ AfterText(f1) = f2
  BY <1>1, <1>4, OneText
<1> HIDE DEF f1
<1>6. Written(info) \o rest = f1
  <2>1. \A t \in Texts : WithLength(t) \in Seq(Nat)
    <3> TAKE t \in Texts
    <3>1. t \in Seq(Nat) /\ <<Len(t)>> \in Seq(Nat)
      BY TextAssumption, LenProperties
    <3> QED BY <3>1, ConcatProperties DEF WithLength
  <2>2. Regrouped(WithLength(info.mime), WithLength(info.name), WithLength(info.description),
                  WithLength(info.version), rest)
    BY <1>1, <2>1, RegroupAll, Zenon
  <2> QED BY <2>2, Zenon DEF Regrouped, Written, f1, f2, f3, f4
<1>7. Readable(f1)
  BY <1>2, <1>3, <1>4, <1>5 DEF Readable
<1>8. Read(f1) = info
  BY <1>1, <1>2, <1>3, <1>4, <1>5 DEF Read
<1> QED BY <1>5, <1>6, <1>7, <1>8

\* Whatever is in the file, a save leaves a whole one.
LEMMA SavedOver ==
    ASSUME NEW info \in Info, NEW file \in Seq(Nat)
    PROVE  \E rest \in Seq(Nat) : WriteOver(file, Written(info)) = Written(info) \o rest
<1> DEFINE bytes == Written(info)
<1>1. bytes \in Seq(Nat) /\ Len(bytes) \in Nat /\ Len(file) \in Nat
  <2>1. \A t \in Texts : WithLength(t) \in Seq(Nat)
    <3> TAKE t \in Texts
    <3>1. t \in Seq(Nat) /\ <<Len(t)>> \in Seq(Nat)
      BY TextAssumption, LenProperties
    <3> QED BY <3>1, ConcatProperties DEF WithLength
  <2>2. info.mime \in Texts /\ info.name \in Texts /\ info.description \in Texts /\ info.version \in Texts
    BY DEF Info
  <2>3. bytes \in Seq(Nat)
    BY <2>1, <2>2, ConcatProperties DEF Written
  <2> QED BY <2>3, LenProperties
<1> HIDE DEF bytes
<1>2. CASE Len(file) > Len(bytes)
  <2>1. \A i \in Len(bytes) + 1 .. Len(file) : file[i] \in Nat
    BY <1>1, ElementOfSeq
  <2>2. SubSeq(file, Len(bytes) + 1, Len(file)) \in Seq(Nat)
    BY <1>1, <2>1, SubSeqProperties
  <2> QED BY <1>2, <2>2 DEF WriteOver, bytes
<1>3. CASE ~(Len(file) > Len(bytes))
  <2>1. bytes = bytes \o <<>> /\ <<>> \in Seq(Nat)
    BY <1>1, ConcatEmptySeq, EmptySeq
  <2> QED BY <1>3, <2>1 DEF WriteOver, bytes
<1> QED BY <1>2, <1>3

-----------------------------------------------------------------------------
(***************************************************************************)
(* Induction, with sets of numbers in place of predicates.                 *)
(***************************************************************************)
LEMMA Smallest ==
    ASSUME NEW T, T \subseteq Nat, T # {}
    PROVE  \E x \in T : \A y \in T : x <= y
<1> DEFINE Less == OpToRel(<, Nat)
<1>1. IsWellFoundedOn(Less, Nat)
  BY NatLessThanWellFounded
<1>2. \A x, y \in Nat : <<y, x>> \in Less <=> y < x
  BY DEF OpToRel
<1> HIDE DEF Less
<1>3. PICK x \in T : \A y \in T : ~(<<y, x>> \in Less)
  BY <1>1, WFMin
<1>4. ASSUME NEW y \in T PROVE x <= y
  <2>1. x \in Nat /\ y \in Nat
    OBVIOUS
  <2>2. ~(y < x)
    BY <1>2, <1>3, <2>1
  <2> QED BY <2>1, <2>2
<1> QED BY <1>4

LEMMA Induction ==
    ASSUME NEW T, 0 \in T, \A n \in Nat : n \in T => n + 1 \in T
    PROVE  Nat \subseteq T
<1> SUFFICES ASSUME Nat \ T # {} PROVE FALSE
  OBVIOUS
<1>1. PICK x \in Nat \ T : \A y \in Nat \ T : x <= y
  BY Smallest
<1> QED BY <1>1

-----------------------------------------------------------------------------
(***************************************************************************)
(* What loadConfig makes of any file: the recursion over its lines is a    *)
(* run of ReadLine, whose states all hold a configuration.                 *)
(***************************************************************************)
LinesRun(f, n, first, lines, isFile) ==
    f = [k \in 0 .. n |-> IF k = 0 THEN first ELSE ReadLine(f[k - 1], lines[k], isFile)]

LEMMA LinesRunExists ==
    ASSUME NEW first, NEW lines, NEW isFile, NEW n \in Nat
    PROVE  \E f : LinesRun(f, n, first, lines, isFile)
<1> DEFINE T == {m \in Nat : \E f : LinesRun(f, m, first, lines, isFile)}
<1>1. 0 \in T
  <2>1. LinesRun([k \in 0 .. 0 |-> first], 0, first, lines, isFile)
    BY DEF LinesRun
  <2> QED BY <2>1
<1>2. ASSUME NEW m \in Nat, m \in T PROVE m + 1 \in T
  <2>1. PICK f : LinesRun(f, m, first, lines, isFile)
    BY <1>2
  <2> DEFINE g == [k \in 0 .. m + 1 |-> IF k = m + 1 THEN ReadLine(f[m], lines[m + 1], isFile) ELSE f[k]]
             h == [k \in 0 .. m + 1 |-> IF k = 0 THEN first ELSE ReadLine(g[k - 1], lines[k], isFile)]
  <2>2. f = [k \in 0 .. m |-> IF k = 0 THEN first ELSE ReadLine(f[k - 1], lines[k], isFile)]
    BY <2>1 DEF LinesRun
  <2>3. g[0] = first /\ g[m] = f[m] /\ \A k \in 1 .. m : g[k] = f[k] /\ g[k - 1] = f[k - 1]
    BY <2>2
  <2>4. ASSUME NEW k \in 0 .. m + 1 PROVE g[k] = h[k]
    <3>1. CASE k = 0
      BY <2>3, <3>1
    <3>2. CASE k \in 1 .. m
      BY <2>2, <2>3, <3>2
    <3>3. CASE k = m + 1
      BY <2>3, <3>3
    <3> QED BY <3>1, <3>2, <3>3
  <2>5. g = h
    <3>1. g = [k \in 0 .. m + 1 |-> g[k]] /\ h = [k \in 0 .. m + 1 |-> h[k]]
      OBVIOUS
    <3> HIDE DEF g, h
    <3> QED BY <2>4, <3>1
  <2>6. LinesRun(g, m + 1, first, lines, isFile)
    <3> HIDE DEF g
    <3> QED BY <2>5 DEF LinesRun
  <2> QED BY <2>6
<1>3. Nat \subseteq T
  <2> HIDE DEF T
  <2> QED BY <1>1, <1>2, Induction
<1> QED BY <1>3

LEMMA ReadLinesIsRun ==
    ASSUME NEW first, NEW lines, NEW isFile, Len(lines) \in Nat
    PROVE  \E f : LinesRun(f, Len(lines), first, lines, isFile) /\ ReadLines(first, lines, isFile) = f[Len(lines)]
<1> DEFINE run(f) == [k \in 0 .. Len(lines) |->
                         IF k = 0 THEN first ELSE ReadLine(f[k - 1], lines[k], isFile)]
           state == CHOOSE f : f = run(f)
<1>1. PICK f : LinesRun(f, Len(lines), first, lines, isFile)
  BY LinesRunExists
<1>2. f = run(f)
  BY <1>1 DEF LinesRun
<1>3. state = run(state)
  BY <1>2
<1>4. LinesRun(state, Len(lines), first, lines, isFile)
  <2> HIDE DEF state
  <2> QED BY <1>3 DEF LinesRun
<1>5. ReadLines(first, lines, isFile) = state[Len(lines)]
  BY DEF ReadLines
<1> QED BY <1>4, <1>5

AllKeys == TextKeys \cup SwitchKeys \cup PairKeys \cup {"silverlightgraphicdrivercheck"}

ConfigOK(config) ==
    /\ DOMAIN config = AllKeys
    /\ \A key \in SwitchKeys \cup {"silverlightgraphicdrivercheck"} : config[key] \in BOOLEAN

StateOK(s) == DOMAIN s = {"section", "aborted", "vars", "config"} /\ ConfigOK(s.config)

LEMMA KeysDiffer ==
    /\ \A key \in TextKeys \cup PairKeys : key \notin SwitchKeys /\ key # "silverlightgraphicdrivercheck"
    /\ \A key \in SwitchKeys : key # "silverlightgraphicdrivercheck"
BY DEF TextKeys, PairKeys, SwitchKeys

LEMMA SettingOK ==
    ASSUME NEW config, ConfigOK(config), NEW line, NEW value, NEW isFile
    PROVE  ConfigOK(Setting(config, line, value, isFile))
<1> DEFINE key == line.key
<1>1. /\ "winepath" \in TextKeys /\ "executejavascript" \in TextKeys
      /\ On(value) \in BOOLEAN /\ TurnsCheckOn(value) \in BOOLEAN
  BY DEF TextKeys, On, TurnsCheckOn
<1>2. ASSUME NEW k \in TextKeys \cup PairKeys, NEW v PROVE ConfigOK([config EXCEPT ![k] = v])
  BY <1>2, KeysDiffer DEF ConfigOK
<1>3. ASSUME NEW k \in SwitchKeys \cup {"silverlightgraphicdrivercheck"}, NEW v \in BOOLEAN
      PROVE  ConfigOK([config EXCEPT ![k] = v])
  BY <1>3 DEF ConfigOK
<1>4. CASE key \in TextKeys
  BY <1>1, <1>2, <1>4 DEF Setting
<1>5. CASE key \notin TextKeys /\ key \in SwitchKeys
  BY <1>1, <1>3, <1>5 DEF Setting
<1>6. CASE key \notin TextKeys /\ key \notin SwitchKeys /\ key \in CheckKeys
  BY <1>1, <1>3, <1>6 DEF Setting
<1>7. CASE key \notin TextKeys /\ key \notin SwitchKeys /\ key \notin CheckKeys /\ key \in PairKeys
  BY <1>1, <1>2, <1>7 DEF Setting
<1>8. CASE key \notin TextKeys /\ key \notin SwitchKeys /\ key \notin CheckKeys /\ key \notin PairKeys
  BY <1>1, <1>8 DEF Setting
<1> QED BY <1>4, <1>5, <1>6, <1>7, <1>8

LEMMA ReadLineOK ==
    ASSUME NEW s, StateOK(s), NEW line, NEW isFile
    PROVE  StateOK(ReadLine(s, line, isFile))
<1> DEFINE value == ReplaceVariables(s.vars, line.value)
<1>1. ConfigOK(Setting(s.config, line, value, isFile))
  BY SettingOK DEF StateOK
<1>2. \A v : /\ StateOK([s EXCEPT !.section = v]) /\ StateOK([s EXCEPT !.aborted = v])
             /\ StateOK([s EXCEPT !.vars = v])
  BY DEF StateOK
<1>3. StateOK([s EXCEPT !.config = Setting(s.config, line, value, isFile)])
  BY <1>1 DEF StateOK
<1>4. ReadLine(s, line, isFile) \in {s, [s EXCEPT !.section = line.kind = "begin"], [s EXCEPT !.aborted = TRUE],
                                     [s EXCEPT !.vars = Put(@, line.key, value)],
                                     [s EXCEPT !.config = Setting(@, line, value, isFile)]}
  BY DEF ReadLine
<1> QED BY <1>2, <1>3, <1>4

LEMMA DefaultOK == ConfigOK(DefaultConfig)
<1>1. ASSUME NEW key \in SwitchKeys \cup {"silverlightgraphicdrivercheck"} PROVE DefaultOf(key) \in BOOLEAN
  <2>1. key \notin PairKeys /\ key \in SwitchKeys \cup CheckKeys
    BY KeysDiffer DEF CheckKeys
  <2>2. DefaultOf(key) = (key \in {"embed", "operadetection"})
    BY <2>1 DEF DefaultOf
  <2> QED BY <2>2
<1> QED BY <1>1 DEF ConfigOK, DefaultConfig, AllKeys

LEMMA ReadLinesOK ==
    ASSUME NEW first, StateOK(first), NEW lines, NEW isFile, Len(lines) \in Nat
    PROVE  StateOK(ReadLines(first, lines, isFile))
<1>1. PICK f : LinesRun(f, Len(lines), first, lines, isFile) /\ ReadLines(first, lines, isFile) = f[Len(lines)]
  BY ReadLinesIsRun
<1> DEFINE T == {n \in Nat : n <= Len(lines) => StateOK(f[n])}
<1>2. 0 \in T
  BY <1>1 DEF LinesRun
<1>3. ASSUME NEW n \in Nat, n \in T PROVE n + 1 \in T
  <2> SUFFICES ASSUME n + 1 <= Len(lines) PROVE StateOK(f[n + 1])
    OBVIOUS
  <2>1. StateOK(f[n])
    BY <1>3
  <2>2. f[n + 1] = ReadLine(f[n], lines[n + 1], isFile)
    BY <1>1 DEF LinesRun
  <2> QED BY <2>1, <2>2, ReadLineOK
<1>4. Nat \subseteq T
  <2> HIDE DEF T
  <2> QED BY <1>2, <1>3, Induction
<1> QED BY <1>1, <1>4

\* The same environment without PIPELIGHT_GPUACCELERATION.
Unasked(env) == [env EXCEPT !.gpu = -1]

EnvironmentRecord == [home : BOOLEAN, embed : Int, windowless : Int, gpu : Int, wine : STRING]

LEMMA OpenConfigLines ==
    ASSUME NEW places \in Seq(Seq(Line))
    PROVE  Len(OpenConfig(places)) \in Nat
<1> DEFINE found == {n \in DOMAIN places : places[n] # <<>>}
<1>1. CASE found = {}
  BY <1>1, EmptySeq, LenProperties DEF OpenConfig
<1>2. CASE found # {}
  <2>1. DOMAIN places = 1 .. Len(places) /\ Len(places) \in Nat /\ found \subseteq Nat
    BY LenProperties
  <2>2. \E x \in found : \A y \in found : x <= y
    <3> HIDE DEF found
    <3> QED BY <1>2, <2>1, Smallest
  <2>3. Min(found) \in found
    <3> HIDE DEF found
    <3> QED BY <2>2 DEF Min
  <2>4. places[Min(found)] \in Seq(Line)
    BY <2>1, <2>3, ElementOfSeq
  <2>5. OpenConfig(places) = places[Min(found)]
    BY <1>2 DEF OpenConfig
  <2> QED BY <2>4, <2>5, LenProperties
<1> QED BY <1>1, <1>2

\* The configuration as the file has it, before the environment: the same
\* whatever is asked for in PIPELIGHT_GPUACCELERATION.
LEMMA FromFile ==
    ASSUME NEW places \in Seq(Seq(Line)), NEW env \in EnvironmentRecord, NEW isFile,
           LoadConfig(places, env, isFile).result = "loaded"
    PROVE  \E file :
             /\ ConfigOK(file) /\ HasNecessaryKeys(file)
             /\ file["linuxwindowlessmode"] => file["windowlessmode"]
             /\ LoadConfig(places, env, isFile) =
                   [result |-> "loaded", config |-> EnvironmentGpu(EnvironmentModes(file, env), env)]
             /\ LoadConfig(places, Unasked(env), isFile) =
                   [result |-> "loaded",
                    config |-> EnvironmentGpu(EnvironmentModes(file, env), Unasked(env))]
<1> DEFINE other == Unasked(env)
           first(e) == [section |-> FALSE, aborted |-> FALSE, vars |-> InitialVariables(e), config |-> DefaultConfig]
           lines == OpenConfig(places)
           read(e) == ReadLines(first(e), lines, isFile)
           file == Implied(read(env).config)
<1>1. other.home = env.home /\ other.embed = env.embed /\ other.windowless = env.windowless /\ other.wine = env.wine
  BY DEF EnvironmentRecord, Unasked
<1>2. read(other) = read(env)
  BY <1>1 DEF InitialVariables
<1>3. \A c : EnvironmentModes(c, other) = EnvironmentModes(c, env)
  BY <1>1 DEF EnvironmentModes
<1>4. ConfigOK(read(env).config)
  <2>1. StateOK(first(env))
    BY DefaultOK DEF StateOK
  <2> HIDE DEF first, lines
  <2>2. Len(lines) \in Nat
    BY OpenConfigLines DEF lines
  <2>3. StateOK(read(env))
    BY <2>1, <2>2, ReadLinesOK
  <2> QED BY <2>3 DEF StateOK
<1> HIDE DEF other, first, lines
<1>5. ConfigOK(file) /\ (file["linuxwindowlessmode"] => file["windowlessmode"])
  <2> HIDE DEF read
  <2>1. "windowlessmode" \in SwitchKeys /\ "linuxwindowlessmode" \in SwitchKeys
        /\ SwitchKeys \subseteq AllKeys
    BY DEF SwitchKeys, AllKeys
  <2> QED BY <1>4, <2>1 DEF ConfigOK, Implied
<1>6. \A e \in {env, other} :
        LoadConfig(places, e, isFile) =
            IF lines = <<>> THEN [result |-> "missing"]
            ELSE IF read(env).aborted THEN [result |-> "aborted"]
            ELSE IF ~HasNecessaryKeys(file) THEN [result |-> "incomplete"]
            ELSE [result |-> "loaded", config |-> EnvironmentGpu(EnvironmentModes(file, env), e)]
  <2>1. LoadConfig(places, env, isFile) =
            IF lines = <<>> THEN [result |-> "missing"]
            ELSE IF read(env).aborted THEN [result |-> "aborted"]
            ELSE IF ~HasNecessaryKeys(file) THEN [result |-> "incomplete"]
            ELSE [result |-> "loaded", config |-> EnvironmentGpu(EnvironmentModes(file, env), env)]
    BY Zenon DEF LoadConfig, first, lines
  <2>2. LoadConfig(places, other, isFile) =
            IF lines = <<>> THEN [result |-> "missing"]
            ELSE IF read(other).aborted THEN [result |-> "aborted"]
            ELSE IF ~HasNecessaryKeys(Implied(read(other).config)) THEN [result |-> "incomplete"]
            ELSE [result |-> "loaded",
                  config |-> EnvironmentGpu(EnvironmentModes(Implied(read(other).config), other), other)]
    BY Zenon DEF LoadConfig, first, lines
  <2> HIDE DEF read
  <2> QED BY <1>2, <1>3, <2>1, <2>2
<1>7. lines # <<>> /\ ~read(env).aborted /\ HasNecessaryKeys(file)
  <2> DEFINE answer == LoadConfig(places, env, isFile)
  <2> HIDE DEF read, file
  <2>1. CASE lines = <<>>
    <3>1. answer = [result |-> "missing"]
      BY <1>6, <2>1
    <3> QED BY <3>1
  <2>2. CASE lines # <<>> /\ read(env).aborted
    <3>1. answer = [result |-> "aborted"]
      BY <1>6, <2>2
    <3> QED BY <3>1
  <2>3. CASE lines # <<>> /\ ~read(env).aborted /\ ~HasNecessaryKeys(file)
    <3>1. answer = [result |-> "incomplete"]
      BY <1>6, <2>3
    <3> QED BY <3>1
  <2> QED BY <2>1, <2>2, <2>3
<1> HIDE DEF read, file
<1> QED BY <1>5, <1>6, <1>7 DEF other

LEMMA SwitchNames ==
    /\ {"windowlessmode", "linuxwindowlessmode", "embed", "experimental-strictdrawordering"} \subseteq SwitchKeys
    /\ {"dllpath", "dllname", "regkey", "winepath"} \subseteq TextKeys /\ "overwritearg" \in PairKeys
BY DEF SwitchKeys, TextKeys, PairKeys

\* PIPELIGHT_WINDOWLESSMODE and the others keep what main relies on.
LEMMA ModesOK ==
    ASSUME NEW file, ConfigOK(file), NEW env \in EnvironmentRecord,
           HasNecessaryKeys(file), file["linuxwindowlessmode"] => file["windowlessmode"]
    PROVE  LET config == EnvironmentModes(file, env)
           IN  /\ ConfigOK(config)
               /\ config["linuxwindowlessmode"] => config["windowlessmode"]
               /\ (config["dllpath"] # "" /\ config["dllname"] # "") \/ config["regkey"] # ""
<1> DEFINE config == EnvironmentModes(file, env)
<1>1. /\ DOMAIN config = DOMAIN file
      /\ config["embed"] = IF env.embed >= 0 THEN env.embed >= 1 ELSE file["embed"]
      /\ config["windowlessmode"] =
            IF env.windowless >= 0 THEN env.windowless >= 1 ELSE file["windowlessmode"]
      /\ config["linuxwindowlessmode"] =
            IF env.windowless >= 0 THEN env.windowless >= 2 ELSE file["linuxwindowlessmode"]
      /\ \A key \in AllKeys \ {"embed", "windowlessmode", "linuxwindowlessmode", "winepath"} :
            config[key] = file[key]
  BY SwitchNames DEF EnvironmentModes, ConfigOK, AllKeys
<1> HIDE DEF config
<1>2. ASSUME NEW key \in SwitchKeys \cup {"silverlightgraphicdrivercheck"} PROVE config[key] \in BOOLEAN
  <2>1. file[key] \in BOOLEAN /\ key \in AllKeys /\ key # "winepath"
    BY KeysDiffer, SwitchNames DEF ConfigOK, AllKeys
  <2>2. CASE key \in {"embed", "windowlessmode", "linuxwindowlessmode"}
    <3>1. /\ file["embed"] \in BOOLEAN /\ file["windowlessmode"] \in BOOLEAN
          /\ file["linuxwindowlessmode"] \in BOOLEAN
      BY SwitchNames DEF ConfigOK
    <3>2. /\ config["embed"] \in BOOLEAN /\ config["windowlessmode"] \in BOOLEAN
          /\ config["linuxwindowlessmode"] \in BOOLEAN
      <4>1. /\ (env.embed >= 1) \in BOOLEAN /\ (env.windowless >= 1) \in BOOLEAN
            /\ (env.windowless >= 2) \in BOOLEAN
        OBVIOUS
      <4> QED BY <1>1, <3>1, <4>1, Zenon
    <3> QED BY <2>2, <3>2
  <2>3. CASE key \notin {"embed", "windowlessmode", "linuxwindowlessmode"}
    BY <1>1, <2>1, <2>3
  <2> QED BY <2>2, <2>3
<1>3. config["linuxwindowlessmode"] => config["windowlessmode"]
  BY <1>1 DEF EnvironmentRecord
<1>4. /\ config["dllpath"] = file["dllpath"] /\ config["dllname"] = file["dllname"]
      /\ config["regkey"] = file["regkey"]
  BY <1>1, SwitchNames DEF AllKeys
<1> QED BY <1>1, <1>2, <1>3, <1>4 DEF ConfigOK, HasNecessaryKeys, config

GpuKeys == {"overwritearg", "experimental-strictdrawordering", "silverlightgraphicdrivercheck"}

\* PIPELIGHT_GPUACCELERATION, an argument in the file, or neither has decided;
\* given is the configuration without the variable.
Decided(config, given, env) ==
    LET wanted == config["overwritearg"]
    IN  \/ config["silverlightgraphicdrivercheck"]
        \/ /\ given["silverlightgraphicdrivercheck"] /\ env.gpu >= 0
           /\ Acceleration \in DOMAIN wanted
           /\ wanted[Acceleration] = IF env.gpu >= 1 THEN "true" ELSE "false"
           /\ config["experimental-strictdrawordering"] = (env.gpu >= 2)
        \/ /\ ~given["silverlightgraphicdrivercheck"]
           /\ env.gpu < 0 => Acceleration \in DOMAIN wanted /\ wanted = given["overwritearg"]

LEMMA GpuOK ==
    ASSUME NEW file, ConfigOK(file), NEW env \in EnvironmentRecord,
           NEW config, config = EnvironmentGpu(file, env),
           NEW given, given = EnvironmentGpu(file, Unasked(env))
    PROVE  /\ ConfigOK(config)
           /\ \A key \in AllKeys \ GpuKeys : config[key] = file[key]
           /\ file["silverlightgraphicdrivercheck"] => Decided(config, given, env)
           /\ ~file["silverlightgraphicdrivercheck"] =>
                 config = given /\ ~given["silverlightgraphicdrivercheck"]
<1> DEFINE check == file["silverlightgraphicdrivercheck"]
           value == IF env.gpu >= 1 THEN "true" ELSE "false"
           named == Acceleration \in DOMAIN file["overwritearg"]
<1>1. check \in BOOLEAN /\ env.gpu \in Int /\ GpuKeys \subseteq AllKeys
  BY SwitchNames DEF ConfigOK, AllKeys, GpuKeys, EnvironmentRecord
<1>2. ASSUME DOMAIN config = AllKeys, \A key \in AllKeys \ GpuKeys : config[key] = file[key],
             config["experimental-strictdrawordering"] \in BOOLEAN,
             config["silverlightgraphicdrivercheck"] \in BOOLEAN
      PROVE  ConfigOK(config)
  <2>1. ASSUME NEW key \in SwitchKeys \cup {"silverlightgraphicdrivercheck"} PROVE config[key] \in BOOLEAN
    <3>1. key \in AllKeys /\ file[key] \in BOOLEAN /\ key # "overwritearg"
      BY SwitchNames, KeysDiffer DEF ConfigOK, AllKeys
    <3> QED BY <1>2, <3>1 DEF GpuKeys
  <2> QED BY <1>2, <2>1 DEF ConfigOK
<1>3. CASE ~check
  <2>1. config = file /\ given = file
    BY <1>3 DEF EnvironmentGpu
  <2> QED BY <1>3, <2>1
<1>4. CASE check
  <2>1. given = [file EXCEPT !["silverlightgraphicdrivercheck"] = ~named]
    BY <1>4 DEF EnvironmentGpu, EnvironmentRecord, Unasked
  <2>2. given["silverlightgraphicdrivercheck"] = ~named /\ given["overwritearg"] = file["overwritearg"]
    BY <1>1, <2>1 DEF ConfigOK, GpuKeys
  <2>3. CASE env.gpu >= 0
    <3>1. config = [file EXCEPT !["overwritearg"] = WithPair(@, Acceleration, value),
                                !["experimental-strictdrawordering"] = env.gpu >= 2,
                                !["silverlightgraphicdrivercheck"] = FALSE]
      BY <1>4, <2>3 DEF EnvironmentGpu
    <3>2. config["overwritearg"] = Put(file["overwritearg"], Acceleration, value)
      BY <1>1, <3>1 DEF WithPair, Acceleration, ConfigOK, GpuKeys
    <3>3. Acceleration \in DOMAIN config["overwritearg"] /\ config["overwritearg"][Acceleration] = value
      BY <3>2 DEF Put
    <3>4. DOMAIN config = AllKeys /\ \A key \in AllKeys \ GpuKeys : config[key] = file[key]
      BY <3>1 DEF ConfigOK, GpuKeys
    <3>5. /\ config["experimental-strictdrawordering"] = (env.gpu >= 2)
          /\ config["silverlightgraphicdrivercheck"] = FALSE
      BY <1>1, <3>1 DEF ConfigOK, GpuKeys
    <3>6. ConfigOK(config)
      <4>1. (env.gpu >= 2) \in BOOLEAN
        OBVIOUS
      <4> QED BY <1>2, <3>4, <3>5, <4>1
    <3>7. ~(env.gpu < 0)
      BY <1>1, <2>3
    <3>8. Decided(config, given, env)
      BY <2>2, <2>3, <3>3, <3>5, <3>7 DEF Decided
    <3> QED BY <1>4, <3>4, <3>6, <3>8
  <2>4. CASE ~(env.gpu >= 0)
    <3>1. config = given
      BY <1>4, <2>1, <2>4 DEF EnvironmentGpu
    <3>2. DOMAIN config = AllKeys /\ \A key \in AllKeys \ GpuKeys : config[key] = file[key]
      BY <2>1, <3>1 DEF ConfigOK, GpuKeys
    <3>3. config["experimental-strictdrawordering"] = file["experimental-strictdrawordering"]
      BY <1>1, <2>1, <3>1 DEF ConfigOK, GpuKeys
    <3>4. ConfigOK(config)
      BY <1>2, <2>2, <3>1, <3>2, <3>3, SwitchNames DEF ConfigOK
    <3>5. Decided(config, given, env)
      BY <2>2, <3>1 DEF Decided
    <3> QED BY <1>4, <3>2, <3>4, <3>5
  <2> QED BY <2>3, <2>4
<1> QED BY <1>1, <1>3, <1>4

-----------------------------------------------------------------------------
(***************************************************************************)
(* What main makes of the command line of startWineProcess.                *)
(***************************************************************************)
ArgumentsRun(f, n, first, argv) ==
    f = [k \in 0 .. n |-> IF k = 0 THEN first ELSE ReadArgument(f[k - 1], argv[k])]

LEMMA ArgumentsRunExists ==
    ASSUME NEW first, NEW argv, NEW n \in Nat
    PROVE  \E f : ArgumentsRun(f, n, first, argv)
<1> DEFINE T == {m \in Nat : \E f : ArgumentsRun(f, m, first, argv)}
<1>1. 0 \in T
  <2>1. ArgumentsRun([k \in 0 .. 0 |-> first], 0, first, argv)
    BY DEF ArgumentsRun
  <2> QED BY <2>1
<1>2. ASSUME NEW m \in Nat, m \in T PROVE m + 1 \in T
  <2>1. PICK f : ArgumentsRun(f, m, first, argv)
    BY <1>2
  <2> DEFINE g == [k \in 0 .. m + 1 |-> IF k = m + 1 THEN ReadArgument(f[m], argv[m + 1]) ELSE f[k]]
             h == [k \in 0 .. m + 1 |-> IF k = 0 THEN first ELSE ReadArgument(g[k - 1], argv[k])]
  <2>2. f = [k \in 0 .. m |-> IF k = 0 THEN first ELSE ReadArgument(f[k - 1], argv[k])]
    BY <2>1 DEF ArgumentsRun
  <2>3. g[0] = first /\ g[m] = f[m] /\ \A k \in 1 .. m : g[k] = f[k] /\ g[k - 1] = f[k - 1]
    BY <2>2
  <2>4. ASSUME NEW k \in 0 .. m + 1 PROVE g[k] = h[k]
    <3>1. CASE k = 0
      BY <2>3, <3>1
    <3>2. CASE k \in 1 .. m
      BY <2>2, <2>3, <3>2
    <3>3. CASE k = m + 1
      BY <2>3, <3>3
    <3> QED BY <3>1, <3>2, <3>3
  <2>5. g = h
    <3>1. g = [k \in 0 .. m + 1 |-> g[k]] /\ h = [k \in 0 .. m + 1 |-> h[k]]
      OBVIOUS
    <3> HIDE DEF g, h
    <3> QED BY <2>4, <3>1
  <2>6. ArgumentsRun(g, m + 1, first, argv)
    <3> HIDE DEF g
    <3> QED BY <2>5 DEF ArgumentsRun
  <2> QED BY <2>6
<1>3. Nat \subseteq T
  <2> HIDE DEF T
  <2> QED BY <1>1, <1>2, Induction
<1> QED BY <1>3

LEMMA ArgumentsRunSteps ==
    ASSUME NEW first, NEW argv, NEW n \in Nat, NEW f, ArgumentsRun(f, n, first, argv)
    PROVE  f[0] = first /\ \A k \in 1 .. n : f[k] = ReadArgument(f[k - 1], argv[k])
<1>1. f[0] = first
  BY DEF ArgumentsRun
<1>2. ASSUME NEW k \in 1 .. n PROVE f[k] = ReadArgument(f[k - 1], argv[k])
  <2>1. k \in 0 .. n /\ k # 0
    OBVIOUS
  <2> QED BY <2>1 DEF ArgumentsRun
<1> QED BY <1>1, <1>2

LEMMA ReadFromIsRun ==
    ASSUME NEW first, NEW argv, Len(argv) \in Nat
    PROVE  \E f : ArgumentsRun(f, Len(argv), first, argv) /\ ReadFrom(first, argv) = f[Len(argv)]
<1> DEFINE run(f) == [k \in 0 .. Len(argv) |-> IF k = 0 THEN first ELSE ReadArgument(f[k - 1], argv[k])]
           state == CHOOSE f : f = run(f)
<1>1. PICK f : ArgumentsRun(f, Len(argv), first, argv)
  BY ArgumentsRunExists
<1>2. f = run(f)
  BY <1>1 DEF ArgumentsRun
<1>3. state = run(state)
  BY <1>2
<1>4. ArgumentsRun(state, Len(argv), first, argv)
  <2> HIDE DEF state
  <2> QED BY <1>3 DEF ArgumentsRun
<1>5. ReadFrom(first, argv) = state[Len(argv)]
  BY DEF ReadFrom
<1> QED BY <1>4, <1>5

\* There is only one way to read the arguments.
LEMMA ReadFromIs ==
    ASSUME NEW first, NEW argv, Len(argv) \in Nat, NEW g, g[0] = first,
           \A k \in 1 .. Len(argv) : g[k] = ReadArgument(g[k - 1], argv[k])
    PROVE  ReadFrom(first, argv) = g[Len(argv)]
<1>1. PICK f : ArgumentsRun(f, Len(argv), first, argv) /\ ReadFrom(first, argv) = f[Len(argv)]
  BY ReadFromIsRun
<1> DEFINE T == {n \in Nat : n <= Len(argv) => f[n] = g[n]}
<1>2. 0 \in T
  BY <1>1 DEF ArgumentsRun
<1>3. ASSUME NEW n \in Nat, n \in T PROVE n + 1 \in T
  <2> SUFFICES ASSUME n + 1 <= Len(argv) PROVE f[n + 1] = g[n + 1]
    OBVIOUS
  <2>1. f[n] = g[n]
    BY <1>3
  <2>2. f[n + 1] = ReadArgument(f[n], argv[n + 1])
    BY <1>1 DEF ArgumentsRun
  <2>3. n + 1 \in 1 .. Len(argv) /\ n + 1 - 1 = n
    OBVIOUS
  <2> QED BY <2>1, <2>2, <2>3
<1>4. Nat \subseteq T
  <2> HIDE DEF T
  <2> QED BY <1>2, <1>3, Induction
<1> QED BY <1>1, <1>4

LEMMA ReadOneAfterAnother ==
    ASSUME NEW S, NEW s \in Seq(S), NEW t \in Seq(S), NEW first
    PROVE  s \o t \in Seq(S) /\ ReadFrom(first, s \o t) = ReadFrom(ReadFrom(first, s), t)
<1> DEFINE both == s \o t
<1>1. /\ Len(s) \in Nat /\ Len(t) \in Nat /\ both \in Seq(S) /\ Len(both) = Len(s) + Len(t)
      /\ \A i \in 1 .. Len(s) + Len(t) : both[i] = IF i <= Len(s) THEN s[i] ELSE t[i - Len(s)]
  BY ConcatProperties, LenProperties
<1> HIDE DEF both
<1>2. Len(both) \in Nat
  BY <1>1
<1>20. PICK f : ArgumentsRun(f, Len(both), first, both) /\ ReadFrom(first, both) = f[Len(both)]
  BY <1>2, ReadFromIsRun
<1>3. f[0] = first /\ \A k \in 1 .. Len(both) : f[k] = ReadArgument(f[k - 1], both[k])
  BY <1>2, <1>20, ArgumentsRunSteps
<1>4. ReadFrom(first, s) = f[Len(s)]
  <2>1. \A k \in 1 .. Len(s) : f[k] = ReadArgument(f[k - 1], s[k])
    BY <1>1, <1>3
  <2> QED BY <1>1, <1>3, <2>1, ReadFromIs
<1>5. ReadFrom(f[Len(s)], t) = f[Len(both)]
  <2> DEFINE g == [k \in 0 .. Len(t) |-> f[Len(s) + k]]
  <2>1. g[0] = f[Len(s)] /\ g[Len(t)] = f[Len(both)]
    BY <1>1
  <2>2. ASSUME NEW k \in 1 .. Len(t) PROVE g[k] = ReadArgument(g[k - 1], t[k])
    <3>1. /\ Len(s) + k \in 1 .. Len(both) /\ Len(s) + k \in 1 .. Len(s) + Len(t) /\ ~(Len(s) + k <= Len(s))
          /\ Len(s) + k - 1 = Len(s) + (k - 1) /\ (Len(s) + k) - Len(s) = k
          /\ k - 1 \in 0 .. Len(t) /\ k \in 0 .. Len(t)
      BY <1>1
    <3>2. both[Len(s) + k] = t[k] /\ f[Len(s) + k] = ReadArgument(f[Len(s) + (k - 1)], both[Len(s) + k])
      BY <1>1, <1>3, <3>1
    <3> QED BY <3>1, <3>2
  <2> HIDE DEF g
  <2> QED BY <1>1, <2>1, <2>2, ReadFromIs
<1> QED BY <1>1, <1>20, <1>4, <1>5 DEF both

\* What main has read, with no option waiting for its argument.
Arguments(values, flags) == [option |-> "", values |-> values, flags |-> flags]

OptionNames == {"--pluginname", "--dllpath", "--dllname", "--regkey"}

LEMMA ReadNothing == \A first : ReadFrom(first, <<>>) = first
<1> TAKE first
<1> DEFINE g == [k \in {0} |-> first]
<1>1. Len(<<>>) = 0 /\ g[0] = first
  OBVIOUS
<1>2. \A k \in 1 .. Len(<<>>) : g[k] = ReadArgument(g[k - 1], <<>>[k])
  BY <1>1
<1> HIDE DEF g
<1>3. ReadFrom(first, <<>>) = g[Len(<<>>)]
  BY <1>1, <1>2, ReadFromIs
<1> QED BY <1>1, <1>3

LEMMA ReadNamed ==
    ASSUME NEW values, NEW flags, NEW name \in OptionNames, NEW value
    PROVE  ReadFrom(Arguments(values, flags), <<name, value>>) = Arguments(Put(values, name, value), flags)
<1> DEFINE first == Arguments(values, flags)
           waiting == [first EXCEPT !.option = name]
           last == Arguments(Put(values, name, value), flags)
           argv == <<name, value>>
           g == [k \in 0 .. 2 |-> IF k = 0 THEN first ELSE IF k = 1 THEN waiting ELSE last]
<1>1. Len(argv) = 2 /\ argv[1] = name /\ argv[2] = value /\ g[0] = first /\ g[1] = waiting /\ g[2] = last
  OBVIOUS
<1>2. ReadArgument(first, name) = waiting
  BY DEF ReadArgument, OptionNames, Arguments
<1>3. ReadArgument(waiting, value) = last
  <2>1. name # ""
    BY DEF OptionNames
  <2> QED BY <2>1 DEF ReadArgument, Arguments
<1> HIDE DEF g, first, waiting, last, argv
<1>4. \A k \in 1 .. Len(argv) : g[k] = ReadArgument(g[k - 1], argv[k])
  BY <1>1, <1>2, <1>3
<1>5. ReadFrom(first, argv) = g[Len(argv)]
  <2>1. Len(argv) \in Nat
    BY <1>1
  <2> QED BY <1>1, <1>4, <2>1, ReadFromIs
<1> QED BY <1>1, <1>5 DEF first, last, argv

Given(values, name, value) == IF value # "" THEN Put(values, name, value) ELSE values

LEMMA ReadOption ==
    ASSUME NEW S, NEW s \in Seq(S), NEW first, NEW values, NEW flags,
           ReadFrom(first, s) = Arguments(values, flags),
           NEW name \in OptionNames \cap S, NEW value \in S
    PROVE  /\ s \o Option(name, value) \in Seq(S)
           /\ ReadFrom(first, s \o Option(name, value)) = Arguments(Given(values, name, value), flags)
<1>1. Option(name, value) \in Seq(S)
  <2>1. <<name, value>> \in Seq(S) /\ <<>> \in Seq(S)
    OBVIOUS
  <2> QED BY <2>1, Zenon DEF Option
<1>2. ReadFrom(Arguments(values, flags), Option(name, value)) = Arguments(Given(values, name, value), flags)
  BY ReadNothing, ReadNamed DEF Option, Given
<1> QED BY <1>1, <1>2, ReadOneAfterAnother

LEMMA ReadFlags ==
    ASSUME NEW values, NEW argv \in Seq(Flags)
    PROVE  ReadFrom(Arguments(values, {}), argv) = Arguments(values, {argv[i] : i \in 1 .. Len(argv)})
<1> DEFINE g == [k \in 0 .. Len(argv) |-> Arguments(values, {argv[i] : i \in 1 .. k})]
<1>1. Len(argv) \in Nat /\ \A k \in 1 .. Len(argv) : argv[k] \in Flags
  BY LenProperties, ElementOfSeq
<1>2. g[0] = Arguments(values, {}) /\ g[Len(argv)] = Arguments(values, {argv[i] : i \in 1 .. Len(argv)})
  <2>1. {argv[i] : i \in 1 .. 0} = {} /\ 0 \in 0 .. Len(argv) /\ Len(argv) \in 0 .. Len(argv)
    BY <1>1
  <2> QED BY <2>1
<1>3. ASSUME NEW k \in 1 .. Len(argv) PROVE g[k] = ReadArgument(g[k - 1], argv[k])
  <2> DEFINE before == {argv[i] : i \in 1 .. k - 1}
             after == {argv[i] : i \in 1 .. k}
  <2>1. g[k] = Arguments(values, after) /\ g[k - 1] = Arguments(values, before)
    BY <1>1
  <2>2. after = before \cup {argv[k]}
    BY <1>1
  <2>3. argv[k] \in Flags /\ argv[k] \notin OptionNames /\ {argv[k]} \cap Flags = {argv[k]}
    BY <1>1 DEF Flags, OptionNames
  <2> HIDE DEF g, before, after
  <2>4. ReadArgument(Arguments(values, before), argv[k]) = Arguments(values, before \cup {argv[k]})
    BY <2>3 DEF ReadArgument, Arguments, OptionNames
  <2> QED BY <2>1, <2>2, <2>4
<1> HIDE DEF g
<1> QED BY <1>1, <1>2, <1>3, ReadFromIs

LEMMA FlagsFinite == IsFiniteSet(Flags)
<1>1. Flags = {"--embed"} \cup {"--windowless"} \cup {"--linuxwindowless"} \cup {"--forcesetwindow"}
              \cup {"--windowclasshook"} \cup {"--strictdrawordering"}
  BY DEF Flags
<1> QED BY <1>1, FS_Singleton, FS_Union

LEMMA SetToSeqLists ==
    ASSUME NEW S, IsFiniteSet(S)
    PROVE  SetToSeq(S) \in Seq(S) /\ {SetToSeq(S)[i] : i \in 1 .. Len(SetToSeq(S))} = S
<1> DEFINE n == Cardinality(S)
           list == SetToSeq(S)
<1>1. n \in Nat /\ ExistsBijection(1 .. n, S)
  BY FS_CardinalityType
<1>2. PICK f \in Bijection(1 .. n, S) : TRUE
  BY <1>1 DEF ExistsBijection
<1>3. f \in [1 .. n -> S] /\ IsInjective(f)
  BY <1>2 DEF Bijection, Injection, Surjection, IsInjective
<1>4. list \in [1 .. n -> S] /\ IsInjective(list)
  BY <1>3 DEF SetToSeq
<1> HIDE DEF list
<1>5. list \in Injection(1 .. n, S)
  BY <1>4 DEF Injection, IsInjective
<1>6. IsFiniteSet(1 .. n) /\ Cardinality(1 .. n) = n
  BY <1>1, FS_Interval
<1>7. list \in Surjection(1 .. n, S)
  BY <1>5, <1>6, FS_Injection
<1>8. list \in Seq(S) /\ Len(list) = n
  BY <1>1, <1>4, LenProperties
<1>9. {list[i] : i \in 1 .. n} = S
  BY <1>4, <1>7 DEF Surjection
<1> QED BY <1>8, <1>9 DEF list

LEMMA GivenThree ==
    ASSUME NEW v1, DOMAIN v1 = {"--pluginname"}, NEW flags, NEW path, NEW dll, NEW key,
           NEW v2, v2 = Given(v1, "--dllpath", path), NEW v3, v3 = Given(v2, "--dllname", dll),
           NEW v4, v4 = Given(v3, "--regkey", key)
    PROVE  LET args == Arguments(v4, flags)
           IN  /\ args.flags = flags
               /\ ValueOf(args, "--dllpath") = path
               /\ ValueOf(args, "--dllname") = dll
               /\ ValueOf(args, "--regkey") = key
<1> DEFINE o1 == "--pluginname"
           o2 == "--dllpath"
           o3 == "--dllname"
           o4 == "--regkey"
           args == Arguments(v4, flags)
<1>0. /\ o1 # o2 /\ o1 # o3 /\ o1 # o4 /\ o2 # o3 /\ o2 # o4 /\ o3 # o4
      /\ DOMAIN v1 = {o1} /\ v2 = Given(v1, o2, path) /\ v3 = Given(v2, o3, dll) /\ v4 = Given(v3, o4, key)
  OBVIOUS
<1> HIDE DEF o1, o2, o3, o4
<1>1. /\ \A x : x \in DOMAIN v2 <=> x \in DOMAIN v1 \/ (x = o2 /\ path # "")
      /\ path # "" => v2[o2] = path
  BY <1>0 DEF Given, Put
<1>2. /\ \A x : x \in DOMAIN v3 <=> x \in DOMAIN v2 \/ (x = o3 /\ dll # "")
      /\ dll # "" => v3[o3] = dll
      /\ \A x \in DOMAIN v2 : x # o3 => v3[x] = v2[x]
  BY <1>0, ZenonT(60) DEF Given, Put
<1>3. /\ \A x : x \in DOMAIN v4 <=> x \in DOMAIN v3 \/ (x = o4 /\ key # "")
      /\ key # "" => v4[o4] = key
      /\ \A x \in DOMAIN v3 : x # o4 => v4[x] = v3[x]
  BY <1>0, ZenonT(60) DEF Given, Put
<1>4. args.flags = flags /\ args.values = v4
  BY DEF Arguments
<1>5. ValueOf(args, o4) = key
  <2>1. o4 \in DOMAIN v4 <=> key # ""
    BY <1>0, <1>1, <1>2, <1>3
  <2> QED BY <1>3, <1>4, <2>1 DEF ValueOf
<1>6. ValueOf(args, o3) = dll
  <2>1. o3 \in DOMAIN v3 <=> dll # ""
    BY <1>0, <1>1, <1>2
  <2>2. o3 \in DOMAIN v4 <=> dll # ""
    BY <1>0, <1>3, <2>1
  <2>3. dll # "" => v4[o3] = dll
    BY <1>0, <1>2, <1>3, <2>1
  <2> QED BY <1>4, <2>2, <2>3 DEF ValueOf
<1>7. ValueOf(args, o2) = path
  <2>1. o2 \in DOMAIN v2 <=> path # ""
    BY <1>0, <1>1
  <2>2. o2 \in DOMAIN v3 <=> path # ""
    BY <1>0, <1>2, <2>1
  <2>3. o2 \in DOMAIN v4 <=> path # ""
    BY <1>0, <1>3, <2>2
  <2>4. path # "" => v4[o2] = path
    BY <1>0, <1>1, <1>2, <1>3, <2>1, <2>2
  <2> QED BY <1>4, <2>3, <2>4 DEF ValueOf
<1> QED BY <1>4, <1>5, <1>6, <1>7 DEF o2, o3, o4

\* pluginloader.exe has exactly the flags that are on, and the three texts as
\* they are in the configuration; an empty one is left out and stays empty.
LEMMA CommandLineIsRead ==
    ASSUME NEW name, NEW config
    PROVE  LET args == ReadArguments(CommandLine(name, config))
           IN  /\ args.flags = {flag \in Flags : config[KeyOfFlag(flag)]}
               /\ ValueOf(args, "--dllpath") = config["dllpath"]
               /\ ValueOf(args, "--dllname") = config["dllname"]
               /\ ValueOf(args, "--regkey") = config["regkey"]
<1> DEFINE path == config["dllpath"]
           dll == config["dllname"]
           key == config["regkey"]
           on == {flag \in Flags : config[KeyOfFlag(flag)]}
           S == OptionNames \cup Flags \cup {name, path, dll, key}
           v1 == Put(NoPairs, "--pluginname", name)
           v2 == Given(v1, "--dllpath", path)
           v3 == Given(v2, "--dllname", dll)
           v4 == Given(v3, "--regkey", key)
           s1 == <<"--pluginname", name>>
           s2 == s1 \o Option("--dllpath", path)
           s3 == s2 \o Option("--dllname", dll)
           s4 == s3 \o Option("--regkey", key)
           s5 == s4 \o SetToSeq(on)
           none == Arguments(NoPairs, {})
<1>1. SetToSeq(on) \in Seq(on) /\ {SetToSeq(on)[i] : i \in 1 .. Len(SetToSeq(on))} = on
  <2>1. IsFiniteSet(on)
    BY FlagsFinite, FS_Subset
  <2> HIDE DEF on
  <2> QED BY <2>1, SetToSeqLists
<1>2. SetToSeq(on) \in Seq(Flags) /\ SetToSeq(on) \in Seq(S)
  <2>1. on \subseteq Flags /\ on \subseteq S
    OBVIOUS
  <2> HIDE DEF on, S
  <2> QED BY <1>1, <2>1
<1>3. /\ {"--pluginname", "--dllpath", "--dllname", "--regkey"} \subseteq OptionNames \cap S
      /\ {name, path, dll, key} \subseteq S
  BY DEF OptionNames
<1> HIDE DEF S, on
<1>5. s1 \in Seq(S) /\ ReadFrom(none, s1) = Arguments(v1, {})
  BY <1>3, ReadNamed
<1> HIDE DEF s1, v1, none
<1>6. s2 \in Seq(S) /\ ReadFrom(none, s2) = Arguments(v2, {})
  <2>1. "--dllpath" \in OptionNames \cap S /\ path \in S
    BY <1>3
  <2> QED BY <1>5, <2>1, ReadOption
<1> HIDE DEF s2, v2
<1>7. s3 \in Seq(S) /\ ReadFrom(none, s3) = Arguments(v3, {})
  <2>1. "--dllname" \in OptionNames \cap S /\ dll \in S
    BY <1>3
  <2> QED BY <1>6, <2>1, ReadOption
<1> HIDE DEF s3, v3
<1>8. s4 \in Seq(S) /\ ReadFrom(none, s4) = Arguments(v4, {})
  <2>1. "--regkey" \in OptionNames \cap S /\ key \in S
    BY <1>3
  <2> QED BY <1>7, <2>1, ReadOption
<1> HIDE DEF s4, v4
<1>9. ReadFrom(none, s5) = Arguments(v4, on)
  <2>1. ReadFrom(none, s5) = ReadFrom(ReadFrom(none, s4), SetToSeq(on))
    BY <1>2, <1>8, ReadOneAfterAnother
  <2>2. ReadFrom(Arguments(v4, {}), SetToSeq(on)) = Arguments(v4, on)
    BY <1>1, <1>2, ReadFlags
  <2> QED BY <1>8, <2>1, <2>2
<1>10. ReadArguments(CommandLine(name, config)) = Arguments(v4, on)
  <2>1. CommandLine(name, config) = s5
    BY DEF CommandLine, s1, s2, s3, s4, on
  <2>2. ReadArguments(s5) = ReadFrom(none, s5)
    BY DEF ReadArguments, Arguments, none
  <2> HIDE DEF s5
  <2> QED BY <1>9, <2>1, <2>2
<1>11. DOMAIN v1 = {"--pluginname"}
  BY DEF v1, Put, NoPairs
<1>12. LET args == Arguments(v4, on)
       IN  /\ args.flags = on
           /\ ValueOf(args, "--dllpath") = path
           /\ ValueOf(args, "--dllname") = dll
           /\ ValueOf(args, "--regkey") = key
  <2>1. /\ v2 = Given(v1, "--dllpath", path) /\ v3 = Given(v2, "--dllname", dll)
        /\ v4 = Given(v3, "--regkey", key)
    BY DEF v2, v3, v4
  <2> QED BY <1>11, <2>1, GivenThree
<1> QED BY <1>10, <1>12 DEF on

-----------------------------------------------------------------------------
\* What is known of a process at each place of attach.
Fits(r, version, known) ==
    /\ r.pc \in {"init", "driver", "info", "save"} => {"pc", "loader", "config"} \subseteq DOMAIN r
    /\ r.pc \in {"driver", "info", "save"} =>
          "version" \in DOMAIN r.loader /\ r.loader.version \in 1 .. version
    /\ r.pc = "save" =>
          "info" \in DOMAIN r /\ r.info = InfoOf(r.loader.version, r.config) /\ r.info \in known
    /\ r.pc = "done" =>
          IF r.initOkay
          THEN r.info \in {InfoOf(v, r.config) : v \in 1 .. version}
          ELSE IF r.info = NoInfo THEN "loader" \notin DOMAIN r
          ELSE r.info \in known \cup {ErrorInfo}

Typed ==
    /\ DOMAIN proc = Process
    /\ machine \in [places : Places, version : 1 .. MaxVersion, driver : {"listed", "strict", "other"}]
    /\ history \in [starts : Nat, known : SUBSET (Info \ {NoInfo}), interrupted : BOOLEAN]

AllFit == \A p \in Process : Fits(proc[p], machine.version, history.known)

\* Every save, whoever it overlaps with, leaves its own texts in front; the
\* file is empty only while it has been opened and not yet written.
CacheFits ==
    /\ \/ cache = NoFile
       \/ cache = <<>>
       \/ \E info \in history.known : \E rest \in Seq(Nat) : cache = Written(info) \o rest
    /\ cache = <<>> => history.interrupted \/ \E p \in Process : Saving(p)
    /\ (\E p \in Process : Saving(p)) => cache # NoFile

IInv == Typed /\ AllFit /\ CacheFits

LEMMA FitsLonger ==
    ASSUME NEW r, NEW v \in Nat, NEW w \in Nat, v <= w, NEW k, NEW l, k \subseteq l, Fits(r, v, k)
    PROVE  Fits(r, w, l)
<1>1. 1 .. v \subseteq 1 .. w
  OBVIOUS
<1>2. r.info \in {InfoOf(x, r.config) : x \in 1 .. v} => r.info \in {InfoOf(x, r.config) : x \in 1 .. w}
  BY <1>1
<1> QED BY <1>1, <1>2 DEF Fits

\* The answer of the plugin is one that can be saved, and is some text.
LEMMA InfoOfPlugin ==
    ASSUME NEW v \in 1 .. MaxVersion, NEW config
    PROVE  InfoOf(v, config) \in Info /\ InfoOf(v, config) # NoInfo
<1>1. <<v>> \in Texts /\ <<v, 8, 8>> \in Texts /\ <<7>> \in Texts /\ <<9>> \in Texts
  BY VersionAssumption
<1>2. <<v>> \o <<>> = <<v>>
  BY <1>1, ConcatEmptySeq, TextAssumption
<1>3. <<v>> \o <<8, 8>> = <<v, 8, 8>>
  <2> DEFINE both == <<v>> \o <<8, 8>>
  <2>1. /\ <<v>> \in Seq(Nat) /\ <<8, 8>> \in Seq(Nat) /\ Len(<<v>>) = 1 /\ Len(<<8, 8>>) = 2
        /\ <<v>>[1] = v /\ <<8, 8>>[1] = 8 /\ <<8, 8>>[2] = 8
    BY BoundsAssumption
  <2>2. both \in Seq(Nat) /\ Len(both) = 3
        /\ \A i \in 1 .. 3 : both[i] = IF i <= 1 THEN <<v>>[i] ELSE <<8, 8>>[i - 1]
    BY <2>1, Joined
  <2>3. both[1] = v /\ both[2] = 8 /\ both[3] = 8
    BY <2>1, <2>2
  <2>4. <<v, 8, 8>> \in Seq(Nat) /\ Len(<<v, 8, 8>>) = 3
        /\ <<v, 8, 8>>[1] = v /\ <<v, 8, 8>>[2] = 8 /\ <<v, 8, 8>>[3] = 8
    BY BoundsAssumption
  <2>5. \A i \in 1 .. 3 : both[i] = <<v, 8, 8>>[i]
    BY <2>3, <2>4
  <2> QED BY <2>2, <2>4, <2>5, SeqEqual
<1>4. InfoOf(v, config) \in Info
  BY <1>1, <1>2, <1>3 DEF InfoOf, Info
<1>5. InfoOf(v, config).name = <<7>> /\ NoInfo.name = <<>> /\ <<7>> # <<>>
  BY DEF InfoOf, NoInfo
<1> QED BY <1>4, <1>5

LEMMA ErrorIsText == ErrorInfo # NoInfo
<1>1. ErrorInfo.name = <<0>> /\ NoInfo.name = <<>> /\ <<0>> # <<>>
  BY DEF ErrorInfo, NoInfo
<1> QED BY <1>1

\* loadPluginInformation finds what was saved, or nothing.
LEMMA ReadIsKnown ==
    ASSUME Typed, CacheFits, cache # NoFile, Readable(cache)
    PROVE  Read(cache) \in history.known
<1>1. cache # <<>>
  BY DEF Readable, HasText
<1>2. PICK info \in history.known : \E rest \in Seq(Nat) : cache = Written(info) \o rest
  BY <1>1 DEF CacheFits
<1>3. PICK rest \in Seq(Nat) : cache = Written(info) \o rest
  BY <1>2
<1>4. info \in Info
  BY DEF Typed
<1> QED BY <1>3, <1>4, WholeFile

-----------------------------------------------------------------------------
\* A step of one process leaves the others as they are.
Alone(p) ==
    /\ DOMAIN proc' = Process
    /\ \A q \in Process \ {p} : proc'[q] = proc[q]

LEMMA OneFits ==
    ASSUME IInv, Typed', NEW p \in Process, Alone(p), machine.version <= machine'.version,
           history.known \subseteq history'.known, Fits(proc'[p], machine'.version, history'.known)
    PROVE  AllFit'
<1>1. ASSUME NEW q \in Process, q # p
      PROVE  Fits(proc'[q], machine'.version, history'.known)
  <2>1. proc'[q] = proc[q] /\ Fits(proc[q], machine.version, history.known)
    BY <1>1 DEF Alone, IInv, AllFit
  <2>2. machine.version \in Nat /\ machine'.version \in Nat
    BY BoundsAssumption DEF IInv, Typed
  <2> QED BY <2>1, <2>2, FitsLonger
<1> QED BY <1>1 DEF AllFit

\* The steps that have nothing to do with the file.
LEMMA FileLeftAlone ==
    ASSUME IInv, NEW p \in Process, Alone(p), ~Saving(p), ~Saving(p)',
           cache' = cache, history'.known = history.known, history'.interrupted = history.interrupted
    PROVE  CacheFits'
<1>1. \A q \in Process : Saving(q)' <=> Saving(q)
  BY DEF Alone, Saving, At
<1> QED BY <1>1 DEF IInv, CacheFits

\* The steps that change neither the texts known nor the version.
LEMMA QuietStep ==
    ASSUME IInv, NEW p \in Process, Alone(p), ~Saving(p), ~Saving(p)', UNCHANGED <<cache, machine>>,
           history'.known = history.known, history'.interrupted = history.interrupted,
           history' \in [starts : Nat, known : SUBSET (Info \ {NoInfo}), interrupted : BOOLEAN],
           Fits(proc'[p], machine.version, history.known)
    PROVE  IInv'
<1>1. Typed'
  BY DEF IInv, Typed, Alone
<1>2. machine.version \in Nat
  BY BoundsAssumption DEF IInv, Typed
<1>3. AllFit'
  BY <1>1, <1>2, OneFits
<1>4. CacheFits'
  BY FileLeftAlone
<1> QED BY <1>1, <1>3, <1>4 DEF IInv

LEMMA StartKeeps ==
    ASSUME IInv, NEW p \in Process, Start(p)
    PROVE  IInv'
<1>1. PICK env \in Environment : proc' = [proc EXCEPT ![p] = [pc |-> "load", env |-> env]]
  BY DEF Start
<1>2. Alone(p) /\ proc'[p].pc = "load"
  BY <1>1 DEF Alone, IInv, Typed
<1>3. ~Saving(p) /\ ~Saving(p)'
  BY <1>2 DEF Start, Saving, At
<1>4. Fits(proc'[p], machine.version, history.known)
  BY <1>2 DEF Fits
<1>5. /\ history'.known = history.known /\ history'.interrupted = history.interrupted
      /\ history' \in [starts : Nat, known : SUBSET (Info \ {NoInfo}), interrupted : BOOLEAN]
  BY DEF Start, IInv, Typed
<1> QED BY <1>2, <1>3, <1>4, <1>5, QuietStep DEF Start

LEMMA LoadKeeps ==
    ASSUME IInv, NEW p \in Process, Load(p)
    PROVE  IInv'
<1> DEFINE loaded == LoadConfig(machine.places, proc[p].env, Files)
           r == IF loaded.result = "loaded"
                THEN [pc |-> "fork", env |-> proc[p].env, config |-> loaded.config]
                ELSE IF loaded.result = "aborted" THEN Gone
                ELSE [pc |-> "done", env |-> proc[p].env, info |-> NoInfo, initOkay |-> FALSE]
<1>1. proc' = [proc EXCEPT ![p] = r] /\ UNCHANGED <<cache, machine, history>> /\ proc[p].pc = "load"
  BY DEF Load, At
<1>2. r.pc # "save" /\ Fits(r, machine.version, history.known)
  <2> HIDE DEF loaded
  <2>1. CASE loaded.result = "loaded"
    BY <2>1 DEF Fits
  <2>2. CASE loaded.result # "loaded" /\ loaded.result = "aborted"
    BY <2>2 DEF Fits, Gone
  <2>3. CASE loaded.result # "loaded" /\ loaded.result # "aborted"
    BY <2>3 DEF Fits
  <2> QED BY <2>1, <2>2, <2>3
<1> HIDE DEF r
<1>3. Alone(p) /\ proc'[p] = r
  BY <1>1 DEF Alone, IInv, Typed
<1>4. ~Saving(p) /\ ~Saving(p)'
  BY <1>1, <1>2, <1>3 DEF Saving, At
<1>5. /\ history'.known = history.known /\ history'.interrupted = history.interrupted
      /\ history' \in [starts : Nat, known : SUBSET (Info \ {NoInfo}), interrupted : BOOLEAN]
  BY <1>1 DEF IInv, Typed
<1> QED BY <1>1, <1>2, <1>3, <1>4, <1>5, QuietStep

LEMMA StartWineKeeps ==
    ASSUME IInv, NEW p \in Process, StartWine(p)
    PROVE  IInv'
<1>1. PICK r : /\ proc' = [proc EXCEPT ![p] = r] /\ r.pc # "save"
               /\ Fits(r, machine.version, history.known)
  <2> DEFINE config == proc[p].config
             none == [pc |-> "done", env |-> proc[p].env, info |-> NoInfo, initOkay |-> FALSE]
             forked == [pc |-> "init", env |-> proc[p].env, config |-> config,
                        loader |-> Loader(CommandLine("p", config), config)]
  <2>1. proc' = [proc EXCEPT ![p] = none] \/ proc' = [proc EXCEPT ![p] = forked]
    BY DEF StartWine
  <2>2. none.pc # "save" /\ Fits(none, machine.version, history.known)
    BY DEF Fits
  <2>3. forked.pc # "save" /\ Fits(forked, machine.version, history.known)
    BY DEF Fits
  <2> HIDE DEF none, forked
  <2> QED BY <2>1, <2>2, <2>3
<1>2. Alone(p) /\ proc'[p] = r
  BY <1>1 DEF Alone, IInv, Typed
<1>3. ~Saving(p) /\ ~Saving(p)' /\ UNCHANGED <<cache, machine, history>>
  BY <1>1, <1>2 DEF StartWine, Saving, At
<1>4. /\ history'.known = history.known /\ history'.interrupted = history.interrupted
      /\ history' \in [starts : Nat, known : SUBSET (Info \ {NoInfo}), interrupted : BOOLEAN]
  BY <1>3 DEF IInv, Typed
<1> QED BY <1>1, <1>2, <1>3, <1>4, QuietStep

\* The version that is there when the plugin has been loaded stays among those
\* installed.
LEMMA InitOkayKeeps ==
    ASSUME IInv, NEW p \in Process, InitOkay(p)
    PROVE  IInv'
<1>1. /\ {"pc", "loader", "config"} \subseteq DOMAIN proc[p]
      /\ proc' = [proc EXCEPT ![p].pc = "driver",
                              ![p].loader = Extended(@, [version |-> machine.version])]
  BY DEF InitOkay, At, IInv, AllFit, Fits
<1>2. /\ Alone(p) /\ DOMAIN proc'[p] = DOMAIN proc[p] /\ proc'[p].pc = "driver"
      /\ "version" \in DOMAIN proc'[p].loader /\ proc'[p].loader.version = machine.version
  BY <1>1 DEF Alone, IInv, Typed, Extended
<1>3. Fits(proc'[p], machine.version, history.known)
  BY <1>1, <1>2 DEF Fits, IInv, Typed
<1>4. ~Saving(p) /\ ~Saving(p)' /\ UNCHANGED <<cache, machine, history>>
  BY <1>2 DEF InitOkay, Saving, At
<1>5. /\ history'.known = history.known /\ history'.interrupted = history.interrupted
      /\ history' \in [starts : Nat, known : SUBSET (Info \ {NoInfo}), interrupted : BOOLEAN]
  BY <1>4 DEF IInv, Typed
<1> QED BY <1>2, <1>3, <1>4, <1>5, QuietStep

LEMMA InitFailsKeeps ==
    ASSUME IInv, NEW p \in Process, InitFails(p)
    PROVE  IInv'
<1>1. "pc" \in DOMAIN proc[p] /\ proc' = [proc EXCEPT ![p].pc = "cached"]
  BY DEF InitFails, Goto, At, IInv, AllFit, Fits
<1>2. Alone(p) /\ proc'[p].pc = "cached"
  BY <1>1 DEF Alone, IInv, Typed
<1>3. Fits(proc'[p], machine.version, history.known)
  BY <1>2 DEF Fits
<1>4. ~Saving(p) /\ ~Saving(p)' /\ UNCHANGED <<cache, machine, history>>
  BY <1>2 DEF InitFails, Saving, At
<1>5. /\ history'.known = history.known /\ history'.interrupted = history.interrupted
      /\ history' \in [starts : Nat, known : SUBSET (Info \ {NoInfo}), interrupted : BOOLEAN]
  BY <1>4 DEF IInv, Typed
<1> QED BY <1>2, <1>3, <1>4, <1>5, QuietStep

LEMMA CheckDriverKeeps ==
    ASSUME IInv, NEW p \in Process, CheckDriver(p)
    PROVE  IInv'
<1>1. /\ {"pc", "loader", "config"} \subseteq DOMAIN proc[p]
      /\ "version" \in DOMAIN proc[p].loader /\ proc[p].loader.version \in 1 .. machine.version
  BY DEF CheckDriver, At, IInv, AllFit, Fits
<1>2. /\ Alone(p) /\ DOMAIN proc'[p] = DOMAIN proc[p] /\ proc'[p].pc = "info"
      /\ DOMAIN proc'[p].loader = DOMAIN proc[p].loader
      /\ proc'[p].loader.version = proc[p].loader.version
  <2>1. CASE ~proc[p].config["silverlightgraphicdrivercheck"]
    <3>1. proc' = [proc EXCEPT ![p].pc = "info"]
      BY <2>1 DEF CheckDriver
    <3> QED BY <1>1, <3>1 DEF Alone, IInv, Typed
  <2>2. CASE proc[p].config["silverlightgraphicdrivercheck"]
    <3>1. PICK strict, wanted :
             proc' = [proc EXCEPT ![p].pc = "info", ![p].loader.strict = strict,
                                  ![p].config["overwritearg"] = wanted]
      BY <2>2 DEF CheckDriver
    <3> QED BY <1>1, <3>1 DEF Alone, IInv, Typed
  <2> QED BY <2>1, <2>2
<1>3. Fits(proc'[p], machine.version, history.known)
  BY <1>1, <1>2 DEF Fits
<1>4. ~Saving(p) /\ ~Saving(p)' /\ UNCHANGED <<cache, machine, history>>
  BY <1>2 DEF CheckDriver, Saving, At
<1>5. /\ history'.known = history.known /\ history'.interrupted = history.interrupted
      /\ history' \in [starts : Nat, known : SUBSET (Info \ {NoInfo}), interrupted : BOOLEAN]
  BY <1>4 DEF IInv, Typed
<1> QED BY <1>2, <1>3, <1>4, <1>5, QuietStep

\* The file is emptied, and somebody is saving.
LEMMA GetInfoKeeps ==
    ASSUME IInv, NEW p \in Process, GetInfo(p)
    PROVE  IInv'
<1> DEFINE info == InfoOf(proc[p].loader.version, proc[p].config)
<1>1. /\ {"pc", "loader", "config"} \subseteq DOMAIN proc[p]
      /\ "version" \in DOMAIN proc[p].loader /\ proc[p].loader.version \in 1 .. machine.version
      /\ proc[p].pc = "info"
  BY DEF GetInfo, At, IInv, AllFit, Fits
<1>2. proc[p].loader.version \in 1 .. MaxVersion /\ machine.version \in Nat
  BY <1>1, BoundsAssumption DEF IInv, Typed
<1>3. info \in Info \ {NoInfo}
  BY <1>2, InfoOfPlugin
<1>4. UNCHANGED machine
  BY DEF GetInfo
<1>5. CASE /\ proc' = [proc EXCEPT ![p] = Extended(@, [pc |-> "save", info |-> info])]
           /\ cache' = <<>>
           /\ history' = [history EXCEPT !.known = @ \cup {info}]
  <2>1. history'.known = history.known \cup {info} /\ Typed'
    <3>1. Alone(p)
      BY <1>5 DEF Alone, IInv, Typed
    <3> HIDE DEF info
    <3> QED BY <1>3, <1>4, <1>5, <3>1 DEF Alone, IInv, Typed
  <2>2. /\ Alone(p) /\ DOMAIN proc'[p] = DOMAIN proc[p] \cup {"pc", "info"} /\ proc'[p].pc = "save"
        /\ proc'[p].info = info /\ proc'[p].loader = proc[p].loader /\ proc'[p].config = proc[p].config
    <3> HIDE DEF info
    <3> QED BY <1>1, <1>5 DEF Alone, IInv, Typed, Extended
  <2>3. Fits(proc'[p], machine'.version, history'.known)
    BY <1>1, <1>4, <2>1, <2>2 DEF Fits
  <2>4. AllFit'
    <3>1. machine.version <= machine'.version /\ history.known \subseteq history'.known
      BY <1>2, <1>4, <2>1
    <3>2. Alone(p) /\ Typed'
      BY <2>1, <2>2
    <3> QED BY <2>3, <3>1, <3>2, OneFits
  <2>5. Saving(p)' /\ cache' # NoFile
    BY <1>5, <2>2, NoFileAssumption, EmptySeq DEF Saving, At
  <2>6. CacheFits'
    BY <1>5, <2>5 DEF CacheFits
  <2> QED BY <2>1, <2>4, <2>6 DEF IInv
<1>6. CASE /\ proc' = [proc EXCEPT ![p] = Extended(@, [pc |-> "done", info |-> info, initOkay |-> TRUE])]
           /\ UNCHANGED <<cache, history>>
  <2>1. /\ Alone(p) /\ proc'[p].pc = "done" /\ proc'[p].initOkay = TRUE
        /\ proc'[p].info = info /\ proc'[p].config = proc[p].config
    <3> HIDE DEF info
    <3> QED BY <1>1, <1>6 DEF Alone, IInv, Typed, Extended
  <2>2. proc'[p].info \in {InfoOf(v, proc'[p].config) : v \in 1 .. machine.version}
    BY <1>1, <2>1
  <2>3. Fits(proc'[p], machine.version, history.known)
    BY <2>1, <2>2 DEF Fits
  <2>4. ~Saving(p) /\ ~Saving(p)'
    BY <1>1, <2>1 DEF Saving, At
  <2>5. /\ history'.known = history.known /\ history'.interrupted = history.interrupted
        /\ history' \in [starts : Nat, known : SUBSET (Info \ {NoInfo}), interrupted : BOOLEAN]
    BY <1>6 DEF IInv, Typed
  <2> HIDE DEF info
  <2> QED BY <1>4, <1>6, <2>1, <2>3, <2>4, <2>5, QuietStep
<1> QED BY <1>5, <1>6 DEF GetInfo

\* Written over whatever the others have left there.
LEMMA SaveKeeps ==
    ASSUME IInv, NEW p \in Process, Save(p)
    PROVE  IInv'
<1> DEFINE info == proc[p].info
<1>1. /\ proc[p].pc = "save" /\ {"pc", "loader", "config"} \subseteq DOMAIN proc[p]
      /\ "info" \in DOMAIN proc[p] /\ info = InfoOf(proc[p].loader.version, proc[p].config)
      /\ info \in history.known /\ proc[p].loader.version \in 1 .. machine.version
  BY DEF Save, SaveAs, Saving, At, IInv, AllFit, Fits
<1>2. /\ proc' = [proc EXCEPT ![p] = Extended(@, [pc |-> "done", initOkay |-> TRUE])]
      /\ cache' = WriteOver(cache, Written(info))
      /\ history' = [history EXCEPT !.interrupted = FALSE] /\ UNCHANGED machine
  BY DEF Save, SaveAs
<1>3. /\ Alone(p) /\ proc'[p].pc = "done" /\ proc'[p].initOkay = TRUE
      /\ proc'[p].info = info /\ proc'[p].config = proc[p].config
  BY <1>1, <1>2 DEF Alone, IInv, Typed, Extended
<1>4. Typed' /\ history'.known = history.known /\ machine.version <= machine'.version
  <2>1. /\ history' \in [starts : Nat, known : SUBSET (Info \ {NoInfo}), interrupted : BOOLEAN]
        /\ history'.known = history.known
    BY <1>2 DEF IInv, Typed
  <2>2. machine.version \in Nat
    BY BoundsAssumption DEF IInv, Typed
  <2>3. UNCHANGED machine
    BY <1>2
  <2>4. Typed'
    BY <1>3, <2>1, <2>3 DEF Alone, IInv, Typed
  <2> QED BY <2>1, <2>2, <2>3, <2>4
<1>5. AllFit'
  <2>1. proc'[p].info \in {InfoOf(v, proc'[p].config) : v \in 1 .. machine'.version}
    BY <1>1, <1>2, <1>3
  <2>2. Fits(proc'[p], machine'.version, history'.known)
    BY <1>3, <2>1 DEF Fits
  <2> QED BY <1>3, <1>4, <2>2, OneFits
<1>6. PICK rest \in Seq(Nat) : cache' = Written(info) \o rest
  <2>1. info \in Info
    BY <1>1 DEF IInv, Typed
  <2>2. cache \in Seq(Nat)
    <3>1. cache # NoFile
      BY <1>1 DEF IInv, CacheFits, Saving, At
    <3>2. ASSUME NEW saved \in history.known, NEW rest \in Seq(Nat), cache = Written(saved) \o rest
          PROVE  cache \in Seq(Nat)
      BY <3>2, WholeFile DEF IInv, Typed
    <3> QED BY <3>1, <3>2, EmptySeq DEF IInv, CacheFits
  <2> QED BY <1>2, <2>1, <2>2, SavedOver
<1>7. cache' # NoFile /\ cache' # <<>>
  <2>1. info \in Info
    BY <1>1 DEF IInv, Typed
  <2>2. cache' \in Seq(Nat) /\ Readable(cache')
    BY <1>6, <2>1, WholeFile
  <2> QED BY <2>2, NoFileAssumption DEF Readable, HasText
<1>8. CacheFits'
  BY <1>1, <1>4, <1>6, <1>7 DEF CacheFits
<1> QED BY <1>4, <1>5, <1>8 DEF IInv

LEMMA SaveFailsKeeps ==
    ASSUME IInv, NEW p \in Process, SaveFails(p)
    PROVE  IInv'
<1>1. /\ proc[p].pc = "save" /\ {"pc", "loader", "config"} \subseteq DOMAIN proc[p]
      /\ "info" \in DOMAIN proc[p] /\ proc[p].info = InfoOf(proc[p].loader.version, proc[p].config)
      /\ proc[p].loader.version \in 1 .. machine.version
  BY DEF SaveFails, Saving, At, IInv, AllFit, Fits
<1>2. /\ proc' = [proc EXCEPT ![p] = Extended(@, [pc |-> "done", initOkay |-> TRUE])]
      /\ history' = [history EXCEPT !.interrupted = TRUE] /\ UNCHANGED <<cache, machine>>
  BY DEF SaveFails
<1>3. /\ Alone(p) /\ proc'[p].pc = "done" /\ proc'[p].initOkay = TRUE
      /\ proc'[p].info = proc[p].info /\ proc'[p].config = proc[p].config
  BY <1>1, <1>2 DEF Alone, IInv, Typed, Extended
<1>4. Typed' /\ history'.known = history.known /\ machine.version <= machine'.version
  <2>1. /\ history' \in [starts : Nat, known : SUBSET (Info \ {NoInfo}), interrupted : BOOLEAN]
        /\ history'.known = history.known
    BY <1>2 DEF IInv, Typed
  <2>2. machine.version \in Nat
    BY BoundsAssumption DEF IInv, Typed
  <2>3. UNCHANGED machine
    BY <1>2
  <2>4. Typed'
    BY <1>3, <2>1, <2>3 DEF Alone, IInv, Typed
  <2> QED BY <2>1, <2>2, <2>3, <2>4
<1>5. AllFit'
  <2>1. proc'[p].info \in {InfoOf(v, proc'[p].config) : v \in 1 .. machine'.version}
    BY <1>1, <1>2, <1>3
  <2>2. Fits(proc'[p], machine'.version, history'.known)
    BY <1>3, <2>1 DEF Fits
  <2> QED BY <1>3, <1>4, <2>2, OneFits
<1>6. history'.interrupted = TRUE /\ cache' = cache /\ cache # NoFile
  BY <1>1, <1>2 DEF IInv, Typed, CacheFits, Saving, At
<1>7. CacheFits'
  BY <1>4, <1>6 DEF IInv, CacheFits
<1> QED BY <1>4, <1>5, <1>7 DEF IInv

LEMMA LoadInfoKeeps ==
    ASSUME IInv, NEW p \in Process, LoadInfo(p)
    PROVE  IInv'
<1>1. PICK info \in history.known \cup {ErrorInfo} :
          proc' = [proc EXCEPT ![p] = Extended(@, [pc |-> "done", info |-> info, initOkay |-> FALSE])]
  <2>1. CASE cache # NoFile /\ Readable(cache) /\ proc[p].env.home
    BY <2>1, ReadIsKnown DEF LoadInfo, Failed, IInv
  <2>2. CASE ~(cache # NoFile /\ Readable(cache) /\ proc[p].env.home)
    BY <2>2 DEF LoadInfo, Failed
  <2> QED BY <2>1, <2>2
<1>2. info # NoInfo
  BY <1>1, ErrorIsText DEF IInv, Typed
<1>3. /\ Alone(p) /\ proc'[p].pc = "done" /\ proc'[p].initOkay = FALSE
      /\ proc'[p].info = info
  BY <1>1 DEF Alone, IInv, Typed, Extended
<1>4. Fits(proc'[p], machine.version, history.known)
  BY <1>1, <1>2, <1>3 DEF Fits
<1>5. ~Saving(p) /\ ~Saving(p)' /\ UNCHANGED <<cache, machine, history>>
  BY <1>3 DEF LoadInfo, Saving, At
<1>6. /\ history'.known = history.known /\ history'.interrupted = history.interrupted
      /\ history' \in [starts : Nat, known : SUBSET (Info \ {NoInfo}), interrupted : BOOLEAN]
  BY <1>5 DEF IInv, Typed
<1> QED BY <1>3, <1>4, <1>5, <1>6, QuietStep

\* A process that is killed while it saves leaves the file cut off.
LEMMA KillKeeps ==
    ASSUME IInv, NEW p \in Process, Kill(p)
    PROVE  IInv'
<1>1. /\ proc' = [proc EXCEPT ![p] = Gone] /\ UNCHANGED <<cache, machine>>
      /\ history' = [history EXCEPT !.interrupted = @ \/ Saving(p)]
  BY DEF Kill
<1>2. Alone(p) /\ proc'[p] = Gone
  BY <1>1 DEF Alone, IInv, Typed
<1>3. /\ history'.known = history.known /\ history'.starts = history.starts
      /\ history'.interrupted = (history.interrupted \/ Saving(p))
  BY <1>1 DEF IInv, Typed
<1>4. Typed' /\ machine.version <= machine'.version
  <2>1. history' \in [starts : Nat, known : SUBSET (Info \ {NoInfo}), interrupted : BOOLEAN]
    BY <1>1 DEF IInv, Typed
  <2>2. machine.version \in Nat
    BY BoundsAssumption DEF IInv, Typed
  <2> QED BY <1>1, <1>2, <2>1, <2>2 DEF Alone, IInv, Typed
<1>5. AllFit'
  <2>1. Fits(proc'[p], machine'.version, history'.known)
    BY <1>2 DEF Fits, Gone
  <2> QED BY <1>2, <1>3, <1>4, <2>1, OneFits
<1>6. CacheFits'
  <2>1. \A q \in Process : Saving(q)' => Saving(q)
    BY <1>2 DEF Alone, Gone, Saving, At
  <2>2. \A q \in Process \ {p} : Saving(q)' <=> Saving(q)
    BY <1>2 DEF Alone, Saving, At
  <2> QED BY <1>1, <1>3, <2>1, <2>2 DEF IInv, CacheFits
<1> QED BY <1>4, <1>5, <1>6 DEF IInv

LEMMA InstallKeeps ==
    ASSUME IInv, InstallVersion
    PROVE  IInv'
<1>1. /\ machine' \in [places : Places, version : 1 .. MaxVersion, driver : {"listed", "strict", "other"}]
      /\ machine.version \in Nat /\ machine'.version = machine.version + 1
      /\ UNCHANGED <<proc, cache, history>>
  BY BoundsAssumption DEF InstallVersion, IInv, Typed
<1>2. Typed'
  BY <1>1 DEF IInv, Typed
<1>3. AllFit'
  <2>1. ASSUME NEW p \in Process
        PROVE  Fits(proc[p], machine'.version, history.known)
    <3>1. Fits(proc[p], machine.version, history.known)
      BY DEF IInv, AllFit
    <3>2. machine'.version \in Nat /\ machine.version <= machine'.version
      BY <1>1
    <3> QED BY <1>1, <3>1, <3>2, FitsLonger
  <2> QED BY <1>1, <2>1 DEF AllFit
<1>4. CacheFits'
  BY <1>1 DEF IInv, CacheFits, Saving, At
<1> QED BY <1>2, <1>3, <1>4 DEF IInv

-----------------------------------------------------------------------------
(***************************************************************************)
(* What a process has made of the files and of its environment, at each    *)
(* place of attach: the configuration is the one loadConfig returns, until *)
(* the driver is checked, and pluginloader.exe has read what was made of   *)
(* it.                                                                     *)
(***************************************************************************)
Checked(base, config, strict, driver) ==
    LET asked  == base["experimental-strictdrawordering"]
        checks == base["silverlightgraphicdrivercheck"]
        wanted == base["overwritearg"]
    IN  /\ strict = (asked \/ (checks /\ driver = "strict"))
        /\ config["overwritearg"] = IF checks /\ driver = "other" THEN WithPair(wanted, Acceleration, "false")
                                    ELSE wanted

Reads(r, base) ==
    /\ r.pc # "gone" /\ {"config", "pc"} \subseteq DOMAIN r
    /\ {"args", "strict", "file"} \subseteq DOMAIN r.loader
    /\ r.loader.args = ReadArguments(CommandLine("p", base))
    /\ r.loader.file = PluginFile(r.loader.args, Registry)
    /\ \A key \in AllKeys \ {"overwritearg"} : r.config[key] = base[key]

Knows(r, places, driver) ==
    LET loaded == LoadConfig(places, r.env, Files)
    IN  /\ r.pc # "gone" => "env" \in DOMAIN r /\ r.env \in Environment
        /\ r.pc = "fork" => "config" \in DOMAIN r /\ loaded.result = "loaded" /\ r.config = loaded.config
        /\ "loader" \in DOMAIN r => loaded.result = "loaded" /\ Reads(r, loaded.config)
        /\ r.pc \in {"init", "driver"} =>
              /\ "loader" \in DOMAIN r /\ r.config = loaded.config
              /\ r.loader.strict = loaded.config["experimental-strictdrawordering"]
        /\ r.pc = "info" =>
              "loader" \in DOMAIN r /\ Checked(loaded.config, r.config, r.loader.strict, driver)

AllKnow == \A p \in Process : Knows(proc[p], machine.places, machine.driver)

LEMMA LoadedOK ==
    ASSUME NEW places \in Places, NEW env \in Environment, LoadConfig(places, env, Files).result = "loaded",
           NEW config, config = LoadConfig(places, env, Files).config,
           NEW given, given = LoadConfig(places, Unasked(env), Files).config
    PROVE  /\ ConfigOK(config)
           /\ config["linuxwindowlessmode"] => config["windowlessmode"]
           /\ (config["dllpath"] # "" /\ config["dllname"] # "") \/ config["regkey"] # ""
           /\ \/ Decided(config, given, env)
              \/ config = given /\ ~given["silverlightgraphicdrivercheck"]
<1>1. places \in Seq(Seq(Line)) /\ env \in EnvironmentRecord
  BY PlacesAssumption, EnvironmentAssumption DEF EnvironmentRecord
<1>2. PICK file :
         /\ ConfigOK(file) /\ HasNecessaryKeys(file)
         /\ file["linuxwindowlessmode"] => file["windowlessmode"]
         /\ LoadConfig(places, env, Files) =
               [result |-> "loaded", config |-> EnvironmentGpu(EnvironmentModes(file, env), env)]
         /\ LoadConfig(places, Unasked(env), Files) =
               [result |-> "loaded",
                config |-> EnvironmentGpu(EnvironmentModes(file, env), Unasked(env))]
  BY <1>1, FromFile
<1> DEFINE modes == EnvironmentModes(file, env)
<1>3. /\ ConfigOK(modes)
      /\ modes["linuxwindowlessmode"] => modes["windowlessmode"]
      /\ (modes["dllpath"] # "" /\ modes["dllname"] # "") \/ modes["regkey"] # ""
  BY <1>1, <1>2, ModesOK
<1>4. config = EnvironmentGpu(modes, env) /\ given = EnvironmentGpu(modes, Unasked(env))
  BY <1>2
<1> HIDE DEF modes
<1>5. /\ ConfigOK(config)
      /\ \A key \in AllKeys \ GpuKeys : config[key] = modes[key]
      /\ modes["silverlightgraphicdrivercheck"] => Decided(config, given, env)
      /\ ~modes["silverlightgraphicdrivercheck"] =>
            config = given /\ ~given["silverlightgraphicdrivercheck"]
  <2>1. ConfigOK(modes) /\ env \in EnvironmentRecord
    BY <1>1, <1>3
  <2>2. config = EnvironmentGpu(modes, env) /\ given = EnvironmentGpu(modes, Unasked(env))
    BY <1>4
  <2>3. ConfigOK(config)
    BY <2>1, <2>2, GpuOK, Zenon
  <2>4. \A key \in AllKeys \ GpuKeys : config[key] = modes[key]
    BY <2>1, <2>2, GpuOK
  <2>5. modes["silverlightgraphicdrivercheck"] => Decided(config, given, env)
    BY <2>1, <2>2, GpuOK, Zenon
  <2>6. ~modes["silverlightgraphicdrivercheck"] =>
            config = given /\ ~given["silverlightgraphicdrivercheck"]
    BY <2>1, <2>2, GpuOK
  <2> QED BY <2>3, <2>4, <2>5, <2>6
<1>6. {"linuxwindowlessmode", "windowlessmode", "dllpath", "dllname", "regkey"} \subseteq AllKeys \ GpuKeys
  BY SwitchNames DEF AllKeys, GpuKeys
<1>7. /\ config["linuxwindowlessmode"] = modes["linuxwindowlessmode"]
      /\ config["windowlessmode"] = modes["windowlessmode"]
      /\ config["dllpath"] = modes["dllpath"] /\ config["dllname"] = modes["dllname"]
      /\ config["regkey"] = modes["regkey"]
  BY <1>5, <1>6
<1>8. modes["silverlightgraphicdrivercheck"] \in BOOLEAN
  BY <1>3 DEF ConfigOK
<1> QED BY <1>3, <1>5, <1>7, <1>8

\* The process p has taken a step, and knows what it should.
LEMMA OneKnows ==
    ASSUME AllKnow, NEW p \in Process, Alone(p), machine'.places = machine.places,
           machine'.driver = machine.driver, Knows(proc'[p], machine.places, machine.driver)
    PROVE  AllKnow'
BY DEF AllKnow, Alone

\* A step after which a process only shows what it has.
LEMMA KnowsOn ==
    ASSUME NEW r, NEW s, NEW places, NEW driver, Knows(r, places, driver), r.pc # "gone",
           s.pc \in {"cached", "save", "done"}, {"pc", "env"} \subseteq DOMAIN s, s.env = r.env,
           "loader" \in DOMAIN s => "loader" \in DOMAIN r /\ s.loader = r.loader,
           "config" \in DOMAIN r => "config" \in DOMAIN s /\ s.config = r.config
    PROVE  Knows(s, places, driver)
BY DEF Knows, Reads

LEMMA ExtendedIs ==
    ASSUME NEW r, NEW fields
    PROVE  /\ DOMAIN Extended(r, fields) = DOMAIN r \cup DOMAIN fields
           /\ \A x \in DOMAIN fields : Extended(r, fields)[x] = fields[x]
           /\ \A x \in DOMAIN r \ DOMAIN fields : Extended(r, fields)[x] = r[x]
BY DEF Extended

LEMMA FlagKeys ==
    /\ \A flag \in Flags : KeyOfFlag(flag) \in SwitchKeys
    /\ KeyOfFlag("--windowless") = "windowlessmode"
    /\ KeyOfFlag("--linuxwindowless") = "linuxwindowlessmode"
    /\ KeyOfFlag("--strictdrawordering") = "experimental-strictdrawordering"
    /\ {"--windowless", "--linuxwindowless", "--strictdrawordering"} \subseteq Flags
<1>1. /\ KeyOfFlag("--embed") = "embed" /\ KeyOfFlag("--windowless") = "windowlessmode"
      /\ KeyOfFlag("--linuxwindowless") = "linuxwindowlessmode"
      /\ KeyOfFlag("--forcesetwindow") = "experimental-forcesetwindow"
      /\ KeyOfFlag("--windowclasshook") = "experimental-windowclasshook"
      /\ KeyOfFlag("--strictdrawordering") = "experimental-strictdrawordering"
  BY DEF KeyOfFlag
<1> QED BY <1>1 DEF Flags, SwitchKeys

LEMMA StartKnows ==
    ASSUME IInv, AllKnow, NEW p \in Process, Start(p)
    PROVE  AllKnow'
<1>1. PICK env \in Environment : proc' = [proc EXCEPT ![p] = [pc |-> "load", env |-> env]]
  BY DEF Start
<1>2. Alone(p) /\ proc'[p] = [pc |-> "load", env |-> env] /\ UNCHANGED machine
  BY <1>1 DEF Alone, IInv, Typed, Start
<1>3. Knows(proc'[p], machine.places, machine.driver)
  BY <1>2 DEF Knows
<1> QED BY <1>2, <1>3, OneKnows

LEMMA LoadKnows ==
    ASSUME IInv, AllKnow, NEW p \in Process, Load(p)
    PROVE  AllKnow'
<1> DEFINE env == proc[p].env
           loaded == LoadConfig(machine.places, env, Files)
           fork == [pc |-> "fork", env |-> env, config |-> loaded.config]
           done == [pc |-> "done", env |-> env, info |-> NoInfo, initOkay |-> FALSE]
<1>1. /\ env \in Environment /\ UNCHANGED machine
      /\ proc' = [proc EXCEPT ![p] = IF loaded.result = "loaded" THEN fork
                                     ELSE IF loaded.result = "aborted" THEN Gone ELSE done]
  BY DEF Load, At, AllKnow, Knows
<1>2. Knows(Gone, machine.places, machine.driver) /\ Knows(done, machine.places, machine.driver)
  BY <1>1 DEF Knows, Gone
<1>3. loaded.result = "loaded" => Knows(fork, machine.places, machine.driver)
  BY <1>1 DEF Knows
<1> HIDE DEF fork, done
<1>4. Alone(p) /\ Knows(proc'[p], machine.places, machine.driver)
  <2>1. proc'[p] = IF loaded.result = "loaded" THEN fork
                   ELSE IF loaded.result = "aborted" THEN Gone ELSE done
    BY <1>1 DEF IInv, Typed
  <2> QED BY <1>1, <1>2, <1>3, <2>1 DEF Alone, IInv, Typed
<1> QED BY <1>1, <1>4, OneKnows

\* pluginloader.exe has read what the configuration was turned into.
LEMMA StartWineKnows ==
    ASSUME IInv, AllKnow, NEW p \in Process, StartWine(p)
    PROVE  AllKnow'
<1> DEFINE env == proc[p].env
           base == LoadConfig(machine.places, env, Files).config
           given == LoadConfig(machine.places, Unasked(env), Files).config
           loader == Loader(CommandLine("p", base), base)
           forked == [pc |-> "init", env |-> env, config |-> base, loader |-> loader]
           done == [pc |-> "done", env |-> env, info |-> NoInfo, initOkay |-> FALSE]
<1>1. /\ env \in Environment /\ UNCHANGED machine /\ proc[p].config = base
      /\ LoadConfig(machine.places, env, Files).result = "loaded"
      /\ proc' = [proc EXCEPT ![p] = done] \/ proc' = [proc EXCEPT ![p] = forked]
  BY DEF StartWine, At, AllKnow, Knows
<1>2. Knows(done, machine.places, machine.driver)
  BY <1>1 DEF Knows
<1>3. ConfigOK(base)
  <2>1. machine.places \in Places
    BY DEF IInv, Typed
  <2> HIDE DEF base, given
  <2> QED BY <1>1, <2>1, LoadedOK, ZenonT(60) DEF base, given
<1>4. base["experimental-strictdrawordering"] \in BOOLEAN
  BY <1>3, SwitchNames DEF ConfigOK
<1>5. /\ DOMAIN loader = {"args", "strict", "file"}
      /\ loader.args = ReadArguments(CommandLine("p", base))
      /\ loader.file = PluginFile(loader.args, Registry)
      /\ loader.strict = base["experimental-strictdrawordering"]
  <2>1. ReadArguments(CommandLine("p", base)).flags = {flag \in Flags : base[KeyOfFlag(flag)]}
    BY CommandLineIsRead
  <2> HIDE DEF base
  <2>2. ("--strictdrawordering" \in ReadArguments(CommandLine("p", base)).flags) =
            base["experimental-strictdrawordering"]
    BY <1>4, <2>1, FlagKeys
  <2> QED BY <2>2 DEF Loader
<1> HIDE DEF loader
<1>6. Knows(forked, machine.places, machine.driver)
  <2> HIDE DEF base
  <2>1. Reads(forked, base)
    BY <1>5 DEF Reads
  <2> QED BY <1>1, <1>5, <2>1 DEF Knows, base
<1> HIDE DEF forked, done
<1>7. Alone(p) /\ Knows(proc'[p], machine.places, machine.driver)
  BY <1>1, <1>2, <1>6 DEF Alone, IInv, Typed
<1> QED BY <1>1, <1>7, OneKnows

LEMMA InitOkayKnows ==
    ASSUME IInv, AllKnow, NEW p \in Process, InitOkay(p)
    PROVE  AllKnow'
<1> DEFINE r == proc[p]
           loader == Extended(r.loader, [version |-> machine.version])
           s == [r EXCEPT !.pc = "driver", !.loader = loader]
<1>1. /\ Knows(r, machine.places, machine.driver) /\ r.pc = "init" /\ UNCHANGED machine
      /\ {"pc", "loader", "config"} \subseteq DOMAIN r /\ proc' = [proc EXCEPT ![p] = s]
  BY DEF InitOkay, At, IInv, AllFit, Fits, AllKnow
<1>2. {"args", "strict", "file"} \subseteq DOMAIN r.loader
  BY <1>1 DEF Knows, Reads
<1>3. /\ DOMAIN loader = DOMAIN r.loader \cup {"version"} /\ loader.args = r.loader.args
      /\ loader.strict = r.loader.strict /\ loader.file = r.loader.file
  BY <1>2 DEF Extended
<1> HIDE DEF loader
<1>4. /\ DOMAIN s = DOMAIN r /\ s.pc = "driver" /\ s.loader = loader
      /\ "env" \in DOMAIN r => s.env = r.env
      /\ s.config = r.config
  BY <1>1
<1> HIDE DEF s
<1>5. Knows(s, machine.places, machine.driver)
  BY <1>1, <1>3, <1>4 DEF Knows, Reads
<1>6. Alone(p) /\ proc'[p] = s
  BY <1>1 DEF Alone, IInv, Typed
<1> QED BY <1>1, <1>5, <1>6, OneKnows

LEMMA InitFailsKnows ==
    ASSUME IInv, AllKnow, NEW p \in Process, InitFails(p)
    PROVE  AllKnow'
<1>1. /\ Knows(proc[p], machine.places, machine.driver) /\ proc[p].pc = "init" /\ UNCHANGED machine
      /\ {"pc", "loader", "config"} \subseteq DOMAIN proc[p] /\ proc' = [proc EXCEPT ![p].pc = "cached"]
  BY DEF InitFails, Goto, At, IInv, AllFit, Fits, AllKnow
<1>2. "env" \in DOMAIN proc[p]
  BY <1>1 DEF Knows
<1>3. /\ Alone(p) /\ DOMAIN proc'[p] = DOMAIN proc[p] /\ proc'[p].pc = "cached"
      /\ proc'[p].env = proc[p].env /\ proc'[p].loader = proc[p].loader /\ proc'[p].config = proc[p].config
  BY <1>1, <1>2 DEF Alone, IInv, Typed
<1>4. Knows(proc'[p], machine.places, machine.driver)
  BY <1>1, <1>2, <1>3, KnowsOn
<1> QED BY <1>1, <1>3, <1>4, OneKnows

\* The driver, if nothing else has decided.
LEMMA CheckDriverKnows ==
    ASSUME IInv, AllKnow, NEW p \in Process, CheckDriver(p)
    PROVE  AllKnow'
<1> DEFINE r == proc[p]
           loaded == LoadConfig(machine.places, r.env, Files)
           base == loaded.config
           wanted == IF machine.driver # "other" THEN r.config["overwritearg"]
                     ELSE WithPair(r.config["overwritearg"], Acceleration, "false")
           strict == r.loader.strict \/ machine.driver = "strict"
           config == [r.config EXCEPT !["overwritearg"] = wanted]
           loader == [r.loader EXCEPT !.strict = strict]
           s == [r EXCEPT !.pc = "info", !.loader = loader, !.config = config]
<1>1. /\ Knows(r, machine.places, machine.driver) /\ r.pc = "driver" /\ UNCHANGED machine
      /\ {"pc", "loader", "config"} \subseteq DOMAIN r /\ r.config = base
  BY DEF CheckDriver, At, IInv, AllFit, Fits, AllKnow, Knows
<1>2. /\ "env" \in DOMAIN r /\ r.env \in Environment /\ loaded.result = "loaded" /\ Reads(r, base)
      /\ r.loader.strict = base["experimental-strictdrawordering"]
  BY <1>1 DEF Knows
<1>3. ConfigOK(base)
  <2> DEFINE given == LoadConfig(machine.places, Unasked(r.env), Files).config
  <2>1. machine.places \in Places
    BY DEF IInv, Typed
  <2> HIDE DEF base, given, loaded
  <2> QED BY <1>2, <2>1, LoadedOK, ZenonT(60) DEF base, given, loaded
<1> HIDE DEF loaded, base
<1>4. CASE ~r.config["silverlightgraphicdrivercheck"]
  <2>1. proc' = [proc EXCEPT ![p].pc = "info"]
    BY <1>4 DEF CheckDriver
  <2>2. /\ Alone(p) /\ DOMAIN proc'[p] = DOMAIN r /\ proc'[p].pc = "info" /\ proc'[p].env = r.env
        /\ proc'[p].loader = r.loader /\ proc'[p].config = r.config
    BY <1>1, <1>2, <2>1 DEF Alone, IInv, Typed
  <2>3. Checked(base, proc'[p].config, proc'[p].loader.strict, machine.driver)
    <3>1. base["experimental-strictdrawordering"] \in BOOLEAN
      BY <1>3, SwitchNames DEF ConfigOK
    <3> QED BY <1>1, <1>2, <1>4, <2>2, <3>1 DEF Checked
  <2>4. Reads(proc'[p], base)
    BY <1>2, <2>2 DEF Reads
  <2>5. Knows(proc'[p], machine.places, machine.driver)
    BY <1>1, <1>2, <2>2, <2>3, <2>4 DEF Knows, loaded, base
  <2> QED BY <1>1, <2>2, <2>5, OneKnows
<1>5. CASE r.config["silverlightgraphicdrivercheck"]
  <2>1. proc' = [proc EXCEPT ![p].pc = "info", ![p].loader.strict = strict,
                             ![p].config["overwritearg"] = wanted]
    BY <1>5 DEF CheckDriver
  <2>2. Alone(p) /\ proc'[p] = s
    BY <2>1 DEF Alone, IInv, Typed
  <2>3. /\ DOMAIN config = DOMAIN base /\ config["overwritearg"] = wanted
        /\ \A key \in AllKeys \ {"overwritearg"} : config[key] = base[key]
    BY <1>1, <1>3, SwitchNames DEF ConfigOK, AllKeys
  <2>4. /\ DOMAIN loader = DOMAIN r.loader /\ loader.strict = strict
        /\ loader.args = r.loader.args /\ loader.file = r.loader.file
    BY <1>2 DEF Reads
  <2> HIDE DEF config, loader
  <2>5. /\ DOMAIN s = DOMAIN r /\ s.pc = "info" /\ s.loader = loader /\ s.config = config /\ s.env = r.env
    BY <1>1, <1>2
  <2>6. Checked(base, config, loader.strict, machine.driver)
    BY <1>1, <1>2, <1>5, <2>3, <2>4 DEF Checked
  <2> HIDE DEF s
  <2>7. Reads(s, base)
    BY <1>2, <2>3, <2>4, <2>5 DEF Reads
  <2>8. Knows(s, machine.places, machine.driver)
    BY <1>1, <1>2, <2>5, <2>6, <2>7 DEF Knows, loaded, base
  <2> QED BY <1>1, <2>2, <2>8, OneKnows
<1> QED BY <1>4, <1>5

\* What is shown is added; the rest stays.
LEMMA ExtendedKnows ==
    ASSUME IInv, AllKnow, NEW p \in Process, proc[p].pc # "gone", UNCHANGED machine,
           NEW fields, "pc" \in DOMAIN fields, {"env", "loader", "config"} \cap DOMAIN fields = {},
           fields.pc \in {"save", "done"}, proc' = [proc EXCEPT ![p] = Extended(@, fields)]
    PROVE  AllKnow'
<1>1. Knows(proc[p], machine.places, machine.driver)
  BY DEF AllKnow
<1>2. "env" \in DOMAIN proc[p]
  BY <1>1 DEF Knows
<1>3. Alone(p) /\ proc'[p] = Extended(proc[p], fields)
  BY DEF Alone, IInv, Typed
<1>4. /\ DOMAIN proc'[p] = DOMAIN proc[p] \cup DOMAIN fields /\ proc'[p].pc = fields.pc
      /\ proc'[p].env = proc[p].env
      /\ "loader" \in DOMAIN proc[p] => proc'[p].loader = proc[p].loader
      /\ "config" \in DOMAIN proc[p] => proc'[p].config = proc[p].config
  BY <1>2, <1>3 DEF Extended
<1>5. Knows(proc'[p], machine.places, machine.driver)
  BY <1>1, <1>2, <1>4, KnowsOn
<1> QED BY <1>3, <1>5, OneKnows

LEMMA ShowsKnows ==
    ASSUME IInv, AllKnow, NEW p \in Process, GetInfo(p) \/ Save(p) \/ SaveFails(p) \/ LoadInfo(p)
    PROVE  AllKnow'
<1>1. PICK info, okay :
        \/ proc' = [proc EXCEPT ![p] = Extended(@, [pc |-> "save", info |-> info])]
        \/ proc' = [proc EXCEPT ![p] = Extended(@, [pc |-> "done", initOkay |-> okay])]
        \/ proc' = [proc EXCEPT ![p] = Extended(@, [pc |-> "done", info |-> info, initOkay |-> okay])]
  BY DEF GetInfo, Save, SaveAs, SaveFails, LoadInfo, Failed
<1>2. proc[p].pc # "gone" /\ UNCHANGED machine
  BY DEF GetInfo, Save, SaveAs, SaveFails, LoadInfo, Saving, At
<1> DEFINE f1 == [pc |-> "save", info |-> info]
           f2 == [pc |-> "done", initOkay |-> okay]
           f3 == [pc |-> "done", info |-> info, initOkay |-> okay]
<1>3. \A f \in {f1, f2, f3} : /\ "pc" \in DOMAIN f /\ {"env", "loader", "config"} \cap DOMAIN f = {}
                              /\ f.pc \in {"save", "done"}
  OBVIOUS
<1>4. PICK f \in {f1, f2, f3} : proc' = [proc EXCEPT ![p] = Extended(@, f)]
  BY <1>1
<1> HIDE DEF f1, f2, f3
<1> QED BY <1>2, <1>3, <1>4, ExtendedKnows

LEMMA KillKnows ==
    ASSUME IInv, AllKnow, NEW p \in Process, Kill(p)
    PROVE  AllKnow'
<1>1. Alone(p) /\ proc'[p] = Gone /\ UNCHANGED machine
  BY DEF Kill, Alone, IInv, Typed
<1>2. Knows(Gone, machine.places, machine.driver)
  BY DEF Knows, Gone
<1> QED BY <1>1, <1>2, OneKnows

-----------------------------------------------------------------------------
LEMMA IInvInit ==
    ASSUME Init
    PROVE  IInv
<1>1. Typed
  BY BoundsAssumption DEF Init, Typed
<1>2. AllFit
  BY DEF Init, AllFit, Fits, Gone
<1>3. CacheFits
  <2>1. cache # <<>>
    BY NoFileAssumption, EmptySeq DEF Init
  <2>2. \A p \in Process : ~Saving(p)
    BY DEF Init, Saving, At, Gone
  <2> QED BY <2>1, <2>2 DEF Init, CacheFits
<1> QED BY <1>1, <1>2, <1>3 DEF IInv

LEMMA IInvNext ==
    ASSUME IInv, [Next]_vars
    PROVE  IInv'
<1>1. ASSUME NEW p \in Process,
             \/ Start(p) \/ Load(p) \/ StartWine(p) \/ InitOkay(p) \/ InitFails(p) \/ CheckDriver(p)
             \/ GetInfo(p) \/ Save(p) \/ SaveFails(p) \/ LoadInfo(p) \/ Kill(p)
      PROVE  IInv'
  BY <1>1, StartKeeps, LoadKeeps, StartWineKeeps, InitOkayKeeps, InitFailsKeeps, CheckDriverKeeps,
     GetInfoKeeps, SaveKeeps, SaveFailsKeeps, LoadInfoKeeps, KillKeeps
<1>2. CASE InstallVersion
  BY <1>2, InstallKeeps
<1>3. CASE UNCHANGED vars
  BY <1>3 DEF vars, IInv, Typed, AllFit, CacheFits, Saving, At
<1> QED BY <1>1, <1>2, <1>3 DEF Next

LEMMA IInvAlways == Spec => []IInv
<1> QED BY IInvInit, IInvNext, PTL DEF Spec

LEMMA AllKnowInit ==
    ASSUME Init
    PROVE  AllKnow
BY DEF Init, AllKnow, Knows, Gone

LEMMA AllKnowNext ==
    ASSUME IInv, AllKnow, [Next]_vars
    PROVE  AllKnow'
<1>1. ASSUME NEW p \in Process,
             \/ Start(p) \/ Load(p) \/ StartWine(p) \/ InitOkay(p) \/ InitFails(p) \/ CheckDriver(p)
             \/ GetInfo(p) \/ Save(p) \/ SaveFails(p) \/ LoadInfo(p) \/ Kill(p)
      PROVE  AllKnow'
  BY <1>1, StartKnows, LoadKnows, StartWineKnows, InitOkayKnows, InitFailsKnows, CheckDriverKnows,
     ShowsKnows, KillKnows
<1>2. CASE InstallVersion
  <2>1. machine'.places = machine.places /\ machine'.driver = machine.driver /\ proc' = proc
    BY <1>2 DEF InstallVersion, IInv, Typed
  <2> QED BY <2>1 DEF AllKnow
<1>3. CASE UNCHANGED vars
  BY <1>3 DEF vars, AllKnow
<1> QED BY <1>1, <1>2, <1>3 DEF Next

LEMMA AllKnowAlways == Spec => [](IInv /\ AllKnow)
<1>1. Init => IInv /\ AllKnow
  BY IInvInit, AllKnowInit
<1>2. IInv /\ AllKnow /\ [Next]_vars => IInv' /\ AllKnow'
  BY IInvNext, AllKnowNext
<1> QED BY <1>1, <1>2, PTL DEF Spec

\* What loadConfig returns for the environment of a process.
Base(p) == LoadConfig(machine.places, proc[p].env, Files).config

BaseUnasked(p) == LoadConfig(machine.places, Unasked(proc[p].env), Files).config

LEMMA BaseOK ==
    ASSUME IInv, AllKnow, NEW p \in Process, "loader" \in DOMAIN proc[p]
    PROVE  /\ ConfigOK(Base(p)) /\ Reads(proc[p], Base(p))
           /\ Base(p)["linuxwindowlessmode"] => Base(p)["windowlessmode"]
           /\ (Base(p)["dllpath"] # "" /\ Base(p)["dllname"] # "") \/ Base(p)["regkey"] # ""
           /\ \/ Decided(Base(p), BaseUnasked(p), proc[p].env)
              \/ Base(p) = BaseUnasked(p) /\ ~BaseUnasked(p)["silverlightgraphicdrivercheck"]
<1> DEFINE base == Base(p)
           given == BaseUnasked(p)
<1>1. Knows(proc[p], machine.places, machine.driver) /\ machine.places \in Places
  BY DEF AllKnow, IInv, Typed
<1>2. /\ LoadConfig(machine.places, proc[p].env, Files).result = "loaded"
      /\ Reads(proc[p], base) /\ proc[p].env \in Environment
  BY <1>1 DEF Knows, Reads, Base
<1>3. PICK env \in Environment : env = proc[p].env
  BY <1>2
<1>4. PICK places \in Places : places = machine.places
  BY <1>1
<1>5. /\ LoadConfig(places, env, Files).result = "loaded"
      /\ base = LoadConfig(places, env, Files).config /\ given = LoadConfig(places, Unasked(env), Files).config
  BY <1>2, <1>3, <1>4 DEF Base, BaseUnasked
<1>6. /\ ConfigOK(base)
      /\ base["linuxwindowlessmode"] => base["windowlessmode"]
      /\ (base["dllpath"] # "" /\ base["dllname"] # "") \/ base["regkey"] # ""
      /\ \/ Decided(base, given, env)
         \/ base = given /\ ~given["silverlightgraphicdrivercheck"]
  BY <1>5, LoadedOK
<1> QED BY <1>2, <1>3, <1>6

\* savePluginInformation and loadPluginInformation take no lock; still the
\* file is what one process saved, for any number of processes whose saves
\* overlap and which may be killed anywhere.
THEOREM CacheTheorem == Spec => []CacheIsWhole
<1>1. IInv => CacheIsWhole
  <2> SUFFICES ASSUME IInv, cache # NoFile, ~history.interrupted, \A p \in Process : ~Saving(p)
               PROVE  Readable(cache) /\ Read(cache) \in history.known
    BY DEF CacheIsWhole
  <2>1. PICK info \in history.known : \E rest \in Seq(Nat) : cache = Written(info) \o rest
    BY DEF IInv, CacheFits
  <2>2. PICK rest \in Seq(Nat) : cache = Written(info) \o rest
    BY <2>1
  <2>3. info \in Info
    BY DEF IInv, Typed
  <2> QED BY <2>2, <2>3, WholeFile
<1> QED BY <1>1, IInvAlways, PTL

\* No browser shows texts of which one comes from another save than the rest
\* (attach sets the four buffers from what it reads).
THEOREM InfoTheorem == Spec => []InfoIsGenuine
<1>1. IInv => InfoIsGenuine
  BY DEF IInv, AllFit, Fits, InfoIsGenuine, At
<1> QED BY <1>1, IInvAlways, PTL
\* loadConfig, startWineProcess and main agree, for any configuration file and
\* any environment: pluginloader.exe has exactly the flags of the configuration,
\* never linuxWindowlessMode alone, and enough to find the plugin, which it
\* looks for where the file says.
THEOREM SidesTheorem == Spec => []SidesAgree
<1>1. ASSUME IInv, AllKnow PROVE SidesAgree
  <2> SUFFICES ASSUME NEW p \in Process, "loader" \in DOMAIN proc[p]
      PROVE  LET config == proc[p].config
                 loader == proc[p].loader
             IN  /\ loader.args.flags = {flag \in Flags : config[KeyOfFlag(flag)]}
                 /\ "--linuxwindowless" \in loader.args.flags => "--windowless" \in loader.args.flags
                 /\ loader.file.result # "incomplete"
                 /\ config["dllpath"] # "" /\ config["dllname"] # "" =>
                      loader.file = [result |-> "found", file |-> <<config["dllpath"], config["dllname"]>>]
    BY DEF SidesAgree
  <2> DEFINE base == Base(p)
             config == proc[p].config
             loader == proc[p].loader
  <2>1. /\ ConfigOK(base) /\ Reads(proc[p], base)
        /\ base["linuxwindowlessmode"] => base["windowlessmode"]
        /\ (base["dllpath"] # "" /\ base["dllname"] # "") \/ base["regkey"] # ""
    BY <1>1, BaseOK
  <2> HIDE DEF base
  <2>2. /\ loader.args = ReadArguments(CommandLine("p", base))
        /\ loader.file = PluginFile(loader.args, Registry)
        /\ \A key \in AllKeys \ {"overwritearg"} : config[key] = base[key]
    BY <2>1 DEF Reads
  <2>3. /\ loader.args.flags = {flag \in Flags : base[KeyOfFlag(flag)]}
        /\ ValueOf(loader.args, "--dllpath") = base["dllpath"]
        /\ ValueOf(loader.args, "--dllname") = base["dllname"]
        /\ ValueOf(loader.args, "--regkey") = base["regkey"]
    BY <2>2, CommandLineIsRead
  <2>4. \A key \in SwitchKeys \cup TextKeys : config[key] = base[key]
    <3>1. SwitchKeys \cup TextKeys \subseteq AllKeys \ {"overwritearg"}
      BY DEF SwitchKeys, TextKeys, AllKeys
    <3> QED BY <2>2, <3>1
  <2> HIDE DEF config, loader
  <2>5. loader.args.flags = {flag \in Flags : config[KeyOfFlag(flag)]}
    BY <2>3, <2>4, FlagKeys
  <2>6. "--linuxwindowless" \in loader.args.flags => "--windowless" \in loader.args.flags
    BY <2>1, <2>3, FlagKeys
  <2>7. config["dllpath"] = base["dllpath"] /\ config["dllname"] = base["dllname"]
    BY <2>4, SwitchNames
  <2>8. CASE base["dllpath"] # "" /\ base["dllname"] # ""
    <3>1. loader.file = [result |-> "found", file |-> <<config["dllpath"], config["dllname"]>>]
      BY <2>2, <2>3, <2>7, <2>8 DEF PluginFile
    <3> QED BY <2>5, <2>6, <3>1 DEF config, loader
  <2>9. CASE ~(base["dllpath"] # "" /\ base["dllname"] # "")
    <3>1. loader.file \in {[result |-> "unregistered"], [result |-> "found", file |-> Registry[base["regkey"]]]}
      BY <2>1, <2>2, <2>3, <2>9 DEF PluginFile
    <3>2. loader.file.result # "incomplete"
      BY <3>1
    <3> QED BY <2>5, <2>6, <2>7, <2>9, <3>2 DEF config, loader
  <2> QED BY <2>8, <2>9
<1> QED BY <1>1, AllKnowAlways, PTL

\* checkSilverlightGraphicDriver, PIPELIGHT_GPUACCELERATION and an argument in
\* the file: for any of them, and any driver, the plugin uses the hardware only
\* where the driver or the user allows it.
THEOREM AccelerationTheorem == Spec => []AccelerationFitsDriver
<1>1. ASSUME IInv, AllKnow PROVE AccelerationFitsDriver
  <2> SUFFICES ASSUME NEW p \in Process, proc[p].pc = "info"
      PROVE  LET config == proc[p].config
                 given  == LoadConfig(machine.places, [proc[p].env EXCEPT !.gpu = -1], Files).config
                 wanted == config["overwritearg"]
                 accelerates == Acceleration \notin DOMAIN wanted \/ wanted[Acceleration] # "false"
             IN  IF config["silverlightgraphicdrivercheck"]
                 THEN /\ accelerates => machine.driver # "other"
                      /\ accelerates /\ machine.driver = "strict" => proc[p].loader.strict
                 ELSE IF given["silverlightgraphicdrivercheck"]
                 THEN AskedFor(p) /\ (accelerates <=> proc[p].env.gpu >= 1)
                                  /\ (proc[p].loader.strict <=> proc[p].env.gpu >= 2)
                 ELSE Acceleration \in DOMAIN given["overwritearg"] /\ ~AskedFor(p) =>
                          wanted[Acceleration] = given["overwritearg"][Acceleration]
    BY DEF AccelerationFitsDriver, At
  <2> DEFINE base == Base(p)
             given == BaseUnasked(p)
             config == proc[p].config
             env == proc[p].env
             strict == proc[p].loader.strict
             wanted == config["overwritearg"]
             accelerates == Acceleration \notin DOMAIN wanted \/ wanted[Acceleration] # "false"
             asked == base["overwritearg"]
             check == base["silverlightgraphicdrivercheck"]
  <2>1. "loader" \in DOMAIN proc[p] /\ Checked(base, config, strict, machine.driver) /\ env \in Environment
    BY <1>1 DEF AllKnow, Knows, Base
  <2>2. /\ ConfigOK(base) /\ Reads(proc[p], base)
        /\ \/ Decided(base, given, env)
           \/ base = given /\ ~given["silverlightgraphicdrivercheck"]
    BY <1>1, <2>1, BaseOK
  <2>3. env.gpu \in Int /\ (AskedFor(p) <=> env.gpu >= 0)
    BY <2>1, EnvironmentAssumption DEF AskedFor
  <2> HIDE DEF base, given
  <2>4. check \in BOOLEAN /\ config["silverlightgraphicdrivercheck"] = check
        /\ base["experimental-strictdrawordering"] \in BOOLEAN
    BY <2>2, SwitchNames DEF ConfigOK, Reads, AllKeys
  <2>5. /\ strict = (base["experimental-strictdrawordering"] \/ (check /\ machine.driver = "strict"))
        /\ wanted = IF check /\ machine.driver = "other" THEN WithPair(asked, Acceleration, "false") ELSE asked
    BY <2>1 DEF Checked
  <2> HIDE DEF config, env, strict, asked, check
  <2>6. CASE check
    <3>1. accelerates => machine.driver # "other"
      <4>1. ASSUME machine.driver = "other" PROVE ~accelerates
        <5>1. wanted = Put(asked, Acceleration, "false")
          BY <2>5, <2>6, <4>1 DEF WithPair, Acceleration
        <5>2. Acceleration \in DOMAIN wanted /\ wanted[Acceleration] = "false"
          BY <5>1 DEF Put
        <5> QED BY <5>2
      <4> QED BY <4>1
    <3>2. machine.driver = "strict" => strict
      BY <2>5, <2>6
    <3> QED BY <2>4, <2>6, <3>1, <3>2 DEF config, strict, given, BaseUnasked, Unasked
  <2>7. CASE ~check /\ given["silverlightgraphicdrivercheck"]
    <3>1. /\ env.gpu >= 0 /\ Acceleration \in DOMAIN wanted
          /\ wanted[Acceleration] = IF env.gpu >= 1 THEN "true" ELSE "false"
          /\ strict = (env.gpu >= 2)
      BY <2>2, <2>4, <2>5, <2>7 DEF Decided, asked, check
    <3>2. accelerates <=> env.gpu >= 1
      BY <3>1
    <3> QED BY <2>3, <2>4, <2>7, <3>1, <3>2 DEF config, strict, given, env, BaseUnasked, Unasked
  <2>8. CASE ~check /\ ~given["silverlightgraphicdrivercheck"]
    <3>1. ~AskedFor(p) => wanted = given["overwritearg"]
      BY <2>2, <2>3, <2>5, <2>8 DEF Decided, asked, check
    <3> QED BY <2>4, <2>8, <3>1 DEF config, given, env, BaseUnasked, Unasked
  <2> QED BY <2>4, <2>6, <2>7, <2>8
<1> QED BY <1>1, AllKnowAlways, PTL
=============================================================================
