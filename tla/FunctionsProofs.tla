--------------------------- MODULE FunctionsProofs ---------------------------
(***************************************************************************)
(* Proofs about the functions of LimaOutput and QemuWrapper for inputs of  *)
(* any length.  Inductions are about the least number that is wrong, and a *)
(* fold is shown to be a closed form that satisfies the fold's equation.   *)
(***************************************************************************)
EXTENDS MCFunctions, SequenceTheorems, FiniteSetTheorems, WellFoundedInduction,
        TLAPS

------------------------------------------------------------------------------
(* Minima and maxima *)

LEMMA MinIsLeast ==
    ASSUME NEW S \in SUBSET Nat, S # {}
    PROVE  Min(S) \in S /\ \A x \in S : Min(S) <= x
<1> DEFINE R == {ss \in Nat \X Nat : ss[1] < ss[2]}
<1>1. IsWellFoundedOn(R, Nat)
      BY NatLessThanWellFounded DEF OpToRel
<1> HIDE DEF R
<1>2. PICK m \in S : \A x \in S : ~(<<x, m>> \in R)
  <2>1. S \subseteq Nat
        OBVIOUS
  <2> QED
        BY <1>1, <2>1, WFMin, Zenon
<1>3. ASSUME NEW x \in S PROVE m <= x
  <2>1. x \in Nat /\ m \in Nat
        OBVIOUS
  <2>2. ~(x < m)
        BY <1>2, <2>1 DEF R
  <2> QED
        BY <2>1, <2>2
<1> QED
    BY <1>3 DEF Min

LEMMA MaxIsGreatest ==
    ASSUME NEW b \in Nat, NEW S \in SUBSET (1..b), S # {}
    PROVE  Max(S) \in S /\ \A x \in S : x <= Max(S)
<1> DEFINE T == {y \in 0..b : b - y \in S}
<1>1. PICK s \in S : TRUE
      OBVIOUS
<1>2. b - s \in T
  <2>1. s \in 1..b /\ b - s \in 0..b /\ b - (b - s) = s
        OBVIOUS
  <2> QED
        BY <2>1
<1>3. T \in SUBSET Nat
      OBVIOUS
<1>4. PICK m \in T : \A y \in T : m <= y
      BY <1>2, <1>3, MinIsLeast
<1>5. ASSUME NEW x \in S PROVE x <= b - m
  <2>1. x \in 1..b /\ b - x \in 0..b /\ b - (b - x) = x
        OBVIOUS
  <2>2. b - x \in T
        BY <2>1
  <2> HIDE DEF T
  <2> QED
        BY <1>3, <1>4, <2>1, <2>2
<1>6. b - m \in S
      OBVIOUS
<1> HIDE DEF T
<1> QED
    BY <1>5, <1>6 DEF Max

(* The greatest element is determined by what it is. *)
LEMMA MaxIs ==
    ASSUME NEW S \in SUBSET Nat, NEW x \in S, \A y \in S : y <= x
    PROVE  Max(S) = x
<1>1. x \in Nat /\ \A y \in S : y \in Nat /\ x >= y
      OBVIOUS
<1>2. Max(S) \in S /\ \A y \in S : Max(S) >= y
      BY <1>1 DEF Max
<1>3. Max(S) \in Nat /\ Max(S) >= x /\ x >= Max(S)
      BY <1>1, <1>2
<1> QED
    BY <1>1, <1>3

LEMMA MinIs ==
    ASSUME NEW S \in SUBSET Nat, NEW x \in S, \A y \in S : x <= y
    PROVE  Min(S) = x
<1>1. x \in Nat /\ \A y \in S : y \in Nat /\ x <= y
      OBVIOUS
<1>2. Min(S) \in S /\ \A y \in S : Min(S) <= y
      BY <1>1 DEF Min
<1>3. Min(S) \in Nat /\ Min(S) <= x /\ x <= Min(S)
      BY <1>1, <1>2
<1> QED
    BY <1>1, <1>3

------------------------------------------------------------------------------
(* extractLimaError *)

(* A line that a log can have: only entries have a level, and plain text   *)
(* is not empty.                                                           *)
Sane(line) ==
    /\ line.kind \in {"blank", "text", "entry"}
    /\ line.kind # "entry" => ~IsError(line)
    /\ line.kind = "text" => line.msg # NoText

IsBad(line) == IsError(line) /\ line.msg # NoText
IsShown(line) == line.kind # "blank"
Shown(line) == IF line.msg = NoText THEN Raw(line.level) ELSE line.msg

(* What the loop has found when it has read the lines with the numbers s. *)
Found(lines, s) ==
    LET shown == {n \in s : IsShown(lines[n])}
        bad == {n \in s : IsBad(lines[n])}
    IN  [last |-> IF shown = {} THEN NoText ELSE Shown(lines[Max(shown)]),
         fatal |-> IF bad = {} THEN NoText ELSE lines[Max(bad)].msg]

(* The loop, as the function that FoldLeft stands for. *)
Loop(lines, f) ==
    f = [s \in SUBSET DOMAIN lines |->
           IF s = {} THEN [last |-> NoText, fatal |-> NoText]
           ELSE ReadLine(f[s \ {Max(s)}], lines[Max(s)])]

LEMMA ExtractIsLoop ==
    ASSUME NEW lines
    PROVE  ExtractLimaError(lines) =
              LET found == (CHOOSE f : Loop(lines, f))[DOMAIN lines]
              IN  IF found.fatal # NoText THEN found.fatal ELSE found.last
BY DEF ExtractLimaError, FoldLeft, MapThenFoldSet, Loop

LEMMA FoundNothing ==
    ASSUME NEW lines
    PROVE  Found(lines, {}) = [last |-> NoText, fatal |-> NoText]
BY DEF Found

(* The loop's step: what it makes of a line. *)
LEMMA ReadLineIs ==
    ASSUME NEW found, NEW line, Sane(line), NEW last, NEW fatal,
           found = [last |-> last, fatal |-> fatal]
    PROVE  ReadLine(found, line) =
              [last |-> IF IsShown(line) THEN Shown(line) ELSE last,
               fatal |-> IF IsBad(line) THEN line.msg ELSE fatal]
<1>1. CASE line.kind = "blank"
  <2>1. ReadLine(found, line) = found
        BY <1>1 DEF ReadLine
  <2>2. ~IsShown(line) /\ ~IsBad(line)
        BY <1>1 DEF IsShown, IsBad, Sane
  <2> QED
        BY <2>1, <2>2
<1>2. CASE line.kind # "blank"
  <2>1. ReadLine(found, line) =
           [last |-> Message(line),
            fatal |-> IF IsFatal(line) THEN line.msg ELSE fatal]
        BY <1>2 DEF ReadLine
  <2>2. IsShown(line)
        BY <1>2 DEF IsShown
  <2>3. Message(line) = Shown(line)
        BY <1>2 DEF Message, Shown, Sane
  <2>4. IsFatal(line) <=> IsBad(line)
        BY DEF IsFatal, IsBad, Sane
  <2> QED
        BY <2>1, <2>2, <2>3, <2>4
<1> QED
    BY <1>1, <1>2

(* One more line is read: it is the last one that there is, of each kind   *)
(* that it has.                                                            *)
LEMMA FoundNext ==
    ASSUME NEW lines, NEW b \in Nat, NEW s \in SUBSET (1..b), s # {},
           Sane(lines[Max(s)])
    PROVE  Found(lines, s) =
              ReadLine(Found(lines, s \ {Max(s)}), lines[Max(s)])
<1> DEFINE x == Max(s)
           line == lines[x]
           shown == {n \in s : IsShown(lines[n])}
           shown0 == {n \in s \ {x} : IsShown(lines[n])}
           bad == {n \in s : IsBad(lines[n])}
           bad0 == {n \in s \ {x} : IsBad(lines[n])}
<1>1. x \in s /\ \A y \in s : y <= x
      BY MaxIsGreatest
<1>2. s \subseteq Nat
      OBVIOUS
<1> HIDE DEF x
<1>3. IF IsShown(line) THEN shown # {} /\ Max(shown) = x ELSE shown = shown0
      BY <1>1, <1>2, MaxIs
<1>4. IF IsBad(line) THEN bad # {} /\ Max(bad) = x ELSE bad = bad0
      BY <1>1, <1>2, MaxIs
<1> DEFINE f == Found(lines, s)
           f0 == Found(lines, s \ {x})
           last0 == IF shown0 = {} THEN NoText ELSE Shown(lines[Max(shown0)])
           fatal0 == IF bad0 = {} THEN NoText ELSE lines[Max(bad0)].msg
<1>5. f0 = [last |-> last0, fatal |-> fatal0]
      BY DEF Found
<1>6. f = [last |-> IF IsShown(line) THEN Shown(line) ELSE last0,
           fatal |-> IF IsBad(line) THEN line.msg ELSE fatal0]
      BY <1>3, <1>4 DEF Found
<1>7. Sane(line)
      BY DEF x
<1> HIDE DEF shown, shown0, bad, bad0, f, f0, last0, fatal0, line
<1>8. f = ReadLine(f0, line)
      BY <1>5, <1>6, <1>7, ReadLineIs
<1> QED
    BY <1>8 DEF f, f0, line, x

(* The closed form satisfies the loop's equation, and is its only solution: *)
(* two solutions would differ first on lines with a least highest number.  *)
LEMMA LoopIsFound ==
    ASSUME NEW n \in Nat, NEW lines, DOMAIN lines = 1..n,
           \A i \in 1..n : Sane(lines[i])
    PROVE  (CHOOSE f : Loop(lines, f))[1..n] = Found(lines, 1..n)
<1> DEFINE F == [s \in SUBSET (1..n) |-> Found(lines, s)]
           f == CHOOSE ff : Loop(lines, ff)
<1>1. ASSUME NEW s \in SUBSET (1..n), s # {}
      PROVE  /\ s \ {Max(s)} \in SUBSET (1..Max(s) - 1)
             /\ Max(s) \in s
             /\ Found(lines, s) =
                   ReadLine(Found(lines, s \ {Max(s)}), lines[Max(s)])
  <2>1. Max(s) \in s /\ \A y \in s : y <= Max(s)
        BY <1>1, MaxIsGreatest
  <2>2. Sane(lines[Max(s)])
        BY <2>1
  <2>3. s \ {Max(s)} \in SUBSET (1..Max(s) - 1)
    <3>1. PICK x \in 1..n : x = Max(s)
          BY <2>1
    <3>2. \A y \in s \ {x} : y \in 1..n /\ y <= x /\ y # x
          BY <2>1, <3>1
    <3>3. \A y \in s \ {x} : y \in 1..x - 1
          BY <3>1, <3>2
    <3> QED
          BY <3>1, <3>3
  <2> QED
        BY <1>1, <2>1, <2>2, <2>3, FoundNext
<1>2. Loop(lines, F)
  <2>1. ASSUME NEW s \in SUBSET (1..n)
        PROVE  F[s] = IF s = {} THEN [last |-> NoText, fatal |-> NoText]
                      ELSE ReadLine(F[s \ {Max(s)}], lines[Max(s)])
    <3>1. CASE s = {}
          BY <3>1, FoundNothing
    <3>2. CASE s # {}
          BY <1>1, <3>2
    <3> QED
          BY <3>1, <3>2
  <2> HIDE DEF F
  <2>2. F = [s \in SUBSET (1..n) |-> F[s]]
        BY DEF F
  <2>3. F = [s \in SUBSET DOMAIN lines |->
               IF s = {} THEN [last |-> NoText, fatal |-> NoText]
               ELSE ReadLine(F[s \ {Max(s)}], lines[Max(s)])]
        BY <2>1, <2>2
  <2> QED
        BY <2>3 DEF Loop
<1>3. Loop(lines, f)
      BY <1>2, Zenon
<1> HIDE DEF F, f
<1>4. \A s \in SUBSET (1..n) :
         f[s] = IF s = {} THEN [last |-> NoText, fatal |-> NoText]
                ELSE ReadLine(f[s \ {Max(s)}], lines[Max(s)])
      BY <1>3 DEF Loop
<1> DEFINE wrong == {k \in 0..n : \E s \in SUBSET (1..k) :
                                     f[s] # Found(lines, s)}
<1>5. wrong = {}
  <2> SUFFICES ASSUME wrong # {} PROVE FALSE
      OBVIOUS
  <2>1. PICK k \in wrong : \A j \in wrong : k <= j
    <3>1. wrong \in SUBSET Nat
          OBVIOUS
    <3> QED
        BY <3>1, MinIsLeast
  <2>2. k \in 0..n
        OBVIOUS
  <2>3. PICK s \in SUBSET (1..k) : f[s] # Found(lines, s)
        OBVIOUS
  <2>4. s \in SUBSET (1..n)
        BY <2>2
  <2>5. s # {}
        BY <1>4, <2>3, <2>4, FoundNothing
  <2> DEFINE x == Max(s)
             s0 == s \ {x}
  <2>6. /\ s0 \in SUBSET (1..x - 1) /\ x \in 1..k
        /\ Found(lines, s) = ReadLine(Found(lines, s0), lines[x])
        BY <1>1, <2>4, <2>5
  <2>7. f[s] = ReadLine(f[s0], lines[x])
        BY <1>4, <2>4, <2>5
  <2> HIDE DEF x, s0, wrong
  <2>8. x - 1 \in 0..n /\ ~(k <= x - 1)
        BY <2>2, <2>6
  <2>9. f[s0] = Found(lines, s0)
        BY <2>1, <2>6, <2>8 DEF wrong
  <2> QED
        BY <2>3, <2>6, <2>7, <2>9
<1>6. n \notin wrong
      BY <1>5
<1>7. f[1..n] = Found(lines, 1..n)
      BY <1>6
<1> QED
    BY <1>7 DEF f


(* extractLimaError returns what LastError describes, whatever the length  *)
(* of the log.                                                             *)
LEMMA ErrorOf ==
    ASSUME NEW n \in Nat, NEW lines, DOMAIN lines = 1..n,
           \A i \in 1..n : Sane(lines[i])
    PROVE  ExtractLimaError(lines) = LastError(lines)
<1> DEFINE shown == {i \in 1..n : IsShown(lines[i])}
           bad == {i \in 1..n : IsBad(lines[i])}
           last == IF shown = {} THEN NoText ELSE Shown(lines[Max(shown)])
           fatal == IF bad = {} THEN NoText ELSE lines[Max(bad)].msg
<1>1. (CHOOSE f : Loop(lines, f))[DOMAIN lines] = Found(lines, 1..n)
      BY LoopIsFound
<1>2. Found(lines, 1..n) = [last |-> last, fatal |-> fatal]
      BY DEF Found
<1>3. ExtractLimaError(lines) = IF fatal # NoText THEN fatal ELSE last
  <2>1. ExtractLimaError(lines) =
           IF Found(lines, 1..n).fatal # NoText
           THEN Found(lines, 1..n).fatal ELSE Found(lines, 1..n).last
        BY <1>1, ExtractIsLoop
  <2> HIDE DEF last, fatal
  <2> QED
        BY <1>2, <2>1
<1>4. bad # {} => fatal = lines[Max(bad)].msg /\ fatal # NoText
  <2> SUFFICES ASSUME bad # {} PROVE lines[Max(bad)].msg # NoText
      OBVIOUS
  <2>1. bad \in SUBSET (1..n)
        OBVIOUS
  <2>2. Max(bad) \in bad
        BY <2>1, MaxIsGreatest
  <2> QED
        BY <2>2 DEF IsBad
<1>5. LastError(lines) = IF bad # {} THEN lines[Max(bad)].msg ELSE last
  <2>1. /\ {i \in DOMAIN lines : IsError(lines[i]) /\ lines[i].msg # NoText}
              = bad
        /\ {i \in DOMAIN lines : lines[i].kind # "blank"} = shown
        BY DEF IsBad, IsShown
  <2> HIDE DEF bad, shown
  <2> QED
        BY <2>1 DEF LastError, Shown
<1>6. bad = {} => fatal = NoText
      OBVIOUS
<1> HIDE DEF bad, last, fatal
<1> QED
    BY <1>3, <1>4, <1>5, <1>6

(* What the runs' inputs are. *)
FnTypeOK ==
    /\ log \in Seq(LogLines)
    /\ out \in Seq(ListLines)
    /\ args \in Seq(Options)
    /\ template \in BOOLEAN /\ cdrom \in BOOLEAN
    /\ varsFile \in {"none", "copied"}

LEMMA FnTypeInit == FunctionsInit => FnTypeOK
BY DEF FunctionsInit, FnTypeOK

LEMMA VarsAfterType ==
    ASSUME varsFile \in {"none", "copied"}
    PROVE  VarsAfter(args, varsFile, template) \in {"none", "copied"}
<1>1. VarsAfter(args, varsFile, template) \in {"copied", varsFile}
      BY DEF VarsAfter
<1> QED
    BY <1>1

LEMMA FnTypeStep == FnTypeOK /\ [FunctionsNext]_fnvars => FnTypeOK'
<1> SUFFICES ASSUME FnTypeOK, [FunctionsNext]_fnvars PROVE FnTypeOK'
    OBVIOUS
<1> USE DEF FnTypeOK
<1>1. CASE AddLogLine
      BY <1>1 DEF AddLogLine, command
<1>2. CASE AddListLine
      BY <1>2 DEF AddListLine, command
<1>3. CASE AddOption
      BY <1>3 DEF AddOption
<1>4. CASE StartQemu
      BY <1>4, VarsAfterType DEF StartQemu
<1>5. CASE UNCHANGED fnvars
      BY <1>5 DEF fnvars
<1> QED
    BY <1>1, <1>2, <1>3, <1>4, <1>5 DEF FunctionsNext

(* The inputs that the bounded runs enumerate are of these kinds.          *)
THEOREM FnTypeCorrect == FunctionsSpec => []FnTypeOK
<1> QED
    BY FnTypeInit, FnTypeStep, PTL DEF FunctionsSpec

(* The error of a failed limactl is its last fatal or error message, or    *)
(* else its last line, in a log of any length (lima.go:221).               *)
THEOREM ErrorIsTheLastOne == FunctionsSpec => []ErrorIsLastError
<1>1. FnTypeOK => ErrorIsLastError
  <2> SUFFICES ASSUME FnTypeOK PROVE ErrorIsLastError
      OBVIOUS
  <2>1. ASSUME NEW line \in LogLines PROVE Sane(line)
    <3>1. CASE line = Blank
          BY <3>1 DEF Sane, Blank, NoText, IsError
    <3>2. CASE line = Text("a")
          BY <3>2 DEF Sane, Text, NoText, IsError
    <3>3. CASE \E l \in Levels, m \in {NoText, "a", "b"} :
                  line = Logged(l, m)
          BY <3>3 DEF Sane, Logged
    <3> QED
          BY <3>1, <3>2, <3>3 DEF LogLines
  <2>2. /\ DOMAIN log = 1..Len(log) /\ Len(log) \in Nat
        /\ \A i \in 1..Len(log) : log[i] \in LogLines
        BY DEF FnTypeOK
  <2> QED
        BY <2>1, <2>2, ErrorOf DEF ErrorIsLastError
<1> QED
    BY <1>1, FnTypeCorrect, PTL

------------------------------------------------------------------------------
(* The two readers of limactl's list *)

(* In a list of instances only, both pick the first line of the name: a    *)
(* single line that is believed unseen has the name, or no line has it.    *)
LEMMA ReadersAgreeOn ==
    ASSUME NEW list, NEW name, ParseNDJSON(list).ok,
           \E n \in Lines(list) : list[n].name = name
    PROVE  IsRunning(list, name) = (Get(list, name).status = "Running")
<1> DEFINE lines == Lines(list)
           hits == {n \in lines : list[n].name = name}
<1>1. \A n \in lines : IsInstance(list[n])
      BY DEF ParseNDJSON
<1>2. hits # {}
      OBVIOUS
<1>3. {n \in ParseNDJSON(list).instances : list[n].name = name} = hits
      BY <1>1 DEF ParseNDJSON
<1>4. Get(list, name) = list[Min(hits)]
  <2> HIDE DEF hits
  <2> QED
      BY <1>2, <1>3 DEF Get
<1>5. {n \in lines : IsInstance(list[n]) /\ list[n].name = name} = hits
      BY <1>1
<1>6. IsRunning(list, name) =
         IF \E n \in lines : lines = {n} /\ IsInstance(list[n])
         THEN list[Min(lines)].status = "Running"
         ELSE hits # {} /\ list[Min(hits)].status = "Running"
  <2> HIDE DEF hits
  <2> QED
      BY <1>5 DEF IsRunning
<1>7. (\E n \in lines : lines = {n}) => lines = hits
      BY <1>2
<1> HIDE DEF lines, hits
<1> QED
    BY <1>2, <1>4, <1>6, <1>7

(* The strict and the lenient reader of limactl's list agree on an         *)
(* instance of a well-formed list of any length (lima.go:93, 169).         *)
THEOREM TheReadersAgree == FunctionsSpec => []ReadersAgree
<1>1. ReadersAgree
      BY ReadersAgreeOn DEF ReadersAgree
<1> QED
    BY <1>1, PTL

------------------------------------------------------------------------------
(* The wrapper of QEMU *)

(* What pass 2 makes of an option, and what it leaves alone.               *)
LEMMA RewriteIs ==
    ASSUME NEW o
    PROVE  /\ Rewrite(o).opt = o.opt
           /\ o.opt = "machine" => Rewrite(o).val.accel \notin Hypervisors
           /\ o.opt = "accel" => Rewrite(o).val \notin Hypervisors
           /\ o.opt = "cpu" => Rewrite(o).val \notin KvmCpus
           /\ o.opt \notin {"machine", "accel", "cpu"} => Rewrite(o) = o
<1> DEFINE val == o.val
           opt == o.opt
           mach == Machine(val.type,
                           IF val.accel \in Hypervisors THEN "none"
                           ELSE val.accel,
                           val.vmportOff \/ val.type = "q35")
           accel == Option("accel", "tcg,thread=multi,tb-size=512")
           cpu == Option("cpu", "max")
           isKvm == val \in Hypervisors
           isHost == val \in KvmCpus
<1>1. /\ mach.opt = "machine"
      /\ mach.val.accel = IF val.accel \in Hypervisors THEN "none"
                          ELSE val.accel
      BY DEF Machine, Option
<1>2. mach.val.accel \notin Hypervisors
      BY <1>1 DEF Hypervisors
<1>3. /\ accel.opt = "accel" /\ accel.val \notin Hypervisors
      /\ cpu.opt = "cpu" /\ cpu.val \notin KvmCpus
      BY DEF Option, Hypervisors, KvmCpus
<1>4. Rewrite(o) = CASE opt = "machine" -> mach
                     [] opt = "accel" /\ isKvm -> accel
                     [] opt = "cpu" /\ isHost -> cpu
                     [] OTHER -> o
      BY Zenon DEF Rewrite
<1>5. /\ val = o.val /\ opt = o.opt
      /\ isKvm <=> o.val \in Hypervisors
      /\ isHost <=> o.val \in KvmCpus
      OBVIOUS
<1> HIDE DEF val, opt, mach, accel, cpu, isKvm, isHost
<1>6. CASE opt = "machine"
  <2>1. Rewrite(o) = mach
        BY <1>4, <1>6, Zenon
  <2> QED
        BY <1>1, <1>2, <1>5, <1>6, <2>1
<1>7. CASE opt = "accel" /\ isKvm
  <2>1. Rewrite(o) = accel
        BY <1>4, <1>7, Zenon
  <2> QED
        BY <1>3, <1>5, <1>7, <2>1
<1>8. CASE opt = "cpu" /\ isHost
  <2>1. Rewrite(o) = cpu
        BY <1>4, <1>8, Zenon
  <2> QED
        BY <1>3, <1>5, <1>8, <2>1
<1>9. CASE /\ opt # "machine"
           /\ ~(opt = "accel" /\ isKvm) /\ ~(opt = "cpu" /\ isHost)
  <2>1. Rewrite(o) = o
        BY <1>4, <1>9, Zenon
  <2> QED
        BY <1>5, <1>9, <2>1
<1> QED
    BY <1>6, <1>7, <1>8, <1>9

(* Lima's options stay Lima's, and its writable drives stay what they are. *)
LEMMA RewriteKeeps ==
    ASSUME NEW o, IsLimas(o)
    PROVE  /\ IsLimas(Rewrite(o))
           /\ IsVars(Rewrite(o)) <=> IsVars(o)
<1> DEFINE r == Rewrite(o)
<1>1. r.opt = o.opt /\ (o.opt = "drive" => r = o)
      BY RewriteIs
<1> HIDE DEF r
<1>2. Vars.opt = "drive" /\ OwnVars.opt = "drive"
      BY DEF Vars, OwnVars, Option
<1>3. o.opt # "drive" => r \notin {Vars, OwnVars} /\ o \notin {Vars, OwnVars}
      BY <1>1, <1>2
<1>4. IsLimas(r)
      BY <1>1, <1>3 DEF IsLimas
<1>5. IsVars(r) <=> IsVars(o)
      BY <1>1, <1>3 DEF IsVars
<1> QED
    BY <1>4, <1>5 DEF r

(* InsertAt moves what comes after by one. *)
LEMMA InsertedAt ==
    ASSUME NEW T, NEW s \in Seq(T), NEW e \in T, NEW c \in 1..Len(s),
           NEW i, i = c + 1, NEW r, r = InsertAt(s, i, e)
    PROVE  /\ r \in Seq(T)
           /\ Len(r) = Len(s) + 1
           /\ \A n \in 1..c : r[n] = s[n]
           /\ r[c + 1] = e
           /\ \A n \in c + 2..Len(s) + 1 : r[n] = s[n - 1]
<1> DEFINE a == SubSeq(s, 1, c)
           z == SubSeq(s, c + 1, Len(s))
           ae == a \o <<e>>
<1>1. /\ Len(s) \in Nat /\ c \in Nat /\ c <= Len(s)
      /\ \A n \in 1..Len(s) : s[n] \in T
      OBVIOUS
<1>2. /\ a \in Seq(T) /\ Len(a) = c
      /\ \A n \in 1..c : a[n] = s[n]
  <2>1. \A n \in 1..c : s[n] \in T
        BY <1>1
  <2>2. /\ a \in Seq(T) /\ Len(a) = IF 1 <= c THEN c - 1 + 1 ELSE 0
        /\ \A n \in 1..c - 1 + 1 : a[n] = s[1 + n - 1]
        BY <1>1, <2>1, SubSeqProperties
  <2> HIDE DEF a
  <2> QED
        BY <1>1, <2>2
<1>3. /\ z \in Seq(T) /\ Len(z) = Len(s) - c
      /\ \A n \in 1..Len(s) - c : z[n] = s[c + n]
  <2>1. \A n \in c + 1..Len(s) : s[n] \in T
        BY <1>1
  <2>2. /\ z \in Seq(T)
        /\ Len(z) = IF c + 1 <= Len(s) THEN Len(s) - (c + 1) + 1 ELSE 0
        /\ \A n \in 1..Len(s) - (c + 1) + 1 : z[n] = s[c + 1 + n - 1]
        BY <1>1, <2>1, SubSeqProperties
  <2>3. \A n \in 1..Len(s) - c : /\ c + 1 + n - 1 = c + n
                                 /\ n \in 1..Len(s) - (c + 1) + 1
        BY <1>1
  <2> HIDE DEF z
  <2> QED
        BY <1>1, <2>2, <2>3
<1> HIDE DEF a, z
<1>4. <<e>> \in Seq(T) /\ Len(<<e>>) = 1 /\ <<e>>[1] = e
      OBVIOUS
<1>5. /\ ae \in Seq(T) /\ Len(ae) = c + 1
      /\ \A n \in 1..c : ae[n] = s[n]
      /\ ae[c + 1] = e
  <2>1. /\ ae \in Seq(T) /\ Len(ae) = Len(a) + Len(<<e>>)
        /\ \A n \in 1..Len(a) + Len(<<e>>) :
              ae[n] = IF n <= Len(a) THEN a[n] ELSE <<e>>[n - Len(a)]
        BY <1>2, <1>4, ConcatProperties
  <2> HIDE DEF ae
  <2>2. /\ Len(ae) = c + 1
        /\ \A n \in 1..c + 1 :
              ae[n] = IF n <= c THEN a[n] ELSE <<e>>[n - c]
        BY <1>2, <1>4, <2>1
  <2>3. c + 1 \in 1..c + 1 /\ ~(c + 1 <= c) /\ c + 1 - c = 1
        BY <1>1
  <2> QED
        BY <1>1, <1>2, <1>4, <2>1, <2>2, <2>3
<1> HIDE DEF ae
<1>6. /\ ae \o z \in Seq(T) /\ Len(ae \o z) = Len(s) + 1
      /\ \A n \in 1..Len(s) + 1 :
            (ae \o z)[n] = IF n <= c + 1 THEN ae[n] ELSE z[n - (c + 1)]
  <2>1. /\ ae \o z \in Seq(T) /\ Len(ae \o z) = Len(ae) + Len(z)
        /\ \A n \in 1..Len(ae) + Len(z) :
              (ae \o z)[n] = IF n <= Len(ae) THEN ae[n] ELSE z[n - Len(ae)]
        BY <1>3, <1>5, ConcatProperties
  <2>2. Len(ae) + Len(z) = Len(s) + 1
        BY <1>1, <1>3, <1>5
  <2> QED
        BY <1>5, <2>1, <2>2
<1>7. r = ae \o z
  <2>1. i - 1 = c
        BY <1>1
  <2>2. r = SubSeq(s, 1, i - 1) \o <<e>> \o SubSeq(s, i, Len(s))
        BY DEF InsertAt
  <2>3. SubSeq(s, 1, i - 1) = a
        BY <2>1 DEF a
  <2>4. SubSeq(s, i, Len(s)) = z
        BY DEF z
  <2> QED
        BY <2>2, <2>3, <2>4, Zenon DEF ae
<1>8. \A n \in c + 2..Len(s) + 1 : r[n] = s[n - 1]
  <2> SUFFICES ASSUME NEW n \in c + 2..Len(s) + 1 PROVE r[n] = s[n - 1]
      OBVIOUS
  <2>1. /\ n \in 1..Len(s) + 1 /\ ~(n <= c + 1)
        /\ n - (c + 1) \in 1..Len(s) - c /\ c + (n - (c + 1)) = n - 1
        BY <1>1
  <2>2. r[n] = z[n - (c + 1)]
        BY <1>6, <1>7, <2>1
  <2> QED
        BY <1>3, <2>1, <2>2
<1>9. (\A n \in 1..c : r[n] = s[n]) /\ r[c + 1] = e
  <2>1. \A n \in 1..c + 1 : n \in 1..Len(s) + 1 /\ n <= c + 1
        BY <1>1
  <2>2. \A n \in 1..c + 1 : r[n] = ae[n]
        BY <1>6, <1>7, <2>1
  <2> QED
        BY <1>1, <1>5, <2>2
<1> QED
    BY <1>6, <1>7, <1>8, <1>9

(* The first read-only pflash is where SelectInSeq says.                   *)
LEMMA CodeIsThere ==
    ASSUME NEW T, NEW options \in Seq(T), Has(options, IsCode)
    PROVE  SelectInSeq(options, IsCode) \in 1..Len(options)
<1> DEFINE I == {n \in 1..Len(options) : IsCode(options[n])}
<1>1. Len(options) \in Nat /\ DOMAIN options = 1..Len(options)
      OBVIOUS
<1>2. I # {} /\ I \in SUBSET Nat
      BY <1>1 DEF Has
<1>3. SelectInSeq(options, IsCode) = Min(I)
      BY <1>2 DEF SelectInSeq
<1>4. Min(I) \in I
  <2> HIDE DEF I
  <2> QED
      BY <1>2, MinIsLeast
<1> QED
    BY <1>3, <1>4

(* The place of the drive that the wrapper adds, or else the first place   *)
(* after Lima's options, and what is where in the new command line.        *)
Added(options, file, copy) ==
    IF CanInject(options, file, copy) THEN SelectInSeq(options, IsCode) + 1
    ELSE Len(options) + 1

Size(options, file, copy) ==
    IF CanInject(options, file, copy) THEN Len(options) + 1 ELSE Len(options)

Before(added, n) == IF n < added THEN n ELSE n - 1

Cdrom == Option("cdrom", "iso")

Rewritten(options) == [n \in DOMAIN options |-> Rewrite(options[n])]

Body(options, file, copy) ==
    IF CanInject(options, file, copy)
    THEN InsertAt(Rewritten(options), SelectInSeq(options, IsCode) + 1, OwnVars)
    ELSE Rewritten(options)

BodyHas(T, body, options, added, size) ==
    /\ body \in Seq({Rewrite(t) : t \in T} \cup {OwnVars, Cdrom})
    /\ Len(body) = size /\ size \in Nat
    /\ added \in 1..Len(options) + 1
    /\ added <= size => body[added] = OwnVars
    /\ \A n \in 1..size : n # added =>
          /\ Before(added, n) \in 1..Len(options)
          /\ body[n] = Rewrite(options[Before(added, n)])

LEMMA BodyIs ==
    ASSUME NEW T, NEW options \in Seq(T), NEW file, NEW copy
    PROVE  BodyHas(T, Body(options, file, copy), options,
                   Added(options, file, copy), Size(options, file, copy))
<1> DEFINE N == Len(options)
           new == Rewritten(options)
           body == Body(options, file, copy)
           U == {Rewrite(t) : t \in T} \cup {OwnVars, Cdrom}
           inject == CanInject(options, file, copy)
           code == SelectInSeq(options, IsCode)
           added == Added(options, file, copy)
           size == Size(options, file, copy)
<1>1. N \in Nat /\ DOMAIN options = 1..N /\ \A n \in 1..N : options[n] \in T
      OBVIOUS
<1>2. new \in Seq(U) /\ Len(new) = N
      /\ \A n \in 1..N : new[n] = Rewrite(options[n])
  <2>1. new = [n \in 1..N |-> Rewrite(options[n])]
        BY <1>1 DEF Rewritten
  <2>2. \A n \in 1..N : Rewrite(options[n]) \in U
        BY <1>1
  <2> HIDE DEF U, N, new
  <2>3. new \in [1..N -> U]
        BY <2>1, <2>2
  <2>4. new \in Seq(U) /\ Len(new) = N
        BY <1>1, <2>3
  <2> QED
        BY <2>1, <2>4
<1>3. OwnVars \in U
      OBVIOUS
<1>4. CASE inject
  <2>1. code \in 1..N
        BY <1>4, CodeIsThere DEF CanInject
  <2>2. added = code + 1 /\ size = N + 1
        BY <1>4 DEF Added, Size
  <2>3. body = InsertAt(new, code + 1, OwnVars)
        BY <1>4 DEF Body
  <2> HIDE DEF N, U, new, body, code, added, size, inject
  <2>4. /\ body \in Seq(U)
        /\ Len(body) = N + 1
        /\ \A n \in 1..code : body[n] = new[n]
        /\ body[code + 1] = OwnVars
        /\ \A n \in code + 2..N + 1 : body[n] = new[n - 1]
    <3>1. code \in 1..Len(new)
          BY <1>2, <2>1
    <3> DEFINE place == code + 1
    <3>2. place = code + 1 /\ body = InsertAt(new, place, OwnVars)
          BY <2>3
    <3> HIDE DEF place
    <3>3. new \in Seq(U)
          BY <1>2
    <3>4. body \in Seq(U) /\ Len(body) = Len(new) + 1
          BY <1>3, <3>1, <3>2, <3>3, InsertedAt
    <3>5. (\A n \in 1..code : body[n] = new[n]) /\ body[code + 1] = OwnVars
          BY <1>3, <3>1, <3>2, <3>3, InsertedAt
    <3>6. \A n \in code + 2..Len(new) + 1 : body[n] = new[n - 1]
          BY <1>3, <3>1, <3>2, <3>3, InsertedAt
    <3>7. Len(new) = N
          BY <1>2
    <3> QED
          BY <3>4, <3>5, <3>6, <3>7
  <2>5. ASSUME NEW n \in 1..size, n # added
        PROVE  /\ Before(added, n) \in 1..N
               /\ body[n] = Rewrite(options[Before(added, n)])
    <3>1. CASE n < added
      <4>1. Before(added, n) = n
            BY <3>1 DEF Before
      <4>2. n \in 1..code /\ n \in 1..N
            BY <1>1, <2>1, <2>2, <3>1
      <4> QED
            BY <1>2, <2>4, <4>1, <4>2
    <3>2. CASE ~(n < added)
      <4>1. Before(added, n) = n - 1
            BY <3>2 DEF Before
      <4>2. n \in code + 2..N + 1 /\ n - 1 \in 1..N
            BY <1>1, <2>1, <2>2, <2>5, <3>2
      <4>3. body[n] = new[n - 1]
            BY <2>4, <4>2
      <4> QED
            BY <1>2, <4>1, <4>2, <4>3
    <3> QED
          BY <3>1, <3>2
  <2>6. added \in 1..N + 1 /\ size \in Nat
        BY <1>1, <2>1, <2>2
  <2> QED
        BY <1>4, <2>2, <2>4, <2>5, <2>6 DEF N, U, body, added, size, BodyHas
<1>5. CASE ~inject
  <2>1. added = N + 1 /\ size = N /\ body = new
        BY <1>5 DEF Added, Size, Body
  <2> HIDE DEF N, U, new, body, code, added, size, inject
  <2>2. ASSUME NEW n \in 1..size
        PROVE  /\ Before(added, n) \in 1..N
               /\ body[n] = Rewrite(options[Before(added, n)])
    <3>1. n < added /\ n \in 1..N
          BY <1>1, <2>1
    <3> QED
          BY <1>2, <2>1, <3>1 DEF Before
  <2>3. added \in 1..N + 1 /\ ~(added <= size) /\ size \in Nat
        BY <1>1, <2>1
  <2> QED
        BY <1>2, <1>5, <2>1, <2>2, <2>3 DEF N, U, body, added, size, BodyHas
<1> QED
    BY <1>4, <1>5

(* The whole command line: Lima's options where BodyIs has them, the drive *)
(* that was added, and the CD-ROM at the end.                              *)
LineHas(wrapped, options, added, size) ==
    /\ size \in Nat /\ added \in 1..Len(options) + 1
    /\ \/ DOMAIN wrapped = 1..size
       \/ /\ DOMAIN wrapped = 1..size + 1
          /\ wrapped[size + 1] = Cdrom
    /\ added <= size => wrapped[added] = OwnVars
    /\ \A n \in 1..size : n # added =>
          /\ Before(added, n) \in 1..Len(options)
          /\ wrapped[n] = Rewrite(options[Before(added, n)])

LEMMA WrappedIs ==
    ASSUME NEW T, NEW options \in Seq(T), NEW file, NEW copy,
           NEW iso \in BOOLEAN
    PROVE  LineHas(WrappedArgs(options, file, copy, iso), options,
                   Added(options, file, copy), Size(options, file, copy))
<1> DEFINE N == Len(options)
           body == Body(options, file, copy)
           U == {Rewrite(t) : t \in T} \cup {OwnVars, Cdrom}
           added == Added(options, file, copy)
           size == Size(options, file, copy)
           tail == IF iso THEN <<Cdrom>> ELSE <<>>
           wrapped == WrappedArgs(options, file, copy, iso)
<1>1. /\ body \in Seq(U) /\ Len(body) = size /\ size \in Nat
      /\ added \in 1..N + 1
      /\ added <= size => body[added] = OwnVars
      /\ \A n \in 1..size : n # added =>
            /\ Before(added, n) \in 1..N
            /\ body[n] = Rewrite(options[Before(added, n)])
  <2>1. BodyHas(T, body, options, added, size)
        BY BodyIs
  <2> HIDE DEF body, added, size
  <2> QED
        BY <2>1 DEF BodyHas
<1>2. wrapped = body \o tail
      BY Zenon DEF WrappedArgs, Body, Rewritten, Cdrom
<1>3. /\ tail \in Seq(U)
      /\ tail = <<>> \/ (Len(tail) = 1 /\ tail[1] = Cdrom)
  <2>1. CASE iso
    <3>1. tail = <<Cdrom>>
          BY <2>1
    <3>2. Cdrom \in U
          OBVIOUS
    <3> HIDE DEF tail, U
    <3> QED
          BY <3>1, <3>2
  <2>2. CASE ~iso
    <3>1. tail = <<>>
          BY <2>2
    <3> HIDE DEF tail, U
    <3> QED
          BY <3>1
  <2> QED
        BY <2>1, <2>2
<1> HIDE DEF N, body, U, added, size, tail, wrapped
<1>4. /\ wrapped \in Seq(U)
      /\ Len(wrapped) = size + Len(tail)
      /\ \A n \in 1..size + Len(tail) :
            wrapped[n] = IF n <= size THEN body[n] ELSE tail[n - size]
  <2>1. body \in Seq(U) /\ Len(body) = size
        BY <1>1
  <2> QED
        BY <1>2, <1>3, <2>1, ConcatProperties
<1>5. DOMAIN wrapped = 1..size + Len(tail)
      BY <1>4
<1>6. \A n \in 1..size : wrapped[n] = body[n]
  <2>1. Len(tail) \in Nat
        BY <1>3
  <2>2. \A n \in 1..size : n \in 1..size + Len(tail) /\ n <= size
        BY <1>1, <2>1
  <2> QED
        BY <1>4, <2>2
<1>7. CASE tail = <<>>
  <2>1. DOMAIN wrapped = 1..size
        BY <1>1, <1>5, <1>7
  <2>2. added <= size => added \in 1..size
        BY <1>1
  <2> QED
        BY <1>1, <1>6, <2>1, <2>2 DEF N, added, size, wrapped, LineHas
<1>8. CASE Len(tail) = 1 /\ tail[1] = Cdrom
  <2>1. DOMAIN wrapped = 1..size + 1
        BY <1>5, <1>8
  <2>2. size \in Nat /\ Len(tail) = 1
        BY <1>1, <1>8
  <2> DEFINE x == size + 1
  <2>3. x \in 1..size + Len(tail) /\ ~(x <= size) /\ x - size = 1
        BY <2>2
  <2> HIDE DEF x
  <2>4. wrapped[x] = tail[x - size]
        BY <1>4, <2>3
  <2>5. wrapped[size + 1] = Cdrom
        BY <1>8, <2>3, <2>4 DEF x
  <2>6. added <= size => added \in 1..size
        BY <1>1
  <2> QED
        BY <1>1, <1>6, <2>1, <2>5, <2>6 DEF N, added, size, wrapped, LineHas
<1> QED
    BY <1>3, <1>7, <1>8

(* Numbers up to k but for one.                                            *)
LEMMA CountWithout ==
    ASSUME NEW k \in Nat, NEW x \in Nat \ {0}
    PROVE  Cardinality((1..k) \ {x}) = IF x <= k THEN k - 1 ELSE k
<1>1. IsFiniteSet(1..k) /\ Cardinality(1..k) = k
  <2>1. /\ IsFiniteSet(1..k)
        /\ Cardinality(1..k) = IF 1 > k THEN 0 ELSE k - 1 + 1
        BY FS_Interval
  <2> QED
        BY <2>1
<1>2. Cardinality((1..k) \ {x}) =
         IF x \in 1..k THEN Cardinality(1..k) - 1 ELSE Cardinality(1..k)
      BY <1>1, FS_RemoveElement
<1> QED
    BY <1>1, <1>2

(* The wrapper does to every command line what RunsOnTcg says, if Lima     *)
(* does not use what the wrapper adds.                                     *)
LEMMA TcgVersion ==
    ASSUME NEW T, NEW options \in Seq(T),
           \A n \in 1..Len(options) : IsLimas(options[n]),
           NEW file, NEW copy \in BOOLEAN, NEW iso \in BOOLEAN
    PROVE  TcgVersionOf(WrappedArgs(options, file, copy, iso),
                        options, file, copy)
<1> DEFINE N == Len(options)
           inject == CanInject(options, file, copy)
           added == Added(options, file, copy)
           size == Size(options, file, copy)
           wrapped == WrappedArgs(options, file, copy, iso)
           From(n) == Before(added, n)
           kept == Places(wrapped, IsLimas)
           vars == Places(wrapped, IsVars)
<1>1. N \in Nat /\ DOMAIN options = 1..N
      OBVIOUS
<1>2. LineHas(wrapped, options, added, size)
      BY WrappedIs
<1>3. /\ inject => size = N + 1
      /\ ~inject => size = N /\ added = N + 1
      BY DEF Added, Size
<1>4. \A n \in 1..N : IsLimas(options[n])
      OBVIOUS
<1> HIDE DEF N, inject, added, size, wrapped
<1>5. /\ size \in Nat /\ added \in 1..N + 1
      /\ DOMAIN wrapped = 1..size \/ DOMAIN wrapped = 1..size + 1
      /\ size + 1 \in DOMAIN wrapped => wrapped[size + 1] = Cdrom
      BY <1>2 DEF LineHas, N
<1>6. added <= size => wrapped[added] = OwnVars
      BY <1>2 DEF LineHas
<1>7. \A n \in 1..size : n # added =>
         From(n) \in 1..N /\ wrapped[n] = Rewrite(options[From(n)])
      BY <1>2 DEF LineHas, N
<1>8. added <= size <=> inject
      BY <1>1, <1>3, <1>5
<1>9. ~IsLimas(OwnVars) /\ ~IsLimas(Cdrom) /\ IsVars(OwnVars) /\ ~IsVars(Cdrom)
  <2>1. Cdrom.opt = "cdrom" /\ Vars.opt = "drive" /\ OwnVars.opt = "drive"
        BY DEF Cdrom, Vars, OwnVars, Option
  <2>2. Cdrom # Vars /\ Cdrom # OwnVars
        BY <2>1
  <2> QED
        BY <2>1, <2>2 DEF IsLimas, IsVars
<1>10. ASSUME NEW n \in 1..size, n # added
       PROVE  /\ IsLimas(wrapped[n])
              /\ IsVars(wrapped[n]) <=> IsVars(options[From(n)])
  <2>1. From(n) \in 1..N /\ wrapped[n] = Rewrite(options[From(n)])
        BY <1>7, <1>10
  <2>2. IsLimas(options[From(n)])
        BY <1>4, <2>1
  <2> HIDE DEF From
  <2> QED
        BY <2>1, <2>2, RewriteKeeps
<1>11. \A n \in DOMAIN wrapped :
          \/ n \in 1..size /\ n # added
          \/ n = added /\ added <= size /\ wrapped[n] = OwnVars
          \/ wrapped[n] = Cdrom /\ n = size + 1
  <2> SUFFICES ASSUME NEW n \in DOMAIN wrapped, ~(n \in 1..size /\ n # added)
               PROVE  \/ n = added /\ added <= size /\ wrapped[n] = OwnVars
                      \/ wrapped[n] = Cdrom /\ n = size + 1
      OBVIOUS
  <2>1. CASE n \in 1..size
        BY <1>5, <1>6, <2>1
  <2>2. CASE n \notin 1..size
    <3>1. n = size + 1
          BY <1>5, <2>2
    <3> QED
          BY <1>5, <3>1
  <2> QED
        BY <2>1, <2>2
<1>12. 1..size \subseteq DOMAIN wrapped /\ 1..size \subseteq Nat
      BY <1>5
<1>13. kept = (1..size) \ {added}
      BY <1>5, <1>9, <1>10, <1>11, <1>12 DEF Places
<1>14. Cardinality(kept) = N
  <2>1. Cardinality(kept) = IF added <= size THEN size - 1 ELSE size
        BY <1>1, <1>5, <1>13, CountWithout
  <2> QED
        BY <1>1, <1>3, <1>5, <1>8, <2>1
<1>15. ASSUME NEW n \in kept
       PROVE  Cardinality({m \in kept : m <= n}) = From(n)
  <2>1. n \in 1..size /\ n # added /\ n \in Nat
        BY <1>5, <1>13
  <2>2. {m \in kept : m <= n} = (1..n) \ {added}
        BY <1>5, <1>13, <2>1
  <2>3. added \in Nat \ {0}
        BY <1>1, <1>5
  <2>4. Cardinality((1..n) \ {added}) = IF added <= n THEN n - 1 ELSE n
        BY <2>1, <2>3, CountWithout
  <2>5. added <= n <=> ~(n < added)
        BY <2>1, <2>3
  <2>6. From(n) = IF added <= n THEN n - 1 ELSE n
        BY <2>5 DEF Before
  <2> QED
        BY <2>2, <2>4, <2>6
<1>16. ASSUME NEW n \in kept
       PROVE  LET o == wrapped[n]
                  a == options[Cardinality({m \in kept : m <= n})]
              IN  /\ o.opt = a.opt
                  /\ o.opt = "machine" => o.val.accel \notin Hypervisors
                  /\ o.opt = "accel" => o.val \notin Hypervisors
                  /\ o.opt = "cpu" => o.val \notin KvmCpus
                  /\ o.opt \in {"drive", "pidfile"} => o = a
  <2> DEFINE a == options[Cardinality({m \in kept : m <= n})]
  <2>1. a = options[From(n)] /\ wrapped[n] = Rewrite(options[From(n)])
        BY <1>7, <1>13, <1>15
  <2> HIDE DEF a
  <2>2. wrapped[n] = Rewrite(a)
        BY <2>1
  <2>3. /\ wrapped[n].opt = a.opt
        /\ a.opt = "machine" => wrapped[n].val.accel \notin Hypervisors
        /\ a.opt = "accel" => wrapped[n].val \notin Hypervisors
        /\ a.opt = "cpu" => wrapped[n].val \notin KvmCpus
        /\ a.opt \notin {"machine", "accel", "cpu"} => wrapped[n] = a
        BY <2>2, RewriteIs
  <2> QED
        BY <2>3 DEF a
<1>17. vars = {n \in kept : IsVars(options[From(n)])}
                 \cup (IF inject THEN {added} ELSE {})
  <2>1. ASSUME NEW n \in vars
        PROVE  \/ n \in kept /\ IsVars(options[From(n)])
               \/ inject /\ n = added
    <3>1. n \in DOMAIN wrapped /\ IsVars(wrapped[n])
          BY DEF Places
    <3> QED
          BY <1>8, <1>9, <1>10, <1>11, <1>13, <3>1
  <2>2. ASSUME NEW n \in kept, IsVars(options[From(n)]) PROVE n \in vars
        BY <1>10, <1>12, <1>13, <2>2 DEF Places
  <2>3. ASSUME inject PROVE added \in vars
    <3>1. added \in 1..size
          BY <1>1, <1>5, <1>8, <2>3
    <3> QED
          BY <1>6, <1>8, <1>9, <1>12, <2>3, <3>1 DEF Places
  <2> HIDE DEF vars, kept
  <2> QED
        BY <2>1, <2>2, <2>3
<1>18. Has(options, IsVars) => Cardinality(vars) =
                                  Cardinality(Places(options, IsVars))
  <2> SUFFICES ASSUME Has(options, IsVars) PROVE vars = Places(options, IsVars)
      OBVIOUS
  <2>1. ~inject
        BY DEF CanInject, inject
  <2>2. size = N /\ added = N + 1
        BY <1>3, <2>1
  <2>3. kept = 1..N /\ \A n \in 1..N : n < added
        BY <1>1, <1>13, <2>2
  <2>4. \A n \in 1..N : From(n) = n
        BY <2>3 DEF Before
  <2>5. vars = {n \in 1..N : IsVars(options[n])}
        BY <1>17, <2>1, <2>3, <2>4
  <2> QED
        BY <1>1, <2>5 DEF Places
<1>19. ~Has(options, IsVars) =>
          Cardinality(vars) = IF inject THEN 1 ELSE 0
  <2> SUFFICES ASSUME ~Has(options, IsVars)
               PROVE  Cardinality(vars) = IF inject THEN 1 ELSE 0
      OBVIOUS
  <2>1. \A n \in kept : From(n) \in DOMAIN options
        BY <1>1, <1>7, <1>13
  <2>2. \A n \in kept : ~IsVars(options[From(n)])
        BY <2>1 DEF Has
  <2>3. vars = IF inject THEN {added} ELSE {}
        BY <1>17, <2>2
  <2> HIDE DEF vars
  <2> QED
        BY <2>3, FS_Singleton, FS_EmptySet
<1>20. ~Has(options, IsVars) =>
          (inject <=> /\ Has(options, IsCode) /\ Has(options, IsPidfile)
                      /\ copy \/ file # "none")
      BY DEF inject, CanInject
<1>21. Cardinality(vars) =
          IF Has(options, IsVars) THEN Cardinality(Places(options, IsVars))
          ELSE IF /\ Has(options, IsCode) /\ Has(options, IsPidfile)
                  /\ copy \/ file # "none"
          THEN 1 ELSE 0
  <2> HIDE DEF vars
  <2> QED
      BY <1>18, <1>19, <1>20
<1>22. Cardinality(kept) = Len(options)
      BY <1>14 DEF N
<1> QED
    BY <1>16, <1>21, <1>22, Zenon DEF TcgVersionOf, wrapped

(* No option that needs KVM reaches QEMU, nothing else of what Lima asked  *)
(* for is lost or reordered, and a firmware gets the one writable pflash   *)
(* that it can have: for command lines of any length and on any start      *)
(* (qemu-tcg-wrapper.sh:52, 84).                                           *)
THEOREM WrappedRunsOnTcg == FunctionsSpec => []RunsOnTcg
<1>1. FnTypeOK => RunsOnTcg
  <2> SUFFICES ASSUME FnTypeOK PROVE RunsOnTcg
      OBVIOUS
  <2>1. ASSUME NEW o \in Options PROVE IsLimas(o)
    <3>1. o.opt \in {"machine", "accel", "cpu", "pidfile"}
             \/ o \in {Code, Vars, Option("drive", "disk")}
          BY DEF Options, Machine, Option
    <3>2. /\ OwnVars.opt = "drive" /\ OwnVars.val = "own-vars"
          /\ \A v : Option("drive", v).opt = "drive"
                    /\ Option("drive", v).val = v
          BY DEF OwnVars, Option
    <3>3. \A v : v # "own-vars" => IsLimas(Option("drive", v))
          BY <3>2 DEF IsLimas
    <3> QED
          BY <3>1, <3>2, <3>3 DEF IsLimas, Code, Vars
  <2>2. \A n \in 1..Len(args) : IsLimas(args[n])
    <3>1. \A n \in 1..Len(args) : args[n] \in Options
          BY DEF FnTypeOK
    <3> QED
          BY <2>1, <3>1
  <2> QED
        BY <2>2, TcgVersion DEF FnTypeOK, RunsOnTcg, Wrapped
<1> QED
    BY <1>1, FnTypeCorrect, PTL
=============================================================================
