---------------------------- MODULE OcallErrnoProofs ----------------------------
(***************************************************************************)
(* What holds of the errno an ocall reports for every set of values of     *)
(* errno, every set of ocalls a handler makes and every depth of nested    *)
(* signals.                                                                *)
(*                                                                         *)
(* The invariant Explained says of each ocall that has its result what     *)
(* libc answered, and that errno is its own or that of a later call of a   *)
(* handler: an error of a call above it is written into every frame below. *)
(* The report then follows from the tables: an ocall looks at errno when   *)
(* and only when the manual says that errno explains the failure.          *)
(***************************************************************************)
EXTENDS OcallErrno, SequenceTheorems, TLAPS

AnyFrame == OcallFrame \cup HandlerFrame

--------------------------------------------------------------------------------
(* Stacks                                                                      *)

\* The last frame, and what is below it.
LEMMA FrontForm ==
  ASSUME NEW S, NEW s \in Seq(S), s # << >>
  PROVE  /\ Front(s) \in Seq(S) /\ Last(s) \in S
         /\ DOMAIN Front(s) \subseteq DOMAIN s /\ Len(s) \in DOMAIN s /\ Last(s) = s[Len(s)]
         /\ \A i \in DOMAIN Front(s) : Front(s)[i] = s[i]
<1> DEFINE n == Len(s)
           m == n - 1
           r == Front(s)
<1>1. n \in Nat /\ n # 0 /\ DOMAIN s = 1 .. n
  BY EmptySeq, LenProperties
<1>2. m \in Int /\ 1 \in Int /\ m >= 0 /\ n \in 1 .. n /\ \A i \in 1 .. m : s[i] \in S
  BY <1>1
<1>3. r = SubSeq(s, 1, m) /\ m <= n
  BY <1>1 DEF Front
<1>4. Last(s) = s[n] /\ s[n] \in S
  BY <1>2, ElementOfSeq DEF Last
<1> HIDE DEF m, r
<1>5. /\ r \in Seq(S) /\ Len(r) = IF 1 <= m THEN m - 1 + 1 ELSE 0
      /\ \A i \in 1 .. m - 1 + 1 : r[i] = s[1 + i - 1]
  BY <1>2, <1>3, SubSeqProperties
<1>6. m - 1 + 1 = m /\ \A i \in 1 .. m : 1 + i - 1 = i
  BY <1>2
<1>7. DOMAIN r = 1 .. m /\ \A i \in 1 .. m : r[i] = s[i]
  BY <1>2, <1>5, <1>6, LenProperties
<1>8. DOMAIN r \subseteq DOMAIN s
  BY <1>1, <1>2, <1>3, <1>7
<1> QED BY <1>1, <1>2, <1>4, <1>5, <1>7, <1>8 DEF r

\* A frame on top.
LEMMA AppendForm ==
  ASSUME NEW S, NEW s \in Seq(S), NEW f \in S
  PROVE  /\ Append(s, f) \in Seq(S)
         /\ \A i \in DOMAIN Append(s, f) : Append(s, f)[i] = f \/ (i \in DOMAIN s /\ Append(s, f)[i] = s[i])
<1> DEFINE r == Append(s, f)
<1>1. /\ r \in Seq(S) /\ Len(r) = Len(s) + 1
      /\ \A i \in 1 .. Len(s) : r[i] = s[i]
      /\ r[Len(s) + 1] = f
  BY AppendProperties
<1> HIDE DEF r
<1>2. DOMAIN r = 1 .. Len(r) /\ DOMAIN s = 1 .. Len(s) /\ Len(s) \in Nat
  BY <1>1, LenProperties
<1>3. ASSUME NEW i \in DOMAIN r PROVE r[i] = f \/ (i \in DOMAIN s /\ r[i] = s[i])
  <2>1. i \in 1 .. Len(s) \/ i = Len(s) + 1
    BY <1>1, <1>2
  <2> QED BY <1>1, <1>2, <2>1
<1> QED BY <1>1, <1>3 DEF r

\* A frame in which an error above is noted.
Noted(f, e) == IF f.pc = "called" THEN [f EXCEPT !.during = @ \cup {e}] ELSE f

LEMMA NotedFrame ==
  ASSUME NEW f \in AnyFrame, NEW e \in Errno
  PROVE  /\ Noted(f, e) \in AnyFrame /\ Noted(f, e).pc = f.pc
         /\ f.pc = "called" =>
              /\ Noted(f, e).ocall = f.ocall /\ Noted(f, e).ret = f.ret /\ Noted(f, e).answer = f.answer
              /\ Noted(f, e).own = f.own /\ Noted(f, e).during = f.during \cup {e}
<1>1. CASE f \in OcallFrame
  BY <1>1 DEF Noted, AnyFrame, OcallFrame
<1>2. CASE f \in HandlerFrame
  BY <1>2 DEF Noted, AnyFrame, HandlerFrame
<1> QED BY <1>1, <1>2 DEF AnyFrame

LEMMA OverwriteForm ==
  ASSUME NEW s \in Seq(AnyFrame), NEW e \in Errno
  PROVE  /\ Overwrite(s, e) \in Seq(AnyFrame) /\ DOMAIN Overwrite(s, e) = DOMAIN s
         /\ \A i \in DOMAIN s : s[i] \in AnyFrame /\ Overwrite(s, e)[i] = Noted(s[i], e)
<1> DEFINE r == [i \in DOMAIN s |-> Noted(s[i], e)]
<1>1. Overwrite(s, e) = r
  BY DEF Overwrite, Noted
<1>2. Len(s) \in Nat /\ DOMAIN s = 1 .. Len(s)
  BY LenProperties
<1>3. \A i \in DOMAIN s : s[i] \in AnyFrame
  BY <1>2, ElementOfSeq
<1>4. \A i \in DOMAIN s : Noted(s[i], e) \in AnyFrame
  BY <1>3, NotedFrame
<1>5. r \in [1 .. Len(s) -> AnyFrame]
  BY <1>2, <1>4
<1>6. r \in Seq(AnyFrame)
  BY <1>2, <1>5
<1> QED BY <1>1, <1>3, <1>6

--------------------------------------------------------------------------------
(* The tables                                                                  *)

\* An ocall reads errno after an answer that errno explains, and not after a success or
\* an answer that explains itself.
LEMMA ReadsWhenExplained ==
  ASSUME NEW ocall \in Ocall, NEW a \in LibcAnswers(ocall)
  PROVE  /\ a[1] \in {EAI_SYSTEM, -2, -1, 0, 1} /\ a[2] \in Answer
         /\ a[2] \in {"success", "coded"} => ~ReadsErrno(ocall, a[1])
         /\ a[2] = "errno" => ReadsErrno(ocall, a[1])
<1> DEFINE Null == LibcFails.null
           Coded == LibcFails.coded
           Resolve == LibcFails.resolve
           Limits == LibcFails.limits
<1>1. Null = NullOrZeroOcalls /\ Coded = CodedOcalls /\ Resolve = SystemOcalls
  BY DEF LibcFails, NullOrZeroOcalls, PathOcalls, CodedOcalls, SystemOcalls
<1>2. Limits = {"u_sysconf_ocall", "u_fcntl_arg0_ocall"}
  BY DEF LibcFails
<1>3. /\ \A o \in NullOrZeroOcalls : o \notin MinusOneOcalls
      /\ \A o \in CodedOcalls : o \notin NullOrZeroOcalls /\ o \notin MinusOneOcalls /\ o \notin SystemOcalls
      /\ \A o \in SystemOcalls : o \notin NullOrZeroOcalls /\ o \notin MinusOneOcalls
      /\ \A o \in Limits : /\ o \notin NullOrZeroOcalls /\ o \notin MinusOneOcalls
                           /\ o \notin SystemOcalls /\ o \notin CodedOcalls
  BY <1>2 DEF NullOrZeroOcalls, PathOcalls, CodedOcalls, SystemOcalls, MinusOneOcalls
<1>4. CASE ocall \in NullOrZeroOcalls
  <2>1. a \in {<<1, "success">>, <<0, "errno">>}
    BY <1>1, <1>3, <1>4 DEF LibcAnswers
  <2>2. ReadsErrno(ocall, a[1]) <=> a[1] = 0
    BY <1>3, <1>4 DEF ReadsErrno
  <2> QED BY <2>1, <2>2 DEF EAI_SYSTEM, Answer
<1>5. CASE ocall \in CodedOcalls
  <2>1. a \in {<<0, "success">>, <<1, "coded">>}
    BY <1>1, <1>3, <1>5 DEF LibcAnswers
  <2>2. ~ReadsErrno(ocall, a[1])
    BY <1>3, <1>5 DEF ReadsErrno
  <2> QED BY <2>1, <2>2 DEF EAI_SYSTEM, Answer
<1>6. CASE ocall \in SystemOcalls
  <2>1. a \in {<<0, "success">>, <<-2, "coded">>, <<EAI_SYSTEM, "errno">>}
    BY <1>1, <1>3, <1>6 DEF LibcAnswers
  <2>2. ReadsErrno(ocall, a[1]) <=> a[1] = EAI_SYSTEM
    BY <1>3, <1>6 DEF ReadsErrno
  <2> QED BY <2>1, <2>2 DEF EAI_SYSTEM, Answer
<1>7. CASE ocall \notin NullOrZeroOcalls /\ ocall \notin CodedOcalls /\ ocall \notin SystemOcalls
  <2>1. a \in {<<0, "success">>, <<1, "success">>, <<-1, "errno">>, <<-1, "negative">>}
    BY <1>1, <1>7 DEF LibcAnswers
  <2>2. ReadsErrno(ocall, a[1]) <=> IF ocall \in MinusOneOcalls THEN a[1] = -1 ELSE a[1] < 0
    BY <1>7 DEF ReadsErrno
  <2> QED BY <2>1, <2>2 DEF EAI_SYSTEM, Answer
<1> QED BY <1>4, <1>5, <1>6, <1>7


--------------------------------------------------------------------------------
(* Types                                                                       *)

Reports ==
  [ocall : Ocall \cup {"none"}, answer : Answer, error : Errno \cup {0}, own : Errno \cup {0},
   during : SUBSET Errno]
Entries == {NoEntry} \cup [Field -> [was : Nat, is : Nat \cup {MaxUsize}]]

LEMMA NothingReported == NoReport \in Reports /\ NoEntry \in Entries
  BY DEF NoReport, Reports, Entries, Answer

LEMMA CalledIsOcall ==
  ASSUME NEW f \in AnyFrame, f.pc \in {"entered", "called"}
  PROVE  f \in OcallFrame
  BY DEF AnyFrame, OcallFrame, HandlerFrame

\* What libc puts in an entry is an address, and what the ocall makes of it a place.
LEMMA EntryForm ==
  ASSUME NEW f, NEW p \in Entry(f)
  PROVE  \/ p = NoEntry
         \/ /\ p \in [Field -> [was : Nat, is : Nat \cup {MaxUsize}]]
            /\ \A field \in Field : p[field].was \in Address /\ p[field].is = Relative(p[field].was)
<1>1. ASSUME NEW a \in Address PROVE a \in Nat /\ Relative(a) \in Nat \cup {MaxUsize}
  BY ErrnoAssumption DEF Address, Relative
<1>2. ASSUME NEW at \in [Field -> Address], p = [field \in Field |-> [was |-> at[field], is |-> Relative(at[field])]]
      PROVE  /\ p \in [Field -> [was : Nat, is : Nat \cup {MaxUsize}]]
             /\ \A field \in Field : p[field].was \in Address /\ p[field].is = Relative(p[field].was)
  <2>1. \A field \in Field : at[field] \in Address /\ at[field] \in Nat /\ Relative(at[field]) \in Nat \cup {MaxUsize}
    BY <1>1
  <2> QED BY <1>2, <2>1
<1>3. p = NoEntry \/ \E at \in [Field -> Address] :
        p = [field \in Field |-> [was |-> at[field], is |-> Relative(at[field])]]
  BY DEF Entry
<1> QED BY <1>2, <1>3


\* What is known of an ocall that has its result: libc gave that answer, and if errno
\* explains it, errno is e for it or for a later call above.
Explains(f, e) ==
  f.pc = "called" =>
    /\ <<f.ret, f.answer>> \in LibcAnswers(f.ocall)
    /\ f.answer = "errno" => e \in {f.own} \cup f.during

Explained(s, e) == s \in Seq(AnyFrame) /\ \A i \in DOMAIN s : Explains(s[i], e)

\* The inductive invariant.
Inv ==
  /\ Explained(stack, errno) /\ errno \in Errno \cup {0}
  /\ report \in Reports /\ passwd \in Entries
  /\ ErrnoIsOfTheCall
  /\ PasswdIsRelative

LEMMA PushExplained ==
  ASSUME NEW s, NEW e, Explained(s, e), NEW f \in AnyFrame, Explains(f, e)
  PROVE  Explained(Append(s, f), e)
<1> DEFINE r == Append(s, f)
<1>1. /\ r \in Seq(AnyFrame)
      /\ \A i \in DOMAIN r : r[i] = f \/ (i \in DOMAIN s /\ r[i] = s[i])
  BY AppendForm DEF Explained
<1> HIDE DEF r
<1>2. \A i \in DOMAIN r : Explains(r[i], e)
  BY <1>1 DEF Explained
<1> QED BY <1>1, <1>2 DEF Explained, r

LEMMA PopExplained ==
  ASSUME NEW s, NEW e, Explained(s, e), s # << >>
  PROVE  Explained(Front(s), e) /\ Last(s) \in AnyFrame /\ Explains(Last(s), e)
<1> DEFINE r == Front(s)
<1>1. /\ r \in Seq(AnyFrame) /\ Last(s) \in AnyFrame
      /\ DOMAIN r \subseteq DOMAIN s /\ Len(s) \in DOMAIN s /\ Last(s) = s[Len(s)]
      /\ \A i \in DOMAIN r : r[i] = s[i]
  BY FrontForm DEF Explained
<1> HIDE DEF r
<1>2. \A i \in DOMAIN r : Explains(r[i], e)
  BY <1>1 DEF Explained
<1> QED BY <1>1, <1>2 DEF Explained, r

\* A failure above explains itself to all frames below.
LEMMA NotedExplained ==
  ASSUME NEW s, NEW old, Explained(s, old), NEW e \in Errno
  PROVE  Explained(Overwrite(s, e), e)
<1> DEFINE r == Overwrite(s, e)
<1>1. /\ r \in Seq(AnyFrame) /\ DOMAIN r = DOMAIN s
      /\ \A i \in DOMAIN s : s[i] \in AnyFrame /\ r[i] = Noted(s[i], e)
  BY OverwriteForm DEF Explained
<1> HIDE DEF r
<1>2. ASSUME NEW i \in DOMAIN r PROVE Explains(r[i], e)
  <2> DEFINE f == s[i]
             g == Noted(f, e)
  <2>1. f \in AnyFrame /\ Explains(f, old) /\ r[i] = g
    BY <1>1 DEF Explained
  <2> HIDE DEF f
  <2>2. /\ g.pc = f.pc
        /\ f.pc = "called" =>
             /\ g.ocall = f.ocall /\ g.ret = f.ret /\ g.answer = f.answer
             /\ g.own = f.own /\ g.during = f.during \cup {e}
    BY <2>1, NotedFrame
  <2> HIDE DEF g
  <2> QED BY <2>1, <2>2 DEF Explains
<1> QED BY <1>1, <1>2 DEF Explained, r

--------------------------------------------------------------------------------
(* Every step                                                                  *)

LEMMA InvInit == Init => Inv
<1> SUFFICES ASSUME Init PROVE Inv
  OBVIOUS
<1>1. Explained(<< >>, 0)
  BY EmptySeq DEF Explained
<1>2. ErrnoIsOfTheCall /\ PasswdIsRelative
  BY DEF Init, ErrnoIsOfTheCall, PasswdIsRelative, NoReport, NoEntry
<1> QED BY <1>1, <1>2, NothingReported DEF Init, Inv

\* A step that clears the report and the entry.
LEMMA Cleared ==
  ASSUME report' = NoReport, passwd' = NoEntry
  PROVE  report' \in Reports /\ passwd' \in Entries /\ ErrnoIsOfTheCall' /\ PasswdIsRelative'
  BY NothingReported DEF ErrnoIsOfTheCall, PasswdIsRelative, NoReport, NoEntry

LEMMA EnterStep ==
  ASSUME Inv, NEW ocall \in Ocall, Enter(ocall)
  PROVE  Inv'
<1> DEFINE f == [pc |-> "entered", ocall |-> ocall, ret |-> 0, answer |-> "success", own |-> 0, during |-> {}]
<1>1. f \in AnyFrame /\ f.pc = "entered"
  BY DEF AnyFrame, OcallFrame, Answer
<1>2. stack' = Append(stack, f) /\ errno' = errno /\ report' = NoReport /\ passwd' = NoEntry
  BY DEF Enter, Push
<1> HIDE DEF f
<1>3. Explained(stack', errno')
  BY <1>1, <1>2, PushExplained DEF Inv, Explains
<1> QED BY <1>2, <1>3, Cleared DEF Inv

LEMMA RecvmsgStep ==
  ASSUME Inv, u_recvmsg_ocall
  PROVE  Inv'
<1>1. /\ stack' = Front(stack) /\ stack # << >> /\ errno' = errno /\ passwd' = passwd
      /\ report' = [NoReport EXCEPT !.ocall = "u_recvmsg_ocall", !.answer = "errno", !.error = Einval, !.own = Einval]
  BY DEF u_recvmsg_ocall, Top
<1>2. Explained(stack', errno')
  BY <1>1, PopExplained DEF Inv
<1>3. "u_recvmsg_ocall" \in Ocall
  BY DEF Ocall, NegativeOcalls, RecvOcalls
<1>4. report' \in Reports
  BY <1>1, <1>3, ErrnoAssumption DEF NoReport, Reports, Answer
<1>5. ErrnoIsOfTheCall'
  BY <1>1 DEF ErrnoIsOfTheCall, NoReport
<1>6. PasswdIsRelative'
  BY <1>1 DEF Inv, PasswdIsRelative
<1> QED BY <1>1, <1>2, <1>4, <1>5, <1>6 DEF Inv

LEMMA LibcStep ==
  ASSUME Inv, Libc
  PROVE  Inv'
<1> DEFINE last == Last(stack)
           below == Front(stack)
<1>1. stack # << >> /\ last.pc = "entered" /\ UNCHANGED <<report, passwd>>
  BY DEF Libc, Top
<1>2. Explained(below, errno) /\ last \in OcallFrame
  BY <1>1, PopExplained, CalledIsOcall DEF Inv
<1>3. PICK answer \in LibcAnswers(last.ocall), e \in Errno :
        /\ errno' = IF answer[2] = "errno" THEN e ELSE errno
        /\ stack' = Append(IF answer[2] = "errno" THEN Overwrite(below, e) ELSE below,
                           [last EXCEPT !.pc = "called", !.ret = answer[1], !.answer = answer[2],
                                        !.own = IF answer[2] = "errno" THEN e ELSE 0])
  BY DEF Libc
<1> DEFINE f == [last EXCEPT !.pc = "called", !.ret = answer[1], !.answer = answer[2],
                             !.own = IF answer[2] = "errno" THEN e ELSE 0]
           s == IF answer[2] = "errno" THEN Overwrite(below, e) ELSE below
<1>4. last.ocall \in Ocall
  BY <1>2 DEF OcallFrame
<1>5. answer[1] \in {EAI_SYSTEM, -2, -1, 0, 1} /\ answer[2] \in Answer /\ answer = <<answer[1], answer[2]>>
  <2>1. answer[1] \in {EAI_SYSTEM, -2, -1, 0, 1} /\ answer[2] \in Answer
    BY <1>4, ReadsWhenExplained
  <2>2. answer = <<answer[1], answer[2]>>
    BY DEF LibcAnswers
  <2> QED BY <2>1, <2>2
<1>6. /\ f \in OcallFrame /\ f.pc = "called" /\ f.ocall = last.ocall /\ f.ret = answer[1]
      /\ f.answer = answer[2] /\ f.own = IF answer[2] = "errno" THEN e ELSE 0
  <2> HIDE DEF last
  <2> QED BY <1>2, <1>5 DEF OcallFrame
<1>7. errno' \in Errno \cup {0}
  BY <1>3 DEF Inv
<1>8. Explained(s, errno')
  BY <1>2, <1>3, NotedExplained
<1>9. Explains(f, errno')
  <2> HIDE DEF f, last
  <2> QED BY <1>3, <1>5, <1>6 DEF Explains
<1>10. stack' = Append(s, f) /\ f \in AnyFrame
  BY <1>3, <1>6 DEF AnyFrame
<1> HIDE DEF s, f
<1>11. Explained(stack', errno')
  BY <1>8, <1>9, <1>10, PushExplained
<1>12. ErrnoIsOfTheCall' /\ PasswdIsRelative' /\ report' \in Reports /\ passwd' \in Entries
  BY <1>1 DEF Inv, ErrnoIsOfTheCall, PasswdIsRelative
<1> QED BY <1>7, <1>11, <1>12 DEF Inv

LEMMA ReturnStep ==
  ASSUME Inv, Return
  PROVE  Inv'
<1> DEFINE f == Last(stack)
<1>1. /\ stack # << >> /\ f.pc = "called" /\ stack' = Front(stack) /\ errno' = errno
      /\ report' = [ocall |-> f.ocall, answer |-> f.answer,
                    error |-> IF ReadsErrno(f.ocall, f.ret) THEN errno ELSE 0,
                    own |-> f.own, during |-> f.during]
      /\ passwd' \in Entry(f)
  BY DEF Return, Top
<1>2. Explained(stack', errno') /\ f \in OcallFrame /\ Explains(f, errno)
  BY <1>1, PopExplained, CalledIsOcall DEF Inv
<1> HIDE DEF f
<1>3. /\ f.ocall \in Ocall /\ f.answer \in Answer /\ f.own \in Errno \cup {0} /\ f.during \subseteq Errno
  BY <1>2 DEF OcallFrame
<1>4. report' \in Reports
  BY <1>1, <1>3 DEF Reports, Inv
<1>5. ErrnoIsOfTheCall'
  <2> DEFINE a == <<f.ret, f.answer>>
  <2>1. a \in LibcAnswers(f.ocall) /\ a[1] = f.ret /\ a[2] = f.answer
    BY <1>1, <1>2 DEF Explains
  <2> HIDE DEF a
  <2>2. /\ f.answer \in {"success", "coded"} => ~ReadsErrno(f.ocall, f.ret)
        /\ f.answer = "errno" => ReadsErrno(f.ocall, f.ret)
    BY <1>3, <2>1, ReadsWhenExplained
  <2>3. f.answer = "errno" => errno \in {f.own} \cup f.during
    BY <1>1, <1>2 DEF Explains
  <2> QED BY <1>1, <2>2, <2>3 DEF ErrnoIsOfTheCall
<1>6. passwd' \in Entries /\ PasswdIsRelative'
  <2>1. CASE passwd' = NoEntry
    BY <2>1, NothingReported DEF PasswdIsRelative, NoEntry
  <2>2. CASE /\ passwd' \in [Field -> [was : Nat, is : Nat \cup {MaxUsize}]]
             /\ \A field \in Field : passwd'[field].was \in Address
                                     /\ passwd'[field].is = Relative(passwd'[field].was)
    <3>1. ASSUME NEW a \in Address
          PROVE  IF a \in Buf .. Buf + BufLen - 1
                 THEN Relative(a) \in 0 .. BufLen - 1 /\ Buf + Relative(a) = a
                 ELSE Relative(a) = MaxUsize
      BY ErrnoAssumption DEF Address, Relative, MaxUsize
    <3>2. PasswdIsRelative'
      BY <2>2, <3>1 DEF PasswdIsRelative
    <3> QED BY <2>2, <3>2 DEF Entries
  <2> QED BY <1>1, <2>1, <2>2, EntryForm
<1> QED BY <1>1, <1>2, <1>4, <1>5, <1>6 DEF Inv

LEMMA SignalStep ==
  ASSUME Inv, Interrupt \/ HandlerReturns
  PROVE  Inv'
<1>1. CASE Interrupt
  <2> DEFINE f == [pc |-> "ecall"]
  <2>1. f \in AnyFrame /\ f.pc = "ecall"
    BY DEF AnyFrame, HandlerFrame
  <2>2. stack' = Append(stack, f) /\ UNCHANGED <<errno, report, passwd>>
    BY <1>1 DEF Interrupt, Push
  <2> HIDE DEF f
  <2>3. Explained(stack', errno')
    BY <2>1, <2>2, PushExplained DEF Inv, Explains
  <2> QED BY <2>2, <2>3 DEF Inv, ErrnoIsOfTheCall, PasswdIsRelative
<1>2. CASE HandlerReturns
  <2>1. stack # << >> /\ stack' = Front(stack) /\ errno' = errno /\ report' = NoReport /\ passwd' = NoEntry
    BY <1>2 DEF HandlerReturns, Top
  <2>2. Explained(stack', errno')
    BY <2>1, PopExplained DEF Inv
  <2> QED BY <2>1, <2>2, Cleared DEF Inv
<1> QED BY <1>1, <1>2

LEMMA InvStep == Inv /\ [Next]_vars => Inv'
<1> SUFFICES ASSUME Inv, [Next]_vars PROVE Inv'
  OBVIOUS
<1>1. CASE UNCHANGED vars
  BY <1>1 DEF vars, Inv, ErrnoIsOfTheCall, PasswdIsRelative
<1>2. CASE Next
  BY <1>2, EnterStep, RecvmsgStep, LibcStep, ReturnStep, SignalStep DEF Next
<1> QED BY <1>1, <1>2

\* Every variable keeps its type.
THEOREM TypeCorrect == Spec => []TypeOK
<1>1. Inv => TypeOK
  BY DEF Inv, Explained, TypeOK, AnyFrame, Reports, Entries
<1> QED BY <1>1, InvInit, InvStep, PTL DEF Spec

\* An ocall reports 0 unless errno explains its failure, and then the errno of its own
\* call, or of a call that a signal handler made after it.
THEOREM ErrorIsItsOwn == Spec => []ErrnoIsOfTheCall
<1>1. Inv => ErrnoIsOfTheCall
  BY DEF Inv
<1> QED BY <1>1, InvInit, InvStep, PTL DEF Spec

\* u_getpwuid_r_ocall gives the enclave places in the buffer, never addresses.
THEOREM NoAddressGoesOut == Spec => []PasswdIsRelative
<1>1. Inv => PasswdIsRelative
  BY DEF Inv
<1> QED BY <1>1, InvInit, InvStep, PTL DEF Spec
================================================================================
