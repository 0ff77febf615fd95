------------------------- MODULE CodexBackendProofs -------------------------
(***************************************************************************)
(* The JSON-RPC backend, for every number of threads, calls and turns and   *)
(* every approval strategy: its tables hold exactly the calls that wait, a  *)
(* prompt returns the result of its own turn, no completion is missed, and  *)
(* what clients are shown of a request is what the server was told.         *)
(***************************************************************************)
EXTENDS CodexBackend, TLAPS

-----------------------------------------------------------------------------
(* The inductive invariant, part by part. *)

Elems(s) == {s[i] : i \in 1..Len(s)}
Lines == Elems(stdout)

Begun == 1..turns
Granted == {"refused", "once", "session"}

(* A status the server gave for turn n: it is running, or how it ended. *)
StatusOf(n, out) == out = "inProgress" \/ (turn[n].end # None /\ out = turn[n].end)

(* A call that has not been made is blank; a prompt that was answered is    *)
(* about the turn it started, and so is what it returns.                    *)
CallOK(c) ==
    /\ c > calls => call[c] = NoCall
    /\ call[c].op # "none" => call[c].thread \in Threads
    /\ call[c].op = "prompt" /\ call[c].pc = "sent" => call[c].turn = None
    /\ call[c].pc \in {"answered", "waiting"} =>
          call[c].op = "prompt" /\ call[c].turn \in Begun /\ turn[call[c].turn].by = c
    /\ call[c].pc = "answered" => StatusOf(call[c].turn, call[c].out)
    /\ call[c].op = "prompt" /\ call[c].pc = "done" /\ call[c].out # "lost" =>
          IF call[c].turn = None THEN call[c].out = "error"
          ELSE /\ call[c].turn \in Begun /\ turn[call[c].turn].by = c
               /\ turn[call[c].turn].end # None
               /\ call[c].out = prompt_result(turn[call[c].turn].end)

(* A request that waits to be taken is the only one of its call, and has    *)
(* begun no turn.                                                           *)
InboxOK ==
    /\ \A r \in inbox :
          /\ r.id \in 1..calls /\ r.op = call[r.id].op
          /\ r.op = "cancel" => r.turn \in Begun
          /\ \A n \in Begun : turn[n].by # r.id
    /\ \A r, q \in inbox : r.id = q.id => r = q

(* A turn belongs to the one prompt that began it. *)
TurnsOK ==
    /\ \A n \in Turns : n \notin Begun => turn[n] = NoTurn
    /\ \A n \in Begun : turn[n].by \in 1..calls /\ call[turn[n].by].op = "prompt"
    /\ \A n \in Begun : turn[n].thread \in Threads
    /\ \A m, n \in Begun : turn[m].by = turn[n].by => m = n
    /\ \A th \in Threads : active[th] # None => active[th] \in Begun
    /\ \A n \in Turns : completed[n] # None =>
          turn[n].end # None /\ completed[n] = prompt_result(turn[n].end)

LineOK(line) ==
    /\ line.kind # "answer" => line.turn \in Begun
    /\ line.kind = "answer" =>
          /\ line.id \in 1..calls
          /\ line.turn = None => (call[line.id].op = "prompt" => line.out = "error")
          /\ line.turn # None =>
                /\ line.turn \in Begun /\ turn[line.turn].by = line.id
                /\ StatusOf(line.turn, line.out)
    /\ line.kind = "ended" => turn[line.turn].end # None /\ line.out = turn[line.turn].end
    /\ line.kind = "request" => turn[line.turn].item = "request"

LinesOK == \A line \in Lines : LineOK(line)

(* The end of a turn whose prompt is still under way is on its way to the   *)
(* reader, or kept for a prompt that has not registered.                    *)
EndKnown(n) == \E line \in Lines : line.kind = "ended" /\ line.turn = n
EndsOK ==
    \A n \in Begun :
        turn[n].end # None /\ call[turn[n].by].pc \in {"sent", "answered", "waiting"} =>
            EndKnown(n) \/ (completed[n] # None /\ call[turn[n].by].pc # "waiting")

(* A turn asks once, and nothing is shown as granted before it is answered. *)
RequestsOnce ==
    \A i, j \in 1..Len(stdout) :
        /\ stdout[i].kind = "request" /\ stdout[j].kind = "request"
        /\ stdout[i].turn = stdout[j].turn
        => i = j
AskOK ==
    /\ \A line \in Lines : line.kind = "request" => ask[line.turn].pc = "none"
    /\ \A n \in Turns : ask[n].pc # "none" => n \in Begun /\ turn[n].item = "request"
    /\ \A n \in Turns : ask[n].pc # "done" => shown[n] \notin Granted
    /\ \A n \in Turns : ask[n].pc = "writing" =>
          /\ ask[n].show # None => ask[n].reply = ask[n].show
          /\ ask[n].reply \in {"once", "session"} => ApprovalStrategy # "decline"

Inv ==
    /\ TypeOK
    /\ \A c \in Calls : CallOK(c)
    /\ TablesHoldWaiters
    /\ InboxOK /\ TurnsOK /\ LinesOK /\ EndsOK
    /\ RequestsOnce /\ AskOK /\ ShownIsAnswered

-----------------------------------------------------------------------------
(* The pipe. *)

(* Reading takes the first line off. *)
LEMMA TailElems ==
    ASSUME NEW T, NEW s \in Seq(T), s # << >>
    PROVE  /\ Head(s) \in T /\ Tail(s) \in Seq(T) /\ Head(s) \in Elems(s)
           /\ Elems(s) = Elems(Tail(s)) \cup {Head(s)}
           /\ Len(Tail(s)) = Len(s) - 1 /\ Len(s) \in Nat \ {0}
           /\ \A i \in 1..Len(Tail(s)) : Tail(s)[i] = s[i + 1]
<1>1. Len(s) \in Nat \ {0} /\ Head(s) = s[1] /\ Head(s) \in T /\ Tail(s) \in Seq(T)
    OBVIOUS
<1>2. Len(Tail(s)) = Len(s) - 1 /\ \A i \in 1..Len(Tail(s)) : Tail(s)[i] = s[i + 1]
    BY <1>1
<1>3. Head(s) \in Elems(s)
    BY <1>1 DEF Elems
<1>4. ASSUME NEW i \in 1..Len(s) PROVE s[i] \in Elems(Tail(s)) \cup {Head(s)}
    <2>1. CASE i = 1
        BY <1>1, <2>1
    <2>2. CASE i # 1
        <3>1. i - 1 \in 1..Len(Tail(s)) /\ Tail(s)[i - 1] = s[i]
            BY <1>1, <1>2, <2>2
        <3> QED BY <3>1 DEF Elems
    <2> QED BY <2>1, <2>2
<1>5. ASSUME NEW i \in 1..Len(Tail(s)) PROVE Tail(s)[i] \in Elems(s)
    <2>1. i + 1 \in 1..Len(s) /\ Tail(s)[i] = s[i + 1]
        BY <1>1, <1>2
    <2> QED BY <2>1 DEF Elems
<1>6. Elems(s) \subseteq Elems(Tail(s)) \cup {Head(s)}
    BY <1>4 DEF Elems
<1>7. Elems(Tail(s)) \subseteq Elems(s)
    BY <1>5 DEF Elems
<1> QED BY <1>1, <1>2, <1>3, <1>6, <1>7

(* Writing appends one. *)
LEMMA AppendElems ==
    ASSUME NEW T, NEW s \in Seq(T), NEW x \in T
    PROVE  /\ Append(s, x) \in Seq(T)
           /\ Elems(Append(s, x)) = Elems(s) \cup {x}
           /\ Len(Append(s, x)) = Len(s) + 1 /\ Len(s) \in Nat
           /\ Append(s, x)[Len(s) + 1] = x
           /\ \A i \in 1..Len(s) : Append(s, x)[i] = s[i]
<1>1. /\ Append(s, x) \in Seq(T) /\ Len(s) \in Nat
      /\ Len(Append(s, x)) = Len(s) + 1 /\ Append(s, x)[Len(s) + 1] = x
      /\ \A i \in 1..Len(s) : Append(s, x)[i] = s[i]
    OBVIOUS
<1>2. ASSUME NEW i \in 1..Len(Append(s, x)) PROVE Append(s, x)[i] \in Elems(s) \cup {x}
    <2>1. i \in 1..Len(s) \/ i = Len(s) + 1
        BY <1>1
    <2> QED BY <1>1, <2>1 DEF Elems
<1>3. \A i \in 1..Len(s) : i \in 1..Len(Append(s, x))
    BY <1>1
<1>4. Len(s) + 1 \in 1..Len(Append(s, x))
    BY <1>1
<1>5. Elems(s) \cup {x} \subseteq Elems(Append(s, x))
    BY <1>1, <1>3, <1>4 DEF Elems
<1>6. Elems(Append(s, x)) \subseteq Elems(s) \cup {x}
    BY <1>2 DEF Elems
<1> QED BY <1>1, <1>5, <1>6

(* Two lines written at once. *)
LEMMA ConcatAppend ==
    ASSUME NEW T, NEW s \in Seq(T), NEW x \in T, NEW y \in T
    PROVE  s \o <<x>> = Append(s, x) /\ s \o <<x, y>> = Append(Append(s, x), y)
<1>1. s \o <<x>> = Append(s, x)
    OBVIOUS
<1>2. s \o <<x, y>> = Append(Append(s, x), y)
    OBVIOUS
<1> QED BY <1>1, <1>2

(* Two lines that are no requests keep the requests apart. *)
LEMMA TwoWritten ==
    ASSUME TypeOK, RequestsOnce, NEW x \in LineRecord, NEW y \in LineRecord,
           x.kind # "request", y.kind # "request", stdout' = Append(Append(stdout, x), y)
    PROVE  RequestsOnce' /\ stdout' \in Seq(LineRecord) /\ Lines' = Lines \cup {x, y}
<1> DEFINE s == Append(stdout, x)
<1>1. /\ s \in Seq(LineRecord) /\ Elems(s) = Elems(stdout) \cup {x}
      /\ Len(s) = Len(stdout) + 1 /\ Len(stdout) \in Nat /\ s[Len(stdout) + 1] = x
      /\ \A i \in 1..Len(stdout) : s[i] = stdout[i]
    BY AppendElems DEF TypeOK
<1> HIDE DEF s
<1>2. stdout' = Append(s, y)
    BY DEF s
<1>3. /\ stdout' \in Seq(LineRecord) /\ Elems(stdout') = Elems(s) \cup {y}
      /\ Len(stdout') = Len(s) + 1 /\ stdout'[Len(s) + 1] = y
      /\ \A i \in 1..Len(s) : stdout'[i] = s[i]
    BY <1>1, <1>2, AppendElems
<1>4. ASSUME NEW i \in 1..Len(stdout'), stdout'[i].kind = "request"
      PROVE  i \in 1..Len(stdout) /\ stdout'[i] = stdout[i]
    BY <1>1, <1>3, <1>4
<1>5. RequestsOnce'
    BY <1>4 DEF RequestsOnce
<1> QED BY <1>1, <1>3, <1>5 DEF Lines

-----------------------------------------------------------------------------
(* What no step takes back: the operation of a call, the prompt a turn      *)
(* belongs to, the way it ended and the item it had.                        *)
Grows ==
    /\ calls' \in Nat /\ calls <= calls'
    /\ \A c \in 1..calls : call'[c].op = call[c].op
    /\ turns' \in Nat /\ turns <= turns'
    /\ \A n \in Begun :
          /\ turn'[n].by = turn[n].by
          /\ turn[n].end # None => turn'[n].end = turn[n].end
          /\ turn[n].item # None => turn'[n].item = turn[n].item

(* A call that a step does not touch stays well formed. *)
LEMMA CallKept ==
    ASSUME TypeOK, Grows, NEW c \in Calls, CallOK(c), call'[c] = call[c]
    PROVE  CallOK(c)'
<1>1. calls \in Nat /\ turns \in Nat /\ c \in Nat
    BY CodexBounds DEF TypeOK, Calls
<1>2. \A n \in Begun : n \in Begun'
    BY <1>1 DEF Begun, Grows
<1>3. c > calls' => c > calls
    BY <1>1 DEF Grows
<1> QED BY <1>2, <1>3 DEF CallOK, Grows, StatusOf

(* So does a line. *)
LEMMA LineKept ==
    ASSUME TypeOK, Grows, NEW line, LineOK(line)
    PROVE  LineOK(line)'
<1>1. calls \in Nat /\ turns \in Nat
    BY CodexBounds DEF TypeOK
<1>2. \A n \in Begun : n \in Begun'
    BY <1>1 DEF Begun, Grows
<1>3. \A c \in 1..calls : c \in 1..calls'
    BY <1>1 DEF Grows
<1>4. line.kind = "request" => turn[line.turn].item # None
    BY CodexNone DEF LineOK
<1> QED BY <1>2, <1>3, <1>4 DEF LineOK, Grows, StatusOf

(* The pipe stays well formed when the lines added to it are. *)
LEMMA LinesGrow ==
    ASSUME TypeOK, Grows, LinesOK, \A line \in Lines' : line \in Lines \/ LineOK(line)'
    PROVE  LinesOK'
<1>1. ASSUME NEW line \in Lines' PROVE LineOK(line)'
    BY LineKept DEF LinesOK
<1> QED BY <1>1 DEF LinesOK

(* Requests that are taken, or die with the process, leave the rest.        *)
LEMMA InboxKept ==
    ASSUME Inv, Grows, turns' = turns, inbox' \subseteq inbox
    PROVE  InboxOK'
<1>1. \A r \in inbox : r.id \in 1..calls' /\ r.op = call'[r.id].op
    BY CodexBounds DEF Inv, InboxOK, Grows, TypeOK
<1>2. Begun' = Begun
    BY DEF Begun
<1> QED BY <1>1, <1>2 DEF Inv, InboxOK, Grows

(* The turns stay those of their prompts when a step begins none. *)
LEMMA TurnsKept ==
    ASSUME Inv, Grows, turns' = turns,
           \A n \in Turns : n \notin Begun => turn'[n] = turn[n],
           \A n \in Begun : turn'[n].thread = turn[n].thread,
           \A th \in Threads : active'[th] # None => active'[th] \in Begun,
           \A n \in Turns : completed'[n] # None =>
              \/ completed'[n] = completed[n]
              \/ turn'[n].end # None /\ completed'[n] = prompt_result(turn'[n].end)
    PROVE  TurnsOK'
<1>1. Begun' = Begun /\ \A n \in Begun : n \in Turns
    BY CodexBounds DEF Begun, Turns, Inv, TypeOK
<1>2. \A c \in 1..calls : c \in 1..calls' /\ call'[c].op = call[c].op
    BY CodexBounds DEF Grows, Inv, TypeOK
<1>3. \A n \in Begun : turn'[n].by \in 1..calls' /\ call'[turn'[n].by].op = "prompt"
    BY <1>2 DEF Inv, TurnsOK, Grows
<1>4. \A m, n \in Begun : turn'[m].by = turn'[n].by => m = n
    BY DEF Inv, TurnsOK, Grows
<1>5. ASSUME NEW n \in Turns, completed'[n] # None
      PROVE  turn'[n].end # None /\ completed'[n] = prompt_result(turn'[n].end)
    <2>1. CASE completed'[n] = completed[n]
        <3>1. turn[n].end # None /\ completed[n] = prompt_result(turn[n].end)
            BY <1>5, <2>1 DEF Inv, TurnsOK
        <3>2. turn'[n].end = turn[n].end
            BY <3>1 DEF Grows
        <3> QED BY <2>1, <3>1, <3>2
    <2> QED BY <1>5, <2>1
<1>6. \A n \in Turns : n \notin Begun' => turn'[n] = NoTurn
    BY <1>1 DEF Inv, TurnsOK
<1>7. \A n \in Begun' : turn'[n].thread \in Threads
    BY <1>1 DEF Inv, TurnsOK
<1>8. \A th \in Threads : active'[th] # None => active'[th] \in Begun'
    BY <1>1
<1> QED BY <1>1, <1>3, <1>4, <1>5, <1>6, <1>7, <1>8 DEF TurnsOK

(* An end stays known while its lines stay in the pipe. *)
LEMMA EndsKept ==
    ASSUME Inv, Grows, turns' = turns,
           \A n \in Begun : turn'[n].end # None => turn[n].end # None \/ EndKnown(n)',
           \A line \in Lines : line.kind = "ended" => line \in Lines',
           \A c \in Calls : \/ call'[c].pc = call[c].pc
                            \/ call'[c].pc \in {"done", "dropped"}
                            \/ call[c].pc = "sent" /\ call'[c].pc = "answered",
           \A n \in Begun : completed'[n] = completed[n]
                \/ call'[turn[n].by].pc \in {"done", "dropped"}
    PROVE  EndsOK'
<1>1. Begun' = Begun
    BY DEF Begun
<1>2. SUFFICES ASSUME NEW n \in Begun, turn'[n].end # None,
                      call'[turn'[n].by].pc \in {"sent", "answered", "waiting"}
               PROVE  EndKnown(n)' \/ (completed'[n] # None /\ call'[turn'[n].by].pc # "waiting")
    BY <1>1 DEF EndsOK
<1>3. turn'[n].by = turn[n].by /\ turn[n].by \in Calls
    BY CodexBounds DEF Grows, Inv, TurnsOK, TypeOK, Calls
<1>4. CASE turn[n].end # None
    <2>1. EndKnown(n) => EndKnown(n)'
        BY DEF EndKnown
    <2>2. call[turn[n].by].pc \in {"sent", "answered", "waiting"}
        BY <1>2, <1>3
    <2>3. EndKnown(n) \/ (completed[n] # None /\ call[turn[n].by].pc # "waiting")
        BY <1>4, <2>2 DEF Inv, EndsOK
    <2> QED BY <1>2, <1>3, <2>1, <2>3
<1>5. CASE turn[n].end = None
    BY <1>2, <1>5
<1> QED BY <1>4, <1>5

(* Nothing is asked and nothing is shown by a step that reads or writes no  *)
(* request.                                                                 *)
LEMMA AskKept ==
    ASSUME Inv, Grows, UNCHANGED ask,
           \A n \in Turns : shown'[n] = shown[n] \/ shown'[n] \notin Granted,
           \A line \in Lines' : line.kind = "request" => line \in Lines
    PROVE  AskOK'
<1>1. \A n \in Begun : n \in Begun'
    BY CodexBounds DEF Begun, Grows, Inv, TypeOK
<1>2. \A n \in Turns : ask[n].pc # "none" => n \in Begun' /\ turn'[n].item = "request"
    BY <1>1, CodexNone DEF Inv, AskOK, Grows
<1> QED BY <1>2 DEF Inv, AskOK

(* What was shown stays what was answered when no reply changes. *)
LEMMA ShownKept ==
    ASSUME Inv, \A n \in Turns : shown'[n] = shown[n] \/ shown'[n] \notin Granted,
           \A n \in Turns : turn'[n].reply = turn[n].reply
    PROVE  ShownIsAnswered'
BY DEF Inv, ShownIsAnswered, Granted

(* Reading keeps requests apart, and so does writing a line that is none,   *)
(* or the first one of its turn.                                            *)
LEMMA OnceRead ==
    ASSUME Inv, stdout # << >>, stdout' = Tail(stdout)
    PROVE  /\ RequestsOnce' /\ stdout' \in Seq(LineRecord) /\ Head(stdout) \in LineRecord
           /\ Lines = Lines' \cup {Head(stdout)} /\ Head(stdout) \in Lines
           /\ Head(stdout).kind = "request" =>
                 \A line \in Lines' : line.kind = "request" => line.turn # Head(stdout).turn
<1>1. stdout \in Seq(LineRecord)
    BY DEF Inv, TypeOK
<1>2. /\ Head(stdout) \in LineRecord /\ Tail(stdout) \in Seq(LineRecord)
      /\ Head(stdout) \in Elems(stdout) /\ Elems(stdout) = Elems(Tail(stdout)) \cup {Head(stdout)}
      /\ Len(Tail(stdout)) = Len(stdout) - 1 /\ Len(stdout) \in Nat \ {0}
      /\ \A i \in 1..Len(Tail(stdout)) : Tail(stdout)[i] = stdout[i + 1]
    BY <1>1, TailElems
<1>3. \A i \in 1..Len(stdout') : i + 1 \in 1..Len(stdout) /\ stdout'[i] = stdout[i + 1]
    BY <1>2
<1>4. RequestsOnce'
    <2>1. SUFFICES ASSUME NEW i \in 1..Len(stdout'), NEW j \in 1..Len(stdout'),
                          stdout'[i].kind = "request", stdout'[j].kind = "request",
                          stdout'[i].turn = stdout'[j].turn
                   PROVE  i = j
        BY DEF RequestsOnce
    <2>2. i + 1 = j + 1
        BY <1>3, <2>1 DEF Inv, RequestsOnce
    <2> QED BY <2>2
<1>5. ASSUME Head(stdout).kind = "request", NEW line \in Lines', line.kind = "request"
      PROVE  line.turn # Head(stdout).turn
    <2>1. PICK i \in 1..Len(stdout') : line = stdout'[i]
        BY DEF Lines, Elems
    <2>2. i + 1 \in 1..Len(stdout) /\ line = stdout[i + 1] /\ i + 1 # 1
        BY <1>3, <2>1
    <2>3. 1 \in 1..Len(stdout) /\ Head(stdout) = stdout[1]
        BY <1>1, <1>2
    <2> QED BY <1>5, <2>2, <2>3 DEF Inv, RequestsOnce
<1> QED BY <1>2, <1>4, <1>5 DEF Lines

(* The same for a line that is written. *)
LEMMA OnceWritten ==
    ASSUME TypeOK, RequestsOnce, NEW line \in LineRecord, stdout' = Append(stdout, line),
           line.kind = "request" =>
              \A l \in Lines : l.kind = "request" => l.turn # line.turn
    PROVE  RequestsOnce' /\ stdout' \in Seq(LineRecord) /\ Lines' = Lines \cup {line}
<1>1. stdout \in Seq(LineRecord)
    BY DEF TypeOK
<1>2. /\ stdout' \in Seq(LineRecord) /\ Elems(stdout') = Elems(stdout) \cup {line}
      /\ Len(stdout') = Len(stdout) + 1 /\ Len(stdout) \in Nat /\ stdout'[Len(stdout) + 1] = line
      /\ \A i \in 1..Len(stdout) : stdout'[i] = stdout[i]
    BY <1>1, AppendElems
<1>3. \A i \in 1..Len(stdout') : i \in 1..Len(stdout) \/ i = Len(stdout) + 1
    BY <1>2
<1>4. \A i \in 1..Len(stdout) : stdout[i] \in Lines
    BY DEF Lines, Elems
<1>5. RequestsOnce'
    BY <1>2, <1>3, <1>4 DEF RequestsOnce
<1> QED BY <1>2, <1>5 DEF Lines

-----------------------------------------------------------------------------
(* Nothing has been called. *)
LEMMA InitInv == Init => Inv
<1> SUFFICES ASSUME Init PROVE Inv
    OBVIOUS
<1>0. Calls \subseteq Nat /\ Turns \subseteq Nat
    BY CodexBounds DEF Calls, Turns
<1>1. NoCall \in CallRecord /\ NoTurn \in TurnRecord /\ NoAsk \in AskRecord
    BY DEF NoCall, NoTurn, NoAsk, CallRecord, TurnRecord, AskRecord, Outs
<1>2. TypeOK
    <2>1. /\ call \in [Calls -> CallRecord] /\ turn \in [Turns -> TurnRecord]
          /\ ask \in [Turns -> AskRecord]
        BY <1>1 DEF Init
    <2>2. calls \in 0..MaxCalls /\ turns \in 0..MaxTurns
        BY CodexBounds DEF Init
    <2>3. stdout \in Seq(LineRecord)
        BY DEF Init
    <2>4. kill \in BOOLEAN /\ health \in BOOLEAN
        BY DEF Init
    <2> QED BY <2>1, <2>2, <2>3, <2>4 DEF Init, TypeOK
<1>3. \A c \in Calls : call[c] = NoCall
    BY DEF Init
<1>4. \A n \in Turns : turn[n] = NoTurn /\ ask[n] = NoAsk /\ completed[n] = None /\ shown[n] = None
    BY DEF Init
<1>5. Lines = {} /\ Begun = {} /\ Len(stdout) = 0 /\ turns = 0
    BY DEF Init, Lines, Elems, Begun
<1>6. \A c \in Calls : CallOK(c)
    BY <1>3 DEF CallOK, NoCall
<1>7. TablesHoldWaiters
    BY <1>3 DEF Init, TablesHoldWaiters, NoCall
<1>8. InboxOK /\ LinesOK /\ EndsOK /\ RequestsOnce
    BY <1>5 DEF Init, InboxOK, LinesOK, EndsOK, RequestsOnce
<1>9. TurnsOK
    BY <1>4, <1>5 DEF Init, TurnsOK
<1>10. AskOK /\ ShownIsAnswered
    BY <1>4, <1>5, CodexNone DEF AskOK, ShownIsAnswered, NoAsk, NoTurn, Granted
<1> QED BY <1>2, <1>6, <1>7, <1>8, <1>9, <1>10 DEF Inv

(* The process, its monitor and the shutdown hold no result. *)
LEMMA IdleInv ==
    ASSUME Inv, TypeOK', inbox' \subseteq inbox,
           UNCHANGED <<call, calls, tables, stdout, server, ask, shown>>
    PROVE  Inv'
<1>1. Grows
    BY CodexBounds DEF Grows, Inv, TypeOK, server
<1>2. Lines' = Lines /\ turns' = turns /\ Begun' = Begun
    BY DEF Lines, server, Begun
<1>3. \A c \in Calls : CallOK(c)'
    BY <1>1, CallKept DEF Inv
<1>4. TablesHoldWaiters' /\ RequestsOnce'
    BY DEF Inv, TablesHoldWaiters, RequestsOnce, tables
<1>5. InboxOK'
    BY <1>1, <1>2, InboxKept
<1>6. TurnsOK'
    BY <1>1, <1>2, TurnsKept DEF tables, server, Inv, TurnsOK
<1>7. LinesOK'
    BY <1>1, <1>2, LinesGrow DEF Inv
<1>8. EndsOK'
    BY <1>1, <1>2, EndsKept DEF tables, server
<1>9. AskOK' /\ ShownIsAnswered'
    BY <1>1, <1>2, AskKept, ShownKept DEF server
<1> QED BY <1>3, <1>4, <1>5, <1>6, <1>7, <1>8, <1>9 DEF Inv

(* A step that only ends calls by losing them: what Drain does. *)
LEMMA DrainInv ==
    ASSUME Inv, Drain, UNCHANGED <<proc, opened, calls, inbox, stdout, server, ask, shown>>,
           reader' \in {"reading", "closed"}, monitor' \in {"watching", "done"},
           kill' = kill, shutdown' = shutdown, health' = FALSE
    PROVE  Inv'
<1> DEFINE lost == pending \cup {c \in Calls : call[c].pc = "waiting" /\ call[c].turn \in waiters}
<1>1. /\ pending' = {} /\ waiters' = {} /\ UNCHANGED <<active, completed>>
      /\ call' = [c \in Calls |-> IF c \in lost
                                  THEN [call[c] EXCEPT !.pc = "done", !.out = "lost"]
                                  ELSE call[c]]
    BY DEF Drain
<1>2. \A c \in Calls : call[c] \in CallRecord
    BY DEF Inv, TypeOK
<1>3. \A c \in Calls : c \in lost <=> call[c].pc \in {"sent", "waiting"}
    BY DEF Inv, TablesHoldWaiters
<1>4. ASSUME NEW c \in Calls
      PROVE  /\ call'[c] \in CallRecord /\ call'[c].op = call[c].op
             /\ call'[c].thread = call[c].thread
             /\ c \notin lost => call'[c] = call[c]
             /\ c \in lost => call'[c].pc = "done" /\ call'[c].out = "lost"
    BY <1>1, <1>2 DEF CallRecord, Outs
<1> HIDE DEF lost
<1>5. TypeOK'
    BY <1>1, <1>4 DEF Inv, TypeOK, server
<1>6. \A c \in 1..calls : c \in Calls
    BY CodexBounds DEF Inv, TypeOK, Calls
<1>7. Grows
    BY <1>4, <1>6, CodexBounds DEF Grows, Inv, TypeOK, server
<1>8. Lines' = Lines /\ turns' = turns
    BY DEF Lines, server
<1>9. ASSUME NEW c \in Calls PROVE CallOK(c)'
    <2>1. CASE c \notin lost
        BY <1>4, <1>7, <2>1, CallKept DEF Inv
    <2>2. CASE c \in lost
        <3>1. ~(c > calls)
            BY <1>3, <2>2 DEF Inv, CallOK, NoCall
        <3> QED BY <1>4, <2>2, <3>1 DEF CallOK, Inv
    <2> QED BY <2>1, <2>2
<1>10. TablesHoldWaiters'
    <2>1. \A c \in Calls : call'[c].pc \notin {"sent", "waiting"}
        BY <1>3, <1>4
    <2> QED BY <1>1, <2>1 DEF TablesHoldWaiters
<1>11. InboxOK'
    BY <1>7, <1>8, InboxKept
<1>12. TurnsOK'
    BY <1>1, <1>7, <1>8, TurnsKept DEF server, Inv, TurnsOK
<1>13. LinesOK' /\ RequestsOnce'
    BY <1>7, <1>8, LinesGrow DEF Inv, RequestsOnce
<1>14. EndsOK'
    <2>1. \A c \in Calls : call'[c].pc = call[c].pc \/ call'[c].pc \in {"done", "dropped"}
        BY <1>4
    <2> QED BY <1>1, <1>7, <1>8, <2>1, EndsKept DEF server
<1>15. AskOK' /\ ShownIsAnswered'
    BY <1>7, <1>8, AskKept, ShownKept DEF server
<1> QED BY <1>5, <1>9, <1>10, <1>11, <1>12, <1>13, <1>14, <1>15 DEF Inv

-----------------------------------------------------------------------------
(* Calls. *)

(* A call that is made is registered and sent, or it has already returned.  *)
LEMMA NewCallInv ==
    ASSUME Inv, NEW op \in {"start", "name", "prompt", "cancel"}, NEW th \in Threads,
           NEW n \in Begun \cup {None}, NEW pc \in {"sent", "done"},
           NEW out \in {None, "ok", "error"},
           op = "prompt" => n = None /\ (pc = "done" => out = "error"),
           op = "cancel" /\ pc = "sent" => n \in Begun,
           NewCall(op, th, n, pc, out), Quiet, UNCHANGED opened,
           IF pc = "sent"
           THEN /\ pending' = pending \cup {calls + 1}
                /\ inbox' = inbox \cup {[id |-> calls + 1, op |-> op, thread |-> th, turn |-> n]}
           ELSE UNCHANGED <<pending, inbox>>
    PROVE  Inv'
<1> DEFINE c == calls + 1
           new == [op |-> op, thread |-> th, pc |-> pc, turn |-> n, out |-> out]
           r == [id |-> c, op |-> op, thread |-> th, turn |-> n]
<1>1. calls \in Nat /\ calls < MaxCalls /\ c \in Calls /\ calls' = calls + 1
    BY CodexBounds DEF NewCall, Inv, TypeOK, Calls
<1>2. Begun \subseteq Turns
    BY CodexBounds DEF Inv, TypeOK, Begun, Turns
<1>3. call' = [call EXCEPT ![c] = new]
    BY DEF NewCall
<1>4. new \in CallRecord /\ r \in Request
    BY <1>1, <1>2 DEF CallRecord, Request, Outs
<1>5. call'[c] = new /\ \A d \in Calls : d # c => call'[d] = call[d]
    BY <1>1, <1>3 DEF Inv, TypeOK
<1>6. TypeOK'
    <2>1. call' \in [Calls -> CallRecord] /\ calls' \in 0..MaxCalls
        BY <1>1, <1>3, <1>4, CodexBounds DEF Inv, TypeOK
    <2>2. pending' \subseteq Calls /\ inbox' \subseteq Request
        BY <1>1, <1>4 DEF Inv, TypeOK
    <2> QED BY <2>1, <2>2 DEF Inv, TypeOK, Quiet, tasks, server
<1>7. Grows
    <2>1. \A d \in 1..calls : d \in Calls /\ d # c
        BY <1>1, CodexBounds DEF Calls
    <2> QED BY <1>1, <1>5, <2>1, CodexBounds DEF Grows, Quiet, server, Inv, TypeOK
<1>8. Lines' = Lines /\ turns' = turns /\ Begun' = Begun
    BY DEF Lines, Quiet, server, Begun
<1>9. call[c] = NoCall
    BY <1>1 DEF Inv, CallOK
<1>10. ASSUME NEW d \in Calls PROVE CallOK(d)'
    <2>1. CASE d # c
        BY <1>5, <1>7, <2>1, CallKept DEF Inv
    <2>2. CASE d = c
        <3>1. ~(d > calls')
            BY <1>1, <2>2
        <3> QED BY <1>5, <2>2, <3>1 DEF CallOK
    <2> QED BY <2>1, <2>2
<1>11. TablesHoldWaiters'
    <2>1. call[c].pc = "unused"
        BY <1>9 DEF NoCall
    <2>2. pending' = {d \in Calls : call'[d].pc = "sent"}
        BY <1>1, <1>5, <2>1 DEF Inv, TablesHoldWaiters
    <2>3. {d \in Calls : call'[d].pc = "waiting"} = {d \in Calls : call[d].pc = "waiting"}
        BY <1>1, <1>5, <2>1
    <2>4. \A d \in {e \in Calls : call[e].pc = "waiting"} : call'[d].turn = call[d].turn
        BY <1>5, <2>1
    <2>5. waiters' = {call'[d].turn : d \in {e \in Calls : call'[e].pc = "waiting"}}
        BY <2>3, <2>4 DEF Inv, TablesHoldWaiters, Quiet
    <2> QED BY <2>2, <2>5 DEF TablesHoldWaiters
<1>12. InboxOK'
    <2>1. \A q \in inbox : /\ q.id \in 1..calls /\ q.id \in 1..calls' /\ q.id \in Calls
                           /\ q.id # c /\ q.op = call'[q.id].op
        BY <1>1, <1>5, CodexBounds DEF Inv, InboxOK, Calls
    <2>2. \A m \in Begun : turn[m].by # c
        BY <1>1 DEF Inv, TurnsOK
    <2>3. inbox' \subseteq inbox \cup {r} /\ (pc # "sent" => inbox' = inbox)
        OBVIOUS
    <2>4. r.id = c /\ r.op = op /\ r.turn = n /\ c \in 1..calls'
        BY <1>1
    <2>5. turn' = turn
        BY DEF Quiet, server
    <2>6. ASSUME NEW q \in inbox'
          PROVE  /\ q.id \in 1..calls' /\ q.op = call'[q.id].op
                 /\ q.op = "cancel" => q.turn \in Begun
                 /\ \A m \in Begun : turn[m].by # q.id
        <3>1. CASE q \in inbox
            BY <2>1, <3>1 DEF Inv, InboxOK
        <3>2. CASE q = r /\ pc = "sent"
            BY <1>5, <2>2, <2>4, <3>2
        <3> QED BY <2>3, <3>1, <3>2
    <2>7. \A q, p \in inbox' : q.id = p.id => q = p
        BY <2>1, <2>3, <2>4 DEF Inv, InboxOK
    <2> QED BY <1>8, <2>5, <2>6, <2>7 DEF InboxOK
<1>13. TurnsOK'
    BY <1>7, <1>8, TurnsKept DEF Quiet, server, Inv, TurnsOK
<1>14. LinesOK' /\ RequestsOnce'
    BY <1>7, <1>8, LinesGrow DEF Inv, RequestsOnce, Quiet
<1>15. EndsOK'
    <2>1. \A m \in Begun : turn[m].by # c /\ turn[m].by \in Calls
        BY <1>1, CodexBounds DEF Inv, TurnsOK, Calls
    <2>2. \A m \in Begun : call'[turn[m].by] = call[turn[m].by]
        BY <1>5, <2>1
    <2> QED BY <1>8, <2>2 DEF EndsOK, EndKnown, Inv, Quiet, server
<1>16. AskOK' /\ ShownIsAnswered'
    BY <1>7, <1>8, AskKept, ShownKept DEF Quiet, server
<1> QED BY <1>6, <1>10, <1>11, <1>12, <1>13, <1>14, <1>15, <1>16 DEF Inv

(* send_request, to a process that is there or gone. *)
LEMMA SendInv ==
    ASSUME Inv, NEW op \in {"start", "name", "prompt", "cancel"}, NEW th \in Threads,
           NEW n \in Begun \cup {None}, op = "prompt" => n = None, op = "cancel" => n \in Begun,
           send_request(op, th, n), Quiet, UNCHANGED opened
    PROVE  Inv'
<1>1. CASE proc = "gone"
    <2>1. NewCall(op, th, n, "done", "error") /\ UNCHANGED <<pending, inbox>>
        BY <1>1 DEF send_request
    <2> QED BY <2>1, NewCallInv
<1>2. CASE proc # "gone"
    <2>1. /\ NewCall(op, th, n, "sent", None)
          /\ pending' = pending \cup {calls + 1}
          /\ inbox' = inbox \cup {[id |-> calls + 1, op |-> op, thread |-> th, turn |-> n]}
        BY <1>2 DEF send_request
    <2> QED BY <2>1, NewCallInv
<1> QED BY <1>1, <1>2

(* A change to one call that was under way, as DropName and PromptAnswered  *)
(* make it: the server, the pipe and the inbox are left alone.              *)
OneCall(c, new) ==
    /\ call' = [call EXCEPT ![c] = new]
    /\ new.op = call[c].op
    /\ UNCHANGED <<proc, tasks, opened, calls, inbox, stdout, server, ask, shown>>

(* Such a change takes nothing back. *)
LEMMA OneCallGrows ==
    ASSUME Inv, NEW c \in Calls, NEW new \in CallRecord, OneCall(c, new)
    PROVE  /\ Grows /\ call'[c] = new /\ \A d \in Calls : d # c => call'[d] = call[d]
           /\ call' \in [Calls -> CallRecord] /\ Lines' = Lines /\ turns' = turns /\ Begun' = Begun
<1>1. call'[c] = new /\ \A d \in Calls : d # c => call'[d] = call[d]
    BY DEF Inv, TypeOK, OneCall
<1>2. call' \in [Calls -> CallRecord]
    BY DEF Inv, TypeOK, OneCall
<1>3. Lines' = Lines /\ turns' = turns /\ Begun' = Begun
    BY DEF Lines, server, Begun, OneCall
<1>4. \A d \in 1..calls : d \in Calls
    BY CodexBounds DEF Inv, TypeOK, Calls
<1>5. Grows
    BY <1>1, <1>4, CodexBounds DEF Grows, server, Inv, TypeOK, OneCall
<1> QED BY <1>1, <1>2, <1>3, <1>5

(* It keeps the invariant when the call, the tables and the ends do. *)
LEMMA OneCallInv ==
    ASSUME Inv, NEW c \in Calls, NEW new \in CallRecord, OneCall(c, new),
           CallOK(c)', TablesHoldWaiters', EndsOK',
           pending' \subseteq Calls, waiters' \subseteq Turns,
           active' \in [Threads -> Turns \cup {None}],
           \A t \in Threads : active'[t] # None => active'[t] \in Begun,
           completed' \in [Turns -> {None, "EndTurn", "Cancelled", "error"}],
           \A n \in Turns : completed'[n] # None => completed'[n] = completed[n]
    PROVE  Inv'
<1>1. /\ Grows /\ call'[c] = new /\ \A d \in Calls : d # c => call'[d] = call[d]
      /\ call' \in [Calls -> CallRecord] /\ Lines' = Lines /\ turns' = turns
    BY OneCallGrows
<1>2. UNCHANGED <<proc, tasks, opened, calls, inbox, stdout, server, ask, shown>>
    BY DEF OneCall
<1>3. TypeOK'
    BY <1>1, <1>2 DEF Inv, TypeOK, tasks, server
<1>4. \A d \in Calls : CallOK(d)'
    BY <1>1, CallKept DEF Inv
<1>5. InboxOK'
    BY <1>1, <1>2, InboxKept
<1>6. TurnsOK'
    BY <1>1, <1>2, TurnsKept DEF server
<1>7. LinesOK' /\ RequestsOnce'
    BY <1>1, <1>2, LinesGrow DEF Inv, RequestsOnce
<1>8. AskOK' /\ ShownIsAnswered'
    BY <1>1, <1>2, AskKept, ShownKept DEF server
<1> QED BY <1>3, <1>4, <1>5, <1>6, <1>7, <1>8 DEF Inv

(* The dropped set_session_name takes its entry with it. *)
LEMMA DropNameInv ==
    ASSUME Inv, NEW c \in Calls, DropName(c)
    PROVE  Inv'
<1> DEFINE new == [call[c] EXCEPT !.pc = "dropped"]
<1>1. /\ call[c].op = "name" /\ call[c].pc = "sent" /\ call[c] \in CallRecord
      /\ pending' = pending \ {c} /\ UNCHANGED <<active, waiters, completed>>
    BY DEF DropName, Inv, TypeOK
<1>2. /\ new \in CallRecord /\ new.op = "name" /\ new.pc = "dropped"
      /\ new.thread = call[c].thread
    BY <1>1 DEF CallRecord
<1>3. OneCall(c, new)
    BY <1>1, <1>2 DEF DropName, OneCall
<1> HIDE DEF new
<1>4. /\ Grows /\ call'[c] = new /\ \A d \in Calls : d # c => call'[d] = call[d]
      /\ Lines' = Lines /\ turns' = turns
    BY <1>2, <1>3, OneCallGrows
<1>5. CallOK(c)'
    <2>1. ~(c > calls) /\ calls' = calls
        BY <1>1, <1>3 DEF Inv, CallOK, NoCall, OneCall
    <2> QED BY <1>1, <1>2, <1>4, <2>1 DEF CallOK, Inv
<1>6. TablesHoldWaiters'
    <2>1. pending' = {d \in Calls : call'[d].pc = "sent"}
        BY <1>1, <1>2, <1>4 DEF Inv, TablesHoldWaiters
    <2>2. {d \in Calls : call'[d].pc = "waiting"} = {d \in Calls : call[d].pc = "waiting"}
        BY <1>1, <1>2, <1>4
    <2>3. \A d \in {e \in Calls : call[e].pc = "waiting"} : call'[d].turn = call[d].turn
        BY <1>1, <1>4
    <2> QED BY <1>1, <2>1, <2>2, <2>3 DEF Inv, TablesHoldWaiters
<1>7. EndsOK'
    <2>1. \A d \in Calls : call'[d].pc = call[d].pc \/ call'[d].pc \in {"done", "dropped"}
        BY <1>2, <1>4
    <2> QED BY <1>1, <1>3, <1>4, <2>1, EndsKept DEF OneCall, server
<1> QED BY <1>1, <1>2, <1>3, <1>5, <1>6, <1>7, OneCallInv DEF Inv, TypeOK, TurnsOK

(* A prompt goes on with its turn: it takes the result that was kept for    *)
(* it, returns the status it was answered with, or registers.               *)
LEMMA PromptAnsweredInv ==
    ASSUME Inv, NEW c \in Calls, PromptAnswered(c)
    PROVE  Inv'
<1> DEFINE n == call[c].turn
<1>1. call[c].pc = "answered" /\ call[c] \in CallRecord
    BY DEF PromptAnswered, Inv, TypeOK
<1>2. /\ call[c].op = "prompt" /\ n \in Begun /\ n \in Turns /\ turn[n].by = c
      /\ StatusOf(n, call[c].out) /\ ~(c > calls) /\ n # None
    BY <1>1, CodexBounds, CodexNone DEF Inv, CallOK, NoCall, Begun, Turns, TypeOK
<1>3. UNCHANGED <<proc, tasks, opened, calls, inbox, stdout, server, ask, shown, pending>>
    BY DEF PromptAnswered, tables
<1>4. \A m \in Begun : turn[m].by \in Calls /\ (m # n => turn[m].by # c)
    BY <1>2, CodexBounds DEF Inv, TurnsOK, TypeOK, Calls
<1>5. c \notin pending
    BY <1>1 DEF Inv, TablesHoldWaiters
<1>6. ASSUME NEW result \in {"EndTurn", "Cancelled", "error"},
             result = prompt_result(turn[n].end), turn[n].end # None,
             call' = [call EXCEPT ![c].pc = "done", ![c].out = result],
             completed' = completed \/ completed' = [completed EXCEPT ![n] = None],
             UNCHANGED <<active, waiters>>
      PROVE  Inv'
    <2> DEFINE new == [call[c] EXCEPT !.pc = "done", !.out = result]
    <2>1. /\ new \in CallRecord /\ new.op = "prompt" /\ new.pc = "done" /\ new.turn = n
          /\ new.out = result /\ new.thread = call[c].thread
        BY <1>1, <1>2 DEF CallRecord, Outs
    <2>2. OneCall(c, new)
        BY <1>2, <1>3, <1>6, <2>1 DEF OneCall
    <2> HIDE DEF new
    <2>3. /\ Grows /\ call'[c] = new /\ \A d \in Calls : d # c => call'[d] = call[d]
          /\ Lines' = Lines /\ turns' = turns /\ Begun' = Begun
        BY <2>1, <2>2, OneCallGrows
    <2>4. CallOK(c)'
        BY <1>2, <1>3, <1>6, <2>1, <2>3 DEF CallOK, server, Inv
    <2>5. TablesHoldWaiters'
        <3>1. pending' = {d \in Calls : call'[d].pc = "sent"}
            BY <1>1, <1>3, <2>1, <2>3 DEF Inv, TablesHoldWaiters
        <3>2. {d \in Calls : call'[d].pc = "waiting"} = {d \in Calls : call[d].pc = "waiting"}
            BY <1>1, <2>1, <2>3
        <3>3. \A d \in {e \in Calls : call[e].pc = "waiting"} : call'[d].turn = call[d].turn
            BY <1>1, <2>3
        <3>4. waiters = {call[d].turn : d \in {e \in Calls : call[e].pc = "waiting"}}
            BY DEF Inv, TablesHoldWaiters
        <3>5. {call'[d].turn : d \in {e \in Calls : call'[e].pc = "waiting"}} = {call[d].turn : d \in {e \in Calls : call[e].pc = "waiting"}}
            BY <3>2, <3>3
        <3> QED BY <1>6, <3>1, <3>4, <3>5 DEF TablesHoldWaiters
    <2>6. completed' \in [Turns -> {None, "EndTurn", "Cancelled", "error"}]
          /\ \A m \in Turns : /\ completed'[m] # None => completed'[m] = completed[m]
                              /\ m # n => completed'[m] = completed[m]
        BY <1>6 DEF Inv, TypeOK
    <2>7. EndsOK'
        <3>1. \A d \in Calls : call'[d].pc = call[d].pc \/ call'[d].pc \in {"done", "dropped"}
            BY <2>1, <2>3
        <3>2. \A m \in Begun : completed'[m] = completed[m] \/ call'[turn[m].by].pc = "done"
            BY <1>2, <2>1, <2>3, <2>6, CodexBounds DEF Begun, Turns, Inv, TypeOK
        <3> QED BY <1>3, <2>3, <3>1, <3>2, EndsKept DEF server
    <2> QED BY <1>3, <1>6, <2>1, <2>2, <2>4, <2>5, <2>6, <2>7, OneCallInv DEF Inv, TypeOK, TurnsOK
<1>7. CASE completed[n] # None
    <2>1. /\ completed' = [completed EXCEPT ![n] = None] /\ UNCHANGED <<active, waiters>>
          /\ call' = [call EXCEPT ![c].pc = "done", ![c].out = completed[n]]
        BY <1>7 DEF PromptAnswered
    <2>2. /\ completed[n] \in {"EndTurn", "Cancelled", "error"}
          /\ turn[n].end # None /\ completed[n] = prompt_result(turn[n].end)
        BY <1>2, <1>7 DEF Inv, TypeOK, TurnsOK
    <2> QED BY <1>6, <2>1, <2>2
<1>8. CASE completed[n] = None /\ call[c].out # "inProgress"
    <2>1. /\ call' = [call EXCEPT ![c].pc = "done", ![c].out = prompt_result(call[c].out)]
          /\ UNCHANGED <<active, waiters, completed>>
        BY <1>8 DEF PromptAnswered, tables
    <2>2. turn[n].end # None /\ call[c].out = turn[n].end
        BY <1>2, <1>8 DEF StatusOf
    <2>3. prompt_result(call[c].out) \in {"EndTurn", "Cancelled", "error"}
        BY DEF prompt_result
    <2> QED BY <1>6, <2>1, <2>2, <2>3
<1>9. CASE completed[n] = None /\ call[c].out = "inProgress"
    <2> DEFINE new == [call[c] EXCEPT !.pc = "waiting", !.out = None]
    <2>1. /\ call' = [call EXCEPT ![c].pc = "waiting", ![c].out = None]
          /\ waiters' = waiters \cup {n} /\ active' = [active EXCEPT ![call[c].thread] = n]
          /\ UNCHANGED completed
        BY <1>9 DEF PromptAnswered
    <2>2. /\ new \in CallRecord /\ new.op = "prompt" /\ new.pc = "waiting" /\ new.turn = n
          /\ new.thread = call[c].thread
        BY <1>1, <1>2 DEF CallRecord, Outs
    <2>3. OneCall(c, new)
        BY <1>2, <1>3, <2>1, <2>2 DEF OneCall
    <2> HIDE DEF new
    <2>4. /\ Grows /\ call'[c] = new /\ \A d \in Calls : d # c => call'[d] = call[d]
          /\ Lines' = Lines /\ turns' = turns /\ Begun' = Begun
        BY <2>2, <2>3, OneCallGrows
    <2>5. CallOK(c)'
        BY <1>2, <1>3, <2>2, <2>4 DEF CallOK, server, Inv
    <2>6. TablesHoldWaiters'
        <3>1. pending' = {d \in Calls : call'[d].pc = "sent"}
            BY <1>1, <1>3, <2>2, <2>4 DEF Inv, TablesHoldWaiters
        <3>2. {d \in Calls : call'[d].pc = "waiting"}
                = {d \in Calls : call[d].pc = "waiting"} \cup {c}
            BY <1>1, <2>2, <2>4
        <3>3. \A d \in {e \in Calls : call[e].pc = "waiting"} : call'[d].turn = call[d].turn
            BY <1>1, <2>4
        <3>4. call'[c].turn = n
            BY <2>2, <2>4
        <3>5. waiters = {call[d].turn : d \in {e \in Calls : call[e].pc = "waiting"}}
            BY DEF Inv, TablesHoldWaiters
        <3>6. {call'[d].turn : d \in {e \in Calls : call'[e].pc = "waiting"}}
                = {call[d].turn : d \in {e \in Calls : call[e].pc = "waiting"}} \cup {n}
            BY <3>2, <3>3, <3>4
        <3> QED BY <2>1, <3>1, <3>5, <3>6 DEF TablesHoldWaiters
    <2>7. EndsOK'
        <3>1. turn[n].end # None => EndKnown(n)
            BY <1>1, <1>2, <1>9 DEF Inv, EndsOK
        <3>2. \A m \in Begun : m # n => call'[turn[m].by] = call[turn[m].by]
            BY <1>4, <2>4
        <3>3. \A m : EndKnown(m) => EndKnown(m)'
            BY <2>4 DEF EndKnown
        <3> QED BY <1>3, <2>1, <2>4, <3>1, <3>2, <3>3 DEF EndsOK, Inv, server
    <2>8. /\ active' \in [Threads -> Turns \cup {None}]
          /\ \A t \in Threads : active'[t] # None => active'[t] \in Begun
        BY <1>2, <2>1 DEF Inv, TypeOK, TurnsOK
    <2>9. waiters' \subseteq Turns
        BY <1>2, <2>1 DEF Inv, TypeOK
    <2> QED BY <1>3, <2>1, <2>2, <2>3, <2>5, <2>6, <2>7, <2>8, <2>9, OneCallInv DEF Inv, TypeOK
<1> QED BY <1>7, <1>8, <1>9 DEF PromptAnswered

-----------------------------------------------------------------------------
(* The reader. *)

Reading ==
    /\ reader = "reading" /\ stdout # << >> /\ stdout' = Tail(stdout)
    /\ UNCHANGED <<proc, tasks, calls, inbox, server>>

(* Whatever the line says, the rest of the pipe, the inbox and the turns    *)
(* are what they were.                                                      *)
LEMMA ReadingKeeps ==
    ASSUME Inv, Reading, call' \in [Calls -> CallRecord],
           \A c \in Calls : call'[c].op = call[c].op
    PROVE  /\ Grows /\ turns' = turns /\ Begun' = Begun /\ turn' = turn
           /\ Lines = Lines' \cup {Head(stdout)}
           /\ stdout' \in Seq(LineRecord) /\ Head(stdout) \in LineRecord /\ LineOK(Head(stdout))
           /\ LinesOK' /\ RequestsOnce' /\ InboxOK'
<1>1. /\ RequestsOnce' /\ stdout' \in Seq(LineRecord) /\ Head(stdout) \in LineRecord
      /\ Lines = Lines' \cup {Head(stdout)} /\ Head(stdout) \in Lines
    BY OnceRead DEF Reading
<1>2. \A c \in 1..calls : c \in Calls
    BY CodexBounds DEF Inv, TypeOK, Calls
<1>3. Grows
    BY <1>2, CodexBounds DEF Grows, Reading, server, Inv, TypeOK
<1>4. turns' = turns /\ Begun' = Begun /\ turn' = turn
    BY DEF Reading, server, Begun
<1>5. LineOK(Head(stdout))
    BY <1>1 DEF Inv, LinesOK
<1>6. LinesOK'
    BY <1>1, <1>3, LinesGrow DEF Inv
<1>7. InboxOK'
    BY <1>3, <1>4, InboxKept DEF Reading
<1> QED BY <1>1, <1>3, <1>4, <1>5, <1>6, <1>7

(* A response wakes the call that waits for it, and no other. *)
LEMMA ReadAnswerInv ==
    ASSUME Inv, Reading, NEW line, line = Head(stdout), line.kind = "answer", Answered(line),
           UNCHANGED <<active, waiters, completed, ask, shown>>
    PROVE  Inv'
<1> DEFINE c == line.id
<1>1. CASE c \notin pending
    <2>1. UNCHANGED <<pending, call, opened>>
        BY <1>1 DEF Answered
    <2>2. call' \in [Calls -> CallRecord] /\ \A d \in Calls : call'[d].op = call[d].op
        BY <2>1 DEF Inv, TypeOK
    <2>3. /\ Grows /\ turns' = turns /\ Begun' = Begun /\ turn' = turn
          /\ Lines = Lines' \cup {line} /\ stdout' \in Seq(LineRecord)
          /\ LinesOK' /\ RequestsOnce' /\ InboxOK'
        BY <2>2, ReadingKeeps
    <2>4. TypeOK' /\ TablesHoldWaiters'
        BY <2>1, <2>3 DEF Inv, TypeOK, TablesHoldWaiters, Reading, tasks, server
    <2>5. \A d \in Calls : CallOK(d)'
        BY <2>1, <2>3, CallKept DEF Inv
    <2>6. TurnsOK'
        BY <2>3, TurnsKept DEF Inv, TurnsOK
    <2>7. EndsOK'
        BY <2>1, <2>3, EndsKept
    <2>8. AskOK' /\ ShownIsAnswered'
        BY <2>3, AskKept, ShownKept
    <2> QED BY <2>3, <2>4, <2>5, <2>6, <2>7, <2>8 DEF Inv
<1>2. CASE c \in pending
    <2> DEFINE new == [call[c] EXCEPT !.pc = IF line.turn # None THEN "answered" ELSE "done",
                                      !.turn = IF line.turn # None THEN line.turn ELSE @,
                                      !.out = line.out]
    <2>1. /\ pending' = pending \ {c}
          /\ call' = [call EXCEPT ![c].pc = IF line.turn # None THEN "answered" ELSE "done",
                                  ![c].turn = IF line.turn # None THEN line.turn ELSE @,
                                  ![c].out = line.out]
          /\ opened' \subseteq opened \cup {call[c].thread}
          /\ opened' = IF call[c].op = "start" /\ line.out = "ok"
                       THEN opened \cup {call[c].thread} ELSE opened
        BY <1>2 DEF Answered
    <2>2. c \in Calls /\ call[c].pc = "sent" /\ call[c] \in CallRecord
        BY <1>2 DEF Inv, TypeOK, TablesHoldWaiters
    <2>3. line \in LineRecord
        BY OnceRead DEF Reading
    <2>4. /\ new \in CallRecord /\ new.op = call[c].op /\ new.out = line.out
          /\ new.pc = IF line.turn # None THEN "answered" ELSE "done"
          /\ new.turn = IF line.turn # None THEN line.turn ELSE call[c].turn
          /\ new.thread = call[c].thread
        BY <2>2, <2>3 DEF CallRecord, LineRecord
    <2>5. call' = [call EXCEPT ![c] = new]
        BY <2>1
    <2> HIDE DEF new
    <2>6. /\ call'[c] = new /\ \A d \in Calls : d # c => call'[d] = call[d]
          /\ call' \in [Calls -> CallRecord] /\ \A d \in Calls : call'[d].op = call[d].op
        BY <2>2, <2>4, <2>5 DEF Inv, TypeOK
    <2>7. /\ Grows /\ turns' = turns /\ Begun' = Begun /\ turn' = turn
          /\ Lines = Lines' \cup {line} /\ stdout' \in Seq(LineRecord) /\ LineOK(line)
          /\ LinesOK' /\ RequestsOnce' /\ InboxOK'
        BY <2>6, ReadingKeeps
    <2>8. call[c].op # "none" => call[c].thread \in Threads
        BY <2>2 DEF Inv, CallOK
    <2>9. opened' \subseteq Threads
        BY <2>1, <2>8 DEF Inv, TypeOK
    <2>10. TypeOK'
        BY <2>1, <2>6, <2>7, <2>9 DEF Inv, TypeOK, Reading, tasks, server
    <2>11. CallOK(c)'
        <3>1. ~(c > calls) /\ calls' = calls
            BY <2>2 DEF Inv, CallOK, NoCall, Reading
        <3>2. call[c].op = "prompt" => call[c].turn = None
            BY <2>2 DEF Inv, CallOK
        <3>3. CASE line.turn = None
            <4>1. call[c].op = "prompt" => line.out = "error"
                BY <2>7, <3>3 DEF LineOK
            <4> QED BY <2>4, <2>6, <2>8, <3>1, <3>2, <3>3, <4>1 DEF CallOK
        <3>4. CASE line.turn # None
            <4>1. line.turn \in Begun /\ turn[line.turn].by = c /\ StatusOf(line.turn, line.out)
                BY <2>7, <3>4 DEF LineOK
            <4>2. call[c].op = "prompt"
                BY <4>1 DEF Inv, TurnsOK
            <4>3. StatusOf(line.turn, line.out)'
                BY <2>7, <4>1 DEF StatusOf
            <4> QED BY <2>4, <2>6, <2>7, <2>8, <3>1, <3>4, <4>1, <4>2, <4>3 DEF CallOK
        <3> QED BY <3>3, <3>4
    <2>12. \A d \in Calls : CallOK(d)'
        BY <2>6, <2>7, <2>11, CallKept DEF Inv
    <2>13. TablesHoldWaiters'
        <3>1. pending' = {d \in Calls : call'[d].pc = "sent"}
            <4>1. pending = {d \in Calls : call[d].pc = "sent"}
                BY DEF Inv, TablesHoldWaiters
            <4>2. new.pc # "sent"
                BY <2>4
            <4> QED BY <2>1, <2>2, <2>6, <4>1, <4>2
        <3>2. {d \in Calls : call'[d].pc = "waiting"} = {d \in Calls : call[d].pc = "waiting"}
            BY <2>2, <2>4, <2>6
        <3>3. \A d \in {e \in Calls : call[e].pc = "waiting"} : call'[d].turn = call[d].turn
            BY <2>2, <2>6
        <3>4. waiters = {call[d].turn : d \in {e \in Calls : call[e].pc = "waiting"}}
            BY DEF Inv, TablesHoldWaiters
        <3>5. {call'[d].turn : d \in {e \in Calls : call'[e].pc = "waiting"}}
                = {call[d].turn : d \in {e \in Calls : call[e].pc = "waiting"}}
            BY <3>2, <3>3
        <3> QED BY <3>1, <3>4, <3>5 DEF TablesHoldWaiters
    <2>14. TurnsOK'
        BY <2>7, TurnsKept DEF Inv, TurnsOK
    <2>15. EndsOK'
        <3>1. \A d \in Calls : \/ call'[d].pc = call[d].pc
                               \/ call'[d].pc \in {"done", "dropped"}
                               \/ call[d].pc = "sent" /\ call'[d].pc = "answered"
            BY <2>2, <2>4, <2>6
        <3>2. \A l \in Lines : l.kind = "ended" => l \in Lines'
            BY <2>7
        <3> QED BY <2>7, <3>1, <3>2, EndsKept
    <2>16. AskOK' /\ ShownIsAnswered'
        BY <2>7, AskKept, ShownKept
    <2> QED BY <2>7, <2>10, <2>12, <2>13, <2>14, <2>15, <2>16 DEF Inv
<1> QED BY <1>1, <1>2

(* turn/started makes the turn the active one of its thread. *)
LEMMA ReadStartedInv ==
    ASSUME Inv, Reading, NEW line, line = Head(stdout), line.kind = "started",
           active' = [active EXCEPT ![turn[line.turn].thread] = line.turn],
           UNCHANGED <<pending, waiters, completed, call, opened, ask, shown>>
    PROVE  Inv'
<1>1. call' \in [Calls -> CallRecord] /\ \A d \in Calls : call'[d].op = call[d].op
    BY DEF Inv, TypeOK
<1>2. /\ Grows /\ turns' = turns /\ Begun' = Begun /\ turn' = turn
      /\ Lines = Lines' \cup {line} /\ stdout' \in Seq(LineRecord) /\ LineOK(line)
      /\ LinesOK' /\ RequestsOnce' /\ InboxOK'
    BY <1>1, ReadingKeeps
<1>3. line.turn \in Begun /\ line.turn \in Turns
    BY <1>2, CodexBounds DEF LineOK, Begun, Turns, Inv, TypeOK
<1>4. /\ active' \in [Threads -> Turns \cup {None}]
      /\ \A t \in Threads : active'[t] # None => active'[t] \in Begun
    BY <1>3 DEF Inv, TypeOK, TurnsOK
<1>5. TypeOK' /\ TablesHoldWaiters'
    BY <1>2, <1>4 DEF Inv, TypeOK, TablesHoldWaiters, Reading, tasks, server
<1>6. \A d \in Calls : CallOK(d)'
    BY <1>2, CallKept DEF Inv
<1>7. TurnsOK'
    BY <1>2, <1>4, TurnsKept
<1>8. EndsOK'
    BY <1>2, EndsKept
<1>9. AskOK' /\ ShownIsAnswered'
    BY <1>2, AskKept, ShownKept
<1> QED BY <1>2, <1>5, <1>6, <1>7, <1>8, <1>9 DEF Inv

(* The end of a turn goes to the prompt that waits for this turn, or is     *)
(* kept for it.                                                             *)
LEMMA ReadEndedInv ==
    ASSUME Inv, Reading, NEW line, line = Head(stdout), line.kind = "ended",
           finish_turn(line.turn, prompt_result(line.out)),
           UNCHANGED <<pending, opened, ask, shown>>
    PROVE  Inv'
<1> DEFINE n == line.turn
           result == prompt_result(line.out)
           waiting == {c \in Calls : call[c].pc = "waiting" /\ call[c].turn = n}
<1>1. /\ active' = IF active[turn[n].thread] = n
                   THEN [active EXCEPT ![turn[n].thread] = None] ELSE active
      /\ waiters' = waiters \ {n}
      /\ completed' = IF n \in waiters THEN completed ELSE [completed EXCEPT ![n] = result]
      /\ call' = [c \in Calls |-> IF n \in waiters /\ c \in waiting
                                  THEN [call[c] EXCEPT !.pc = "done", !.out = result]
                                  ELSE call[c]]
    BY DEF finish_turn
<1>2. result \in {"EndTurn", "Cancelled", "error"}
    BY DEF prompt_result
<1>3. \A c \in Calls : c \in waiting => n \in waiters
    BY DEF Inv, TablesHoldWaiters
<1>4. ASSUME NEW c \in Calls
      PROVE  /\ call'[c] \in CallRecord /\ call'[c].op = call[c].op
             /\ call'[c].thread = call[c].thread /\ call'[c].turn = call[c].turn
             /\ c \notin waiting => call'[c] = call[c]
             /\ c \in waiting => call'[c].pc = "done" /\ call'[c].out = result
    <2>1. call[c] \in CallRecord
        BY DEF Inv, TypeOK
    <2>2. call'[c] = IF c \in waiting THEN [call[c] EXCEPT !.pc = "done", !.out = result]
                     ELSE call[c]
        BY <1>1, <1>3
    <2> HIDE DEF waiting, result
    <2> QED BY <1>2, <2>1, <2>2 DEF CallRecord, Outs
<1>5. call' \in [Calls -> CallRecord]
    BY <1>1, <1>4
<1>6. /\ Grows /\ turns' = turns /\ Begun' = Begun /\ turn' = turn
      /\ Lines = Lines' \cup {line} /\ stdout' \in Seq(LineRecord) /\ LineOK(line)
      /\ LinesOK' /\ RequestsOnce' /\ InboxOK'
    BY <1>4, <1>5, ReadingKeeps
<1>7. n \in Begun /\ n \in Turns /\ turn[n].end # None /\ line.out = turn[n].end
    BY <1>6, CodexBounds DEF LineOK, Begun, Turns, Inv, TypeOK
<1>8. \A c \in Calls : c \in waiting <=> call[c].pc = "waiting" /\ call[c].turn = n
    OBVIOUS
<1>9. ASSUME NEW c \in waiting PROVE call[c].op = "prompt" /\ turn[n].by = c
    BY <1>8 DEF Inv, CallOK
<1> HIDE DEF waiting
<1>10. TypeOK'
    <2>1. active' \in [Threads -> Turns \cup {None}]
        BY <1>1 DEF Inv, TypeOK
    <2>2. completed' \in [Turns -> {None, "EndTurn", "Cancelled", "error"}]
        BY <1>1, <1>2 DEF Inv, TypeOK
    <2>3. waiters' \subseteq Turns
        BY <1>1 DEF Inv, TypeOK
    <2> QED BY <1>5, <1>6, <2>1, <2>2, <2>3 DEF Inv, TypeOK, Reading, tasks, server
<1>11. ASSUME NEW c \in Calls PROVE CallOK(c)'
    <2>1. CASE c \notin waiting
        BY <1>4, <1>6, <2>1, CallKept DEF Inv
    <2>2. CASE c \in waiting
        <3>1. call[c].pc = "waiting" /\ call[c].turn = n /\ turn[n].by = c /\ calls' = calls
            BY <1>8, <1>9, <2>2 DEF Reading
        <3>2. ~(c > calls)
            BY <3>1 DEF Inv, CallOK, NoCall
        <3> HIDE DEF result
        <3>3. result = prompt_result(turn'[n].end)
            BY <1>6, <1>7 DEF result
        <3>4. /\ call'[c].op = "prompt" /\ call'[c].pc = "done" /\ call'[c].turn = n
              /\ call'[c].out = result /\ call'[c].thread = call[c].thread
            BY <1>4, <1>9, <2>2, <3>1
        <3>5. call[c].thread \in Threads
            BY <1>9, <2>2 DEF Inv, CallOK
        <3>6. n # None /\ turn'[n].by = c /\ turn'[n].end # None /\ n \in Begun'
            BY <1>6, <1>7, <3>1, CodexNone, CodexBounds DEF Turns
        <3> QED BY <3>1, <3>2, <3>3, <3>4, <3>5, <3>6 DEF CallOK
    <2> QED BY <2>1, <2>2
<1>12. TablesHoldWaiters'
    <2>1. pending' = {d \in Calls : call'[d].pc = "sent"}
        <3>1. \A d \in Calls : call'[d].pc = "sent" <=> call[d].pc = "sent"
            BY <1>4, <1>8
        <3> QED BY <3>1 DEF Inv, TablesHoldWaiters
    <2>2. \A d \in Calls : call'[d].pc = "waiting" <=> call[d].pc = "waiting" /\ call[d].turn # n
        BY <1>4, <1>8
    <2>3. waiters = {call[d].turn : d \in {e \in Calls : call[e].pc = "waiting"}}
        BY DEF Inv, TablesHoldWaiters
    <2>4. \A d \in Calls : call'[d].turn = call[d].turn
        BY <1>4
    <2>5. waiters' = {call'[d].turn : d \in {e \in Calls : call'[e].pc = "waiting"}}
        <3>1. ASSUME NEW t \in waiters'
              PROVE  \E d \in {e \in Calls : call'[e].pc = "waiting"} : t = call'[d].turn
            <4>1. t \in waiters /\ t # n
                BY <1>1, <3>1
            <4>2. PICK d \in Calls : call[d].pc = "waiting" /\ t = call[d].turn
                BY <2>3, <4>1
            <4> QED BY <2>2, <2>4, <4>1, <4>2
        <3>2. ASSUME NEW d \in {e \in Calls : call'[e].pc = "waiting"}
              PROVE  call'[d].turn \in waiters'
            <4>1. d \in Calls /\ call[d].pc = "waiting" /\ call[d].turn # n
                BY <2>2
            <4>2. call[d].turn \in waiters
                BY <2>3, <4>1
            <4>3. call'[d].turn = call[d].turn
                BY <2>4, <4>1
            <4>4. waiters' = waiters \ {n}
                BY <1>1
            <4> QED BY <4>1, <4>2, <4>3, <4>4
        <3> QED BY <3>1, <3>2
    <2> QED BY <2>1, <2>5 DEF TablesHoldWaiters
<1>13. TurnsOK'
    <2>1. \A t \in Threads : active'[t] # None => active'[t] \in Begun
        BY <1>1 DEF Inv, TypeOK, TurnsOK
    <2>2. \A m \in Turns : completed'[m] # None =>
              \/ completed'[m] = completed[m]
              \/ turn'[m].end # None /\ completed'[m] = prompt_result(turn'[m].end)
        <3> HIDE DEF result
        <3>1. result = prompt_result(turn'[n].end)
            BY <1>6, <1>7 DEF result
        <3> QED BY <1>1, <1>6, <1>7, <3>1 DEF Inv, TypeOK
    <2> QED BY <1>6, <2>1, <2>2, TurnsKept
<1>14. EndsOK'
    <2>1. SUFFICES ASSUME NEW m \in Begun, turn[m].end # None,
                          call'[turn[m].by].pc \in {"sent", "answered", "waiting"}
                   PROVE  EndKnown(m)' \/ (completed'[m] # None /\ call'[turn[m].by].pc # "waiting")
        BY <1>6 DEF EndsOK
    <2>2. turn[m].by \in Calls /\ m \in Turns
        BY CodexBounds DEF Inv, TurnsOK, TypeOK, Calls, Begun, Turns
    <2>3. call'[turn[m].by].pc = call[turn[m].by].pc
        BY <1>4, <2>1, <2>2
    <2>4. CASE m # n
        <3>1. EndKnown(m) => EndKnown(m)'
            BY <1>6, <2>4 DEF EndKnown
        <3>2. completed'[m] = completed[m]
            BY <1>1, <2>2, <2>4 DEF Inv, TypeOK
        <3>3. EndKnown(m) \/ (completed[m] # None /\ call[turn[m].by].pc # "waiting")
            BY <2>1, <2>3 DEF Inv, EndsOK
        <3> QED BY <2>3, <3>1, <3>2, <3>3
    <2>5. CASE m = n
        <3> DEFINE b == turn[n].by
        <3>1. call[b].pc # "waiting"
            <4>1. SUFFICES ASSUME call[b].pc = "waiting" PROVE FALSE
                OBVIOUS
            <4>2. call[b].turn \in Begun /\ turn[call[b].turn].by = b
                BY <2>2, <2>5, <4>1 DEF Inv, CallOK
            <4>3. call[b].turn = n
                BY <1>7, <4>2 DEF Inv, TurnsOK
            <4>4. b \in waiting
                BY <1>8, <2>2, <2>5, <4>1, <4>3
            <4> QED BY <1>4, <2>1, <2>2, <2>5, <4>4
        <3>2. n \notin waiters
            <4>1. SUFFICES ASSUME n \in waiters PROVE FALSE
                OBVIOUS
            <4>2. PICK c \in Calls : call[c].pc = "waiting" /\ call[c].turn = n
                BY <4>1 DEF Inv, TablesHoldWaiters
            <4>3. turn[n].by = c
                BY <4>2 DEF Inv, CallOK
            <4> QED BY <3>1, <4>2, <4>3
        <3>3. completed'[n] = result /\ result # None
            BY <1>1, <1>2, <1>7, <3>2, CodexNone DEF Inv, TypeOK
        <3> QED BY <2>3, <2>5, <3>1, <3>3
    <2> QED BY <2>4, <2>5
<1>15. AskOK' /\ ShownIsAnswered'
    BY <1>6, AskKept, ShownKept
<1> QED BY <1>6, <1>10, <1>11, <1>12, <1>13, <1>14, <1>15 DEF Inv

(* An update is shown; a request spawns the one task that answers it. *)
LEMMA ReadItemInv ==
    ASSUME Inv, Reading, NEW line, line = Head(stdout), UNCHANGED <<tables, call, opened>>,
           \/ line.kind = "update" /\ Update(line.turn) /\ UNCHANGED ask
           \/ /\ line.kind = "request" /\ ask' = [ask EXCEPT ![line.turn].pc = "spawned"]
              /\ UNCHANGED shown
    PROVE  Inv'
<1>1. call' \in [Calls -> CallRecord] /\ \A d \in Calls : call'[d].op = call[d].op
    BY DEF Inv, TypeOK
<1>2. /\ Grows /\ turns' = turns /\ Begun' = Begun /\ turn' = turn
      /\ Lines = Lines' \cup {line} /\ stdout' \in Seq(LineRecord) /\ LineOK(line)
      /\ LinesOK' /\ RequestsOnce' /\ InboxOK'
    BY <1>1, ReadingKeeps
<1>3. line.turn \in Begun /\ line.turn \in Turns
    BY <1>2, CodexBounds DEF LineOK, Begun, Turns, Inv, TypeOK
<1>4. \A d \in Calls : CallOK(d)'
    BY <1>2, CallKept DEF Inv
<1>5. TurnsOK'
    BY <1>2, TurnsKept DEF Inv, TurnsOK, tables
<1>6. EndsOK'
    BY <1>2, EndsKept DEF tables
<1>7. TablesHoldWaiters'
    BY DEF Inv, TablesHoldWaiters, tables
<1>8. CASE line.kind = "update" /\ Update(line.turn) /\ UNCHANGED ask
    <2>1. shown' = [shown EXCEPT ![line.turn] = "text"]
        BY <1>8 DEF Update
    <2>2. TypeOK'
        BY <1>2, <1>3, <1>8, <2>1 DEF Inv, TypeOK, Reading, tasks, server, tables
    <2>3. \A n \in Turns : shown'[n] = shown[n] \/ shown'[n] \notin Granted
        BY <2>1 DEF Inv, TypeOK, Granted
    <2>4. AskOK' /\ ShownIsAnswered'
        BY <1>2, <1>8, <2>3, AskKept, ShownKept
    <2> QED BY <1>2, <1>4, <1>5, <1>6, <1>7, <2>2, <2>4 DEF Inv
<1>9. CASE /\ line.kind = "request" /\ ask' = [ask EXCEPT ![line.turn].pc = "spawned"]
           /\ UNCHANGED shown
    <2> DEFINE new == [ask[line.turn] EXCEPT !.pc = "spawned"]
    <2>1. ask[line.turn] \in AskRecord /\ ask[line.turn].pc = "none"
        BY <1>2, <1>3, <1>9 DEF Inv, TypeOK, AskOK
    <2>2. new \in AskRecord /\ new.pc = "spawned"
        BY <2>1 DEF AskRecord
    <2>3. ask' = [ask EXCEPT ![line.turn] = new]
        BY <1>9
    <2> HIDE DEF new
    <2>4. /\ ask' \in [Turns -> AskRecord] /\ ask'[line.turn] = new
          /\ \A n \in Turns : n # line.turn => ask'[n] = ask[n]
        BY <1>3, <2>2, <2>3 DEF Inv, TypeOK
    <2>5. TypeOK'
        BY <1>2, <1>9, <2>4 DEF Inv, TypeOK, Reading, tasks, server, tables
    <2>6. \A l \in Lines' : l.kind = "request" => l.turn # line.turn /\ l.turn \in Turns
        <3>1. \A l \in Lines' : l.kind = "request" => l.turn # line.turn
            BY <1>9, OnceRead DEF Reading
        <3>2. \A l \in Lines : l.kind = "request" => l.turn \in Turns
            BY CodexBounds DEF Inv, LinesOK, LineOK, Begun, Turns, TypeOK
        <3> QED BY <1>2, <3>1, <3>2
    <2>7. turn[line.turn].item = "request"
        BY <1>2, <1>9 DEF LineOK
    <2>8. \A l \in Lines' : l.kind = "request" => ask'[l.turn].pc = "none"
        BY <1>2, <2>4, <2>6 DEF Inv, AskOK
    <2>9. shown[line.turn] \notin Granted
        BY <1>3, <2>1 DEF Inv, AskOK
    <2>10. AskOK'
        BY <1>2, <1>3, <1>9, <2>2, <2>4, <2>7, <2>8, <2>9 DEF Inv, AskOK
    <2>11. ShownIsAnswered'
        BY <1>2, <1>9, ShownKept
    <2> QED BY <1>2, <1>4, <1>5, <1>6, <1>7, <2>5, <2>10, <2>11 DEF Inv
<1> QED BY <1>8, <1>9

(* Every kind of line keeps the invariant. *)
LEMMA ReadLineInv ==
    ASSUME Inv, ReadLine
    PROVE  Inv'
<1>1. Reading
    BY DEF ReadLine, Reading
<1>2. PICK line : line = Head(stdout)
    OBVIOUS
<1>3. CASE line.kind = "answer"
    <2>1. Answered(line) /\ UNCHANGED <<active, waiters, completed, ask, shown>>
        BY <1>2, <1>3 DEF ReadLine
    <2> QED BY <1>1, <1>2, <1>3, <2>1, ReadAnswerInv
<1>4. CASE line.kind = "started"
    <2>1. /\ active' = [active EXCEPT ![turn[line.turn].thread] = line.turn]
          /\ UNCHANGED <<pending, waiters, completed, call, opened, ask, shown>>
        BY <1>2, <1>4 DEF ReadLine
    <2> QED BY <1>1, <1>2, <1>4, <2>1, ReadStartedInv
<1>5. CASE line.kind = "ended"
    <2>1. finish_turn(line.turn, prompt_result(line.out)) /\ UNCHANGED <<pending, opened, ask, shown>>
        BY <1>2, <1>5 DEF ReadLine
    <2> QED BY <1>1, <1>2, <1>5, <2>1, ReadEndedInv
<1>6. CASE line.kind = "update"
    <2>1. Update(line.turn) /\ UNCHANGED <<tables, call, opened, ask>>
        BY <1>2, <1>6 DEF ReadLine
    <2> QED BY <1>1, <1>2, <1>6, <2>1, ReadItemInv
<1>7. CASE line.kind = "request"
    <2>1. ask' = [ask EXCEPT ![line.turn].pc = "spawned"] /\ UNCHANGED <<tables, call, opened, shown>>
        BY <1>2, <1>7 DEF ReadLine
    <2> QED BY <1>1, <1>2, <1>7, <2>1, ReadItemInv
<1> QED BY <1>2, <1>3, <1>4, <1>5, <1>6, <1>7 DEF ReadLine

-----------------------------------------------------------------------------
(* Requests of the server. *)

(* The table of handle_server_request: what is shown is what is written,    *)
(* and declining grants nothing.                                            *)
LEMMA FlowIsReply ==
    ASSUME NEW kind \in AskKinds
    PROVE  /\ Reply(kind, ApprovalStrategy) \in {"refused", "once", "session", "error"}
           /\ Flow(kind, ApprovalStrategy) \in {None, "refused", "once", "session"}
           /\ Flow(kind, ApprovalStrategy) # None =>
                 Reply(kind, ApprovalStrategy) = Flow(kind, ApprovalStrategy)
           /\ Reply(kind, ApprovalStrategy) \in {"once", "session"} => ApprovalStrategy # "decline"
<1> DEFINE s == ApprovalStrategy
<1>1. /\ Scope(s) \in {"refused", "once", "session"}
      /\ Scope(s) \in {"once", "session"} => s # "decline"
    BY CodexStrategy DEF Scope
<1>2. CASE kind \in {"command", "fileChange", "permissions"}
    <2>1. Reply(kind, s) = Scope(s) /\ Flow(kind, s) = Scope(s)
        BY <1>2 DEF Reply, Flow, ApprovalFlow
    <2> QED BY <1>1, <2>1
<1>3. CASE kind \in {"userInput", "toolCall", "elicitation"}
    <2>1. Reply(kind, s) = InputFlow(kind, s) /\ Flow(kind, s) = InputFlow(kind, s)
        BY <1>3 DEF Reply, Flow, InputFlow, ElicitationReply, accepts_mcp_elicitation
    <2>2. (InputFlow(kind, s) = Scope(s) /\ s # "decline") \/ InputFlow(kind, s) = "refused"
        BY DEF InputFlow, accepts_mcp_elicitation
    <2> QED BY <1>1, <2>1, <2>2
<1>4. CASE kind = "other"
    <2>1. Reply(kind, s) = "error" /\ Flow(kind, s) = None
        BY <1>4 DEF Reply, Flow
    <2> QED BY <2>1
<1> QED BY <1>2, <1>3, <1>4 DEF AskKinds

(* A change to one request, as its task makes it; the tables, the calls and *)
(* the pipe are left alone.                                                 *)
OneAsk(n, new) ==
    /\ ask' = [ask EXCEPT ![n] = new]
    /\ UNCHANGED <<proc, tasks, opened, call, calls, tables, inbox, stdout, turns>>

(* It keeps the invariant when what is asked and what is shown do. *)
LEMMA OneAskInv ==
    ASSUME Inv, NEW n \in Begun, NEW new \in AskRecord, OneAsk(n, new),
           turn' \in [Turns -> TurnRecord],
           \A m \in Turns : m # n => turn'[m] = turn[m],
           turn'[n].by = turn[n].by, turn'[n].end = turn[n].end, turn'[n].item = turn[n].item,
           turn'[n].thread = turn[n].thread,
           shown' \in [Turns -> {None, "text", "pending", "refused", "once", "session"}],
           AskOK', ShownIsAnswered'
    PROVE  Inv'
<1>0. n \in Turns /\ \A m \in Begun : m \in Turns
    BY CodexBounds DEF Begun, Turns, Inv, TypeOK
<1>1. UNCHANGED <<proc, tasks, opened, call, calls, tables, inbox, stdout, turns>>
    BY DEF OneAsk
<1>2. Lines' = Lines /\ Begun' = Begun
    BY <1>1 DEF Lines, Begun
<1>3. TypeOK'
    <2>1. ask' \in [Turns -> AskRecord]
        BY <1>0 DEF OneAsk, Inv, TypeOK
    <2> QED BY <1>1, <2>1 DEF Inv, TypeOK, tasks, tables
<1>4. \A m \in Begun : /\ turn'[m].by = turn[m].by /\ turn'[m].end = turn[m].end
                       /\ turn'[m].item = turn[m].item /\ turn'[m].thread = turn[m].thread
    BY <1>0
<1>5. Grows
    BY <1>1, <1>4, CodexBounds DEF Grows, Inv, TypeOK
<1>6. \A c \in Calls : CallOK(c)'
    BY <1>1, <1>5, CallKept DEF Inv
<1>7. TablesHoldWaiters' /\ RequestsOnce'
    BY <1>1 DEF Inv, TablesHoldWaiters, RequestsOnce, tables
<1>8. InboxOK'
    BY <1>1, <1>5, InboxKept
<1>9. TurnsOK'
    <2>1. \A m \in Turns : m \notin Begun => turn'[m] = turn[m]
        OBVIOUS
    <2> QED BY <1>1, <1>4, <1>5, <2>1, TurnsKept DEF Inv, TurnsOK, tables
<1>10. LinesOK'
    BY <1>2, <1>5, LinesGrow DEF Inv
<1>11. EndsOK'
    BY <1>1, <1>2, <1>4, <1>5, EndsKept DEF tables
<1> QED BY <1>3, <1>6, <1>7, <1>8, <1>9, <1>10, <1>11 DEF Inv

(* The request is shown as pending before it is answered. *)
LEMMA HandleRequestInv ==
    ASSUME Inv, NEW n \in Turns, HandleRequest(n)
    PROVE  Inv'
<1>1. ask[n].pc = "spawned" /\ n \in Begun /\ turn[n].item = "request"
    BY DEF HandleRequest, Inv, AskOK
<1>2. PICK kind \in AskKinds :
        /\ ask' = [ask EXCEPT ![n] = [pc |-> "writing", show |-> Flow(kind, ApprovalStrategy),
                                      reply |-> Reply(kind, ApprovalStrategy)]]
        /\ shown' = IF Flow(kind, ApprovalStrategy) = None THEN shown
                    ELSE [shown EXCEPT ![n] = "pending"]
    BY DEF HandleRequest
<1> DEFINE flow == Flow(kind, ApprovalStrategy)
           reply == Reply(kind, ApprovalStrategy)
           new == [pc |-> "writing", show |-> flow, reply |-> reply]
<1>3. /\ reply \in {"refused", "once", "session", "error"}
      /\ flow \in {None, "refused", "once", "session"}
      /\ flow # None => reply = flow
      /\ reply \in {"once", "session"} => ApprovalStrategy # "decline"
    BY FlowIsReply
<1> HIDE DEF flow, reply
<1>4. new \in AskRecord
    BY <1>3 DEF AskRecord
<1>5. UNCHANGED <<proc, tasks, opened, call, calls, tables, inbox, stdout, server>>
    BY DEF HandleRequest
<1>6. OneAsk(n, new)
    BY <1>2, <1>5 DEF OneAsk, flow, reply, server
<1>7. /\ ask'[n] = new /\ \A m \in Turns : m # n => ask'[m] = ask[m]
    BY <1>6 DEF OneAsk, Inv, TypeOK
<1>8. /\ shown' \in [Turns -> {None, "text", "pending", "refused", "once", "session"}]
      /\ \A m \in Turns : shown'[m] = shown[m] \/ shown'[m] \notin Granted
    BY <1>2 DEF Inv, TypeOK, Granted
<1>9. Lines' = Lines /\ turn' = turn /\ Begun' = Begun
    BY <1>5 DEF Lines, server, Begun
<1>10. shown'[n] \notin Granted
    BY <1>1, <1>8 DEF Inv, AskOK
<1>11. \A line \in Lines : line.kind = "request" => line.turn # n /\ line.turn \in Turns
    BY <1>1, CodexBounds DEF Inv, AskOK, LinesOK, LineOK, Begun, Turns, TypeOK
<1>12. AskOK'
    <2>1. \A line \in Lines' : line.kind = "request" => ask'[line.turn].pc = "none"
        BY <1>7, <1>9, <1>11 DEF Inv, AskOK
    <2>2. \A m \in Turns : ask'[m].pc # "none" => m \in Begun' /\ turn'[m].item = "request"
        BY <1>1, <1>7, <1>9 DEF Inv, AskOK
    <2>3. \A m \in Turns : ask'[m].pc # "done" => shown'[m] \notin Granted
        BY <1>7, <1>8, <1>10 DEF Inv, AskOK
    <2>4. \A m \in Turns : ask'[m].pc = "writing" =>
              /\ ask'[m].show # None => ask'[m].reply = ask'[m].show
              /\ ask'[m].reply \in {"once", "session"} => ApprovalStrategy # "decline"
        BY <1>3, <1>7 DEF Inv, AskOK
    <2> QED BY <2>1, <2>2, <2>3, <2>4 DEF AskOK
<1>13. ShownIsAnswered'
    BY <1>8, <1>9, ShownKept
<1>14. turn' \in [Turns -> TurnRecord]
    BY <1>9 DEF Inv, TypeOK
<1> QED BY <1>1, <1>4, <1>6, <1>8, <1>9, <1>12, <1>13, <1>14, OneAskInv

(* The answer is written, and then it is shown. *)
LEMMA RequestAnsweredInv ==
    ASSUME Inv, NEW n \in Turns, RequestAnswered(n)
    PROVE  Inv'
<1>1. /\ ask[n].pc = "writing" /\ n \in Begun /\ turn[n].item = "request"
      /\ ask[n] \in AskRecord /\ turn[n] \in TurnRecord
    BY DEF RequestAnswered, Inv, AskOK, TypeOK
<1> DEFINE new == [NoAsk EXCEPT !.pc = "done"]
<1>2. new \in AskRecord /\ new.pc = "done"
    BY DEF NoAsk, AskRecord
<1>3. OneAsk(n, new)
    BY DEF RequestAnswered, OneAsk
<1> HIDE DEF new
<1>4. /\ ask'[n] = new /\ \A m \in Turns : m # n => ask'[m] = ask[m]
    BY <1>3 DEF OneAsk, Inv, TypeOK
<1>5. Lines' = Lines /\ Begun' = Begun
    BY <1>3 DEF Lines, OneAsk, Begun
<1>6. /\ turn' \in [Turns -> TurnRecord] /\ \A m \in Turns : m # n => turn'[m] = turn[m]
      /\ turn'[n].by = turn[n].by /\ turn'[n].end = turn[n].end /\ turn'[n].item = turn[n].item
      /\ turn'[n].thread = turn[n].thread
      /\ turn'[n].reply = IF proc = "gone" THEN turn[n].reply ELSE ask[n].reply
    <2>1. CASE proc = "gone"
        BY <2>1 DEF RequestAnswered, Inv, TypeOK
    <2>2. CASE proc # "gone"
        <3> DEFINE t == [turn[n] EXCEPT !.reply = ask[n].reply]
        <3>1. turn' = [turn EXCEPT ![n] = t]
            BY <2>2 DEF RequestAnswered
        <3>2. /\ t \in TurnRecord /\ t.by = turn[n].by /\ t.end = turn[n].end
              /\ t.item = turn[n].item /\ t.thread = turn[n].thread /\ t.reply = ask[n].reply
            BY <1>1 DEF TurnRecord, AskRecord
        <3> HIDE DEF t
        <3> QED BY <2>2, <3>1, <3>2 DEF Inv, TypeOK
    <2> QED BY <2>1, <2>2
<1>7. /\ shown' \in [Turns -> {None, "text", "pending", "refused", "once", "session"}]
      /\ \A m \in Turns : m # n => shown'[m] = shown[m]
      /\ shown'[n] = IF proc = "gone" \/ ask[n].show = None THEN shown[n] ELSE ask[n].show
    <2>1. ask[n].show \in {None, "refused", "once", "session"}
        BY <1>1 DEF AskRecord
    <2> QED BY <2>1 DEF RequestAnswered, Inv, TypeOK
<1>8. shown[n] \notin Granted
    BY <1>1 DEF Inv, AskOK
<1>9. \A line \in Lines : line.kind = "request" => line.turn # n /\ line.turn \in Turns
    BY <1>1, CodexBounds DEF Inv, AskOK, LinesOK, LineOK, Begun, Turns, TypeOK
<1>10. AskOK'
    <2>1. \A line \in Lines' : line.kind = "request" => ask'[line.turn].pc = "none"
        BY <1>4, <1>5, <1>9 DEF Inv, AskOK
    <2>2. \A m \in Turns : ask'[m].pc # "none" => m \in Begun' /\ turn'[m].item = "request"
        BY <1>1, <1>4, <1>5, <1>6 DEF Inv, AskOK
    <2>3. \A m \in Turns : ask'[m].pc # "done" => shown'[m] \notin Granted
        BY <1>2, <1>4, <1>7 DEF Inv, AskOK
    <2>4. \A m \in Turns : ask'[m].pc = "writing" =>
              /\ ask'[m].show # None => ask'[m].reply = ask'[m].show
              /\ ask'[m].reply \in {"once", "session"} => ApprovalStrategy # "decline"
        BY <1>2, <1>4 DEF Inv, AskOK
    <2> QED BY <2>1, <2>2, <2>3, <2>4 DEF AskOK
<1>11. ShownIsAnswered'
    <2>1. /\ ask[n].show # None => ask[n].reply = ask[n].show
          /\ ask[n].reply \in {"once", "session"} => ApprovalStrategy # "decline"
        BY <1>1 DEF Inv, AskOK
    <2>2. /\ shown'[n] \in {"refused", "once", "session"} => turn'[n].reply = shown'[n]
          /\ turn'[n].reply \in {"once", "session"} => ApprovalStrategy # "decline"
        BY <1>6, <1>7, <1>8, <2>1 DEF Inv, ShownIsAnswered, Granted
    <2> QED BY <1>6, <1>7, <2>2 DEF Inv, ShownIsAnswered
<1> QED BY <1>1, <1>2, <1>3, <1>6, <1>7, <1>10, <1>11, OneAskInv

-----------------------------------------------------------------------------
(* The app-server. *)

(* A step of the server that begins no turn: it says what is true of its    *)
(* turns, and it says how a turn ended when it ends.                        *)
LEMMA ServerStep ==
    ASSUME Inv, Daemon, turns' = turns, inbox' \subseteq inbox,
           turn' \in [Turns -> TurnRecord], stdout' \in Seq(LineRecord),
           \A m \in Turns : m \notin Begun => turn'[m] = turn[m],
           \A m \in Begun :
              /\ turn'[m].by = turn[m].by /\ turn'[m].thread = turn[m].thread
              /\ turn'[m].reply = turn[m].reply
              /\ turn[m].item # None => turn'[m].item = turn[m].item
              /\ turn[m].end # None => turn'[m].end = turn[m].end
              /\ turn'[m].end # None => turn[m].end # None \/ EndKnown(m)',
           RequestsOnce', Lines \subseteq Lines',
           \A line \in Lines' : line \in Lines \/ LineOK(line)',
           \A line \in Lines' : line.kind = "request" => line \in Lines \/ ask[line.turn].pc = "none"
    PROVE  Inv'
<1>1. UNCHANGED <<proc, tasks, opened, call, calls, tables, ask, shown>>
    BY DEF Daemon
<1>2. Begun' = Begun /\ Begun \subseteq Turns
    BY CodexBounds DEF Begun, Turns, Inv, TypeOK
<1>3. TypeOK'
    BY <1>1 DEF Inv, TypeOK, tasks, tables
<1>4. Grows
    BY <1>1, CodexBounds DEF Grows, Inv, TypeOK
<1>5. \A c \in Calls : CallOK(c)'
    BY <1>1, <1>4, CallKept DEF Inv
<1>6. TablesHoldWaiters'
    BY <1>1 DEF Inv, TablesHoldWaiters, tables
<1>7. InboxOK'
    BY <1>4, InboxKept
<1>8. TurnsOK'
    BY <1>1, <1>4, TurnsKept DEF Inv, TurnsOK, tables
<1>9. LinesOK'
    BY <1>4, LinesGrow DEF Inv
<1>10. EndsOK'
    BY <1>1, <1>4, EndsKept DEF tables
<1>11. AskOK'
    <2>1. \A line \in Lines' : line.kind = "request" => ask'[line.turn].pc = "none"
        BY <1>1 DEF Inv, AskOK
    <2>2. \A m \in Turns : ask'[m].pc # "none" => m \in Begun' /\ turn'[m].item = "request"
        BY <1>1, <1>2, CodexNone DEF Inv, AskOK
    <2> QED BY <1>1, <2>1, <2>2 DEF Inv, AskOK
<1>12. ShownIsAnswered'
    <2>1. \A m \in Turns : turn'[m].reply = turn[m].reply
        BY <1>2
    <2> QED BY <1>1, <2>1, ShownKept
<1> QED BY <1>3, <1>5, <1>6, <1>7, <1>8, <1>9, <1>10, <1>11, <1>12 DEF Inv

(* An answer that begins no turn: the request was taken out of the inbox. *)
LEMMA ServerRepliesInv ==
    ASSUME Inv, Daemon, UNCHANGED server, NEW r \in inbox, inbox' = inbox \ {r},
           NEW out \in {"ok", "error"}, r.op = "prompt" => out = "error",
           Say(Line("answer", r.id, None, out))
    PROVE  Inv'
<1> DEFINE line == Line("answer", r.id, None, out)
<1>1. line \in LineRecord /\ line.kind = "answer" /\ line.id = r.id /\ line.turn = None /\ line.out = out
    BY DEF Inv, TypeOK, Request, Line, LineRecord, Outs
<1>2. stdout' = Append(stdout, line)
    BY DEF Say
<1> HIDE DEF line
<1>3. RequestsOnce' /\ stdout' \in Seq(LineRecord) /\ Lines' = Lines \cup {line}
    BY <1>1, <1>2, OnceWritten DEF Inv
<1>4. turn' = turn /\ turns' = turns /\ call' = call /\ calls' = calls
    BY DEF server, Daemon
<1>5. LineOK(line)'
    BY <1>1, <1>4 DEF LineOK, Inv, InboxOK
<1>6. turn' \in [Turns -> TurnRecord]
    BY <1>4 DEF Inv, TypeOK
<1> QED BY <1>1, <1>3, <1>4, <1>5, <1>6, ServerStep

(* The server says one thing of one turn. *)
LEMMA ServerSaysInv ==
    ASSUME Inv, Daemon, turns' = turns, inbox' \subseteq inbox,
           NEW n \in Begun, NEW new \in TurnRecord, turn' = [turn EXCEPT ![n] = new],
           new.by = turn[n].by, new.thread = turn[n].thread, new.reply = turn[n].reply,
           turn[n].item # None => new.item = turn[n].item,
           turn[n].end # None => new.end = turn[n].end,
           NEW line \in LineRecord, stdout' = Append(stdout, line), LineOK(line)',
           new.end # None => turn[n].end # None \/ (line.kind = "ended" /\ line.turn = n),
           line.kind = "request" => line.turn = n /\ turn[n].item = None
    PROVE  Inv'
<1>1. n \in Turns /\ turn \in [Turns -> TurnRecord]
    BY CodexBounds DEF Begun, Turns, Inv, TypeOK
<1>2. turn'[n] = new /\ \A m \in Turns : m # n => turn'[m] = turn[m]
    BY <1>1
<1>3. turn' \in [Turns -> TurnRecord]
    BY <1>1
<1>4. line.kind = "request" => /\ \A l \in Lines : l.kind = "request" => l.turn # line.turn
                               /\ ask[line.turn].pc = "none"
    <2>1. line.kind = "request" => \A l \in Lines : l.kind = "request" => l.turn # line.turn
        BY CodexNone DEF Inv, LinesOK, LineOK
    <2>2. line.kind = "request" => ask[line.turn].pc = "none"
        BY <1>1, CodexNone DEF Inv, AskOK
    <2> QED BY <2>1, <2>2
<1>5. RequestsOnce' /\ stdout' \in Seq(LineRecord) /\ Lines' = Lines \cup {line}
    BY <1>4, OnceWritten DEF Inv
<1>6. line.kind = "ended" /\ line.turn = n => EndKnown(n)'
    BY <1>5 DEF EndKnown
<1>7. Begun \subseteq Turns
    BY CodexBounds DEF Begun, Turns, Inv, TypeOK
<1>8. \A m \in Begun :
          /\ turn'[m].by = turn[m].by /\ turn'[m].thread = turn[m].thread
          /\ turn'[m].reply = turn[m].reply
          /\ turn[m].item # None => turn'[m].item = turn[m].item
          /\ turn[m].end # None => turn'[m].end = turn[m].end
          /\ turn'[m].end # None => turn[m].end # None \/ EndKnown(m)'
    BY <1>2, <1>6, <1>7
<1> QED BY <1>2, <1>3, <1>4, <1>5, <1>8, ServerStep

(* The answer to turn/start, with the status of the turn. *)
LEMMA ServerAnswersTurnInv ==
    ASSUME Inv, NEW n \in Turns, ServerAnswersTurn(n)
    PROVE  Inv'
<1>1. PICK status \in {"inProgress", turn[n].end} \ {None} :
            stdout' = Append(stdout, Line("answer", turn[n].by, n, status))
    BY DEF ServerAnswersTurn, Say
<1>2. n \in Begun /\ turn[n] \in TurnRecord
    BY CodexBounds DEF ServerAnswersTurn, Begun, Turns, Inv, TypeOK
<1> DEFINE new == [turn[n] EXCEPT !.said = TRUE]
<1>0. PICK line : line = Line("answer", turn[n].by, n, status)
    OBVIOUS
<1>3. /\ turn' = [turn EXCEPT ![n] = new] /\ Daemon /\ UNCHANGED <<inbox, turns>>
      /\ stdout' = Append(stdout, line)
    BY <1>0, <1>1 DEF ServerAnswersTurn
<1>4. /\ new \in TurnRecord /\ new.by = turn[n].by /\ new.thread = turn[n].thread
      /\ new.reply = turn[n].reply /\ new.item = turn[n].item /\ new.end = turn[n].end
    BY <1>2 DEF TurnRecord
<1>5. /\ line \in LineRecord /\ line.kind = "answer" /\ line.id = turn[n].by /\ line.turn = n
      /\ line.out = status
    BY <1>0, <1>2 DEF LineRecord, TurnRecord, Line, Outs
<1> HIDE DEF new
<1>6. turn'[n] = new /\ Begun' = Begun /\ calls' = calls
    BY <1>3 DEF Inv, TypeOK, Begun, Daemon
<1>7. turn[n].by \in 1..calls /\ n # None
    BY <1>2, CodexNone DEF Inv, TurnsOK, Turns
<1>8. LineOK(line)'
    BY <1>2, <1>4, <1>5, <1>6, <1>7 DEF LineOK, StatusOf
<1> QED BY <1>2, <1>3, <1>4, <1>5, <1>8, ServerSaysInv

(* turn/started. *)
LEMMA ServerStartsTurnInv ==
    ASSUME Inv, NEW n \in Turns, ServerStartsTurn(n)
    PROVE  Inv'
<1>1. n \in Begun /\ turn[n] \in TurnRecord
    BY CodexBounds DEF ServerStartsTurn, Begun, Turns, Inv, TypeOK
<1> DEFINE new == [turn[n] EXCEPT !.begun = TRUE]
           line == Line("started", None, n, None)
<1>2. /\ turn' = [turn EXCEPT ![n] = new] /\ Daemon /\ UNCHANGED <<inbox, turns>>
      /\ stdout' = Append(stdout, line)
    BY DEF ServerStartsTurn, Say
<1>3. /\ new \in TurnRecord /\ new.by = turn[n].by /\ new.thread = turn[n].thread
      /\ new.reply = turn[n].reply /\ new.item = turn[n].item /\ new.end = turn[n].end
    BY <1>1 DEF TurnRecord
<1>4. line \in LineRecord /\ line.kind = "started" /\ line.turn = n
    BY DEF LineRecord, Line, Outs
<1> HIDE DEF new, line
<1>5. Begun' = Begun
    BY <1>2 DEF Begun
<1>6. LineOK(line)'
    BY <1>1, <1>4, <1>5 DEF LineOK
<1> QED BY <1>1, <1>2, <1>3, <1>4, <1>6, ServerSaysInv

(* An item: the turn had none before it. *)
LEMMA ServerStreamsInv ==
    ASSUME Inv, NEW n \in Turns, NEW item \in {"update", "request"}, ServerStreams(n, item)
    PROVE  Inv'
<1>1. n \in Begun /\ turn[n] \in TurnRecord /\ turn[n].item = None
    BY CodexBounds DEF ServerStreams, Begun, Turns, Inv, TypeOK
<1> DEFINE new == [turn[n] EXCEPT !.item = item]
           line == Line(item, None, n, None)
<1>2. /\ turn' = [turn EXCEPT ![n] = new] /\ Daemon /\ UNCHANGED <<inbox, turns>>
      /\ stdout' = Append(stdout, line)
    BY DEF ServerStreams, Say
<1>3. /\ new \in TurnRecord /\ new.by = turn[n].by /\ new.thread = turn[n].thread
      /\ new.reply = turn[n].reply /\ new.item = item /\ new.end = turn[n].end
    BY <1>1 DEF TurnRecord
<1>4. line \in LineRecord /\ line.kind = item /\ line.turn = n
    BY DEF LineRecord, Line, Outs
<1> HIDE DEF new, line
<1>5. Begun' = Begun /\ turn'[n] = new
    BY <1>2 DEF Begun, Inv, TypeOK
<1>6. LineOK(line)'
    BY <1>1, <1>3, <1>4, <1>5 DEF LineOK
<1> QED BY <1>1, <1>2, <1>3, <1>4, <1>6, ServerSaysInv

(* A turn that ends, with turn/completed or an error: it is announced, and  *)
(* announced again only as it was.                                          *)
LEMMA TurnEndsInv ==
    ASSUME Inv, NEW n \in Turns, n <= turns, NEW status \in {"completed", "failed"},
           turn[n].end \in {None, status}, NEW new \in TurnRecord, turn' = [turn EXCEPT ![n] = new],
           new.by = turn[n].by, new.thread = turn[n].thread, new.reply = turn[n].reply,
           new.item = turn[n].item, new.end = status,
           Say(Line("ended", None, n, status)), Daemon, UNCHANGED <<inbox, turns>>
    PROVE  Inv'
<1>1. n \in Begun
    BY CodexBounds DEF Begun, Turns, Inv, TypeOK
<1> DEFINE line == Line("ended", None, n, status)
<1>2. stdout' = Append(stdout, line)
    BY DEF Say
<1>3. line \in LineRecord /\ line.kind = "ended" /\ line.turn = n /\ line.out = status
    BY DEF LineRecord, Line, Outs
<1> HIDE DEF line
<1>4. Begun' = Begun /\ turn'[n] = new
    BY DEF Begun, Inv, TypeOK
<1>5. LineOK(line)'
    BY <1>1, <1>3, <1>4, CodexNone DEF LineOK
<1> QED BY <1>1, <1>2, <1>3, <1>5, ServerSaysInv

(* turn/completed, and an error that is not retried. *)
LEMMA ServerEndsInv ==
    ASSUME Inv, NEW n \in Turns, NEW status \in {"completed", "failed"},
           ServerEndsTurn(n, status) \/ ServerErrs(n)
    PROVE  Inv'
<1>0. turn[n] \in TurnRecord
    BY DEF Inv, TypeOK
<1>1. CASE ServerEndsTurn(n, status)
    <2> DEFINE new == [turn[n] EXCEPT !.end = status, !.closed = TRUE]
    <2>1. turn' = [turn EXCEPT ![n] = new]
        BY <1>0, <1>1 DEF ServerEndsTurn, Inv, TypeOK
    <2>2. /\ new \in TurnRecord /\ new.by = turn[n].by /\ new.thread = turn[n].thread
          /\ new.reply = turn[n].reply /\ new.item = turn[n].item /\ new.end = status
        BY <1>0 DEF TurnRecord
    <2> HIDE DEF new
    <2> QED BY <1>1, <2>1, <2>2, TurnEndsInv DEF ServerEndsTurn
<1>2. CASE ServerErrs(n)
    <2> DEFINE new == [turn[n] EXCEPT !.end = "failed"]
    <2>1. turn' = [turn EXCEPT ![n] = new]
        BY <1>2 DEF ServerErrs
    <2>2. /\ new \in TurnRecord /\ new.by = turn[n].by /\ new.thread = turn[n].thread
          /\ new.reply = turn[n].reply /\ new.item = turn[n].item /\ new.end = "failed"
        BY <1>0 DEF TurnRecord
    <2> HIDE DEF new
    <2> QED BY <1>2, <2>1, <2>2, TurnEndsInv DEF ServerErrs
<1> QED BY <1>1, <1>2

(* turn/interrupt: it is answered, and a turn that runs ends. *)
LEMMA ServerInterruptsInv ==
    ASSUME Inv, NEW r \in inbox, ServerInterrupts(r)
    PROVE  Inv'
<1> DEFINE n == r.turn
           answer == Line("answer", r.id, None, "ok")
           ended == Line("ended", None, n, "interrupted")
           running == turn[n].begun /\ turn[n].end = None
<1>1. r \in Request /\ r.op = "cancel" /\ n \in Begun /\ n \in Turns /\ turn[n] \in TurnRecord
    BY CodexBounds DEF ServerInterrupts, Inv, TypeOK, InboxOK, Begun, Turns
<1>2. /\ answer \in LineRecord /\ ended \in LineRecord
      /\ answer.kind = "answer" /\ answer.turn = None /\ answer.id = r.id
      /\ ended.kind = "ended" /\ ended.turn = n /\ ended.out = "interrupted"
    BY <1>1 DEF LineRecord, Line, Outs, Request
<1>3. Daemon /\ turns' = turns /\ inbox' = inbox \ {r}
    BY DEF ServerInterrupts
<1>4. stdout \in Seq(LineRecord) /\ turn \in [Turns -> TurnRecord]
    BY DEF Inv, TypeOK
<1>5. CASE ~running
    <2>1. stdout' = stdout \o <<answer>> /\ turn' = turn
        BY <1>5 DEF ServerInterrupts
    <2>2. Say(answer)
        BY <1>2, <1>4, <2>1, ConcatAppend DEF Say
    <2> QED BY <1>1, <1>3, <2>1, <2>2, ServerRepliesInv DEF server
<1>6. CASE running
    <2> DEFINE new == [turn[n] EXCEPT !.end = "interrupted", !.closed = TRUE]
    <2>1. stdout' = stdout \o <<answer, ended>> /\ turn' = [turn EXCEPT ![n] = new]
        BY <1>4, <1>6 DEF ServerInterrupts
    <2>2. stdout' = Append(Append(stdout, answer), ended)
        BY <1>2, <1>4, <2>1, ConcatAppend
    <2>3. /\ new \in TurnRecord /\ new.by = turn[n].by /\ new.thread = turn[n].thread
          /\ new.reply = turn[n].reply /\ new.item = turn[n].item /\ new.end = "interrupted"
        BY <1>1 DEF TurnRecord
    <2>4. RequestsOnce' /\ stdout' \in Seq(LineRecord) /\ Lines' = Lines \cup {answer, ended}
        BY <1>2, <2>2, TwoWritten DEF Inv
    <2> HIDE DEF new
    <2>5. turn' \in [Turns -> TurnRecord]
        BY <1>1, <1>4, <2>1, <2>3
    <2>6. turn'[n] = new /\ \A m \in Turns : m # n => turn'[m] = turn[m]
        BY <1>1, <1>4, <2>1
    <2>7. Begun' = Begun /\ Begun \subseteq Turns /\ call' = call /\ calls' = calls
        BY <1>3, CodexBounds DEF Begun, Turns, Daemon, Inv, TypeOK
    <2>8. \A line \in {answer, ended} : LineOK(line)' /\ line.kind # "request"
        <3>1. PICK l : l = answer
            OBVIOUS
        <3>2. LineOK(l)'
            BY <1>1, <1>2, <2>7, <3>1 DEF LineOK, Inv, InboxOK
        <3>3. PICK k : k = ended
            OBVIOUS
        <3>4. LineOK(k)'
            BY <1>1, <1>2, <2>3, <2>6, <2>7, <3>3, CodexNone DEF LineOK
        <3> QED BY <1>2, <3>1, <3>2, <3>3, <3>4
    <2>9. EndKnown(n)'
        BY <1>2, <2>4 DEF EndKnown
    <2>10. \A m \in Begun :
              /\ turn'[m].by = turn[m].by /\ turn'[m].thread = turn[m].thread
              /\ turn'[m].reply = turn[m].reply
              /\ turn[m].item # None => turn'[m].item = turn[m].item
              /\ turn[m].end # None => turn'[m].end = turn[m].end
              /\ turn'[m].end # None => turn[m].end # None \/ EndKnown(m)'
        BY <1>6, <2>3, <2>6, <2>7, <2>9
    <2>11. \A m \in Turns : m \notin Begun => turn'[m] = turn[m]
        BY <1>1, <2>6
    <2> QED BY <1>3, <2>4, <2>5, <2>8, <2>10, <2>11, ServerStep
<1> QED BY <1>5, <1>6

(* turn/start: the turn is the only one of the request that was taken. *)
LEMMA ServerTakesTurnInv ==
    ASSUME Inv, NEW r \in inbox, ServerTakesTurn(r)
    PROVE  Inv'
<1> DEFINE new == [NoTurn EXCEPT !.thread = r.thread, !.by = r.id]
<1>1. PICK n : n = turns + 1
    OBVIOUS
<1>2. /\ turns \in Nat /\ n \in Turns /\ n \notin Begun /\ turns' = n
      /\ Begun' = Begun \cup {n} /\ Begun \subseteq Turns
    BY <1>1, CodexBounds DEF ServerTakesTurn, Inv, TypeOK, Turns, Begun
<1>3. /\ turn' = [turn EXCEPT ![n] = new] /\ inbox' = inbox \ {r} /\ stdout' = stdout
      /\ UNCHANGED <<proc, tasks, opened, call, calls, tables, ask, shown>>
    BY <1>1 DEF ServerTakesTurn, Daemon
<1>4. /\ r \in Request /\ r.op = "prompt" /\ r.id \in 1..calls /\ call[r.id].op = "prompt"
      /\ \A m \in Begun : turn[m].by # r.id
    BY DEF ServerTakesTurn, Inv, TypeOK, InboxOK
<1>5. /\ new \in TurnRecord /\ new.by = r.id /\ new.thread = r.thread /\ new.end = None
      /\ new.reply = None /\ r.thread \in Threads
    BY <1>4 DEF NoTurn, TurnRecord, Request
<1> HIDE DEF new
<1>6. turn'[n] = new /\ \A m \in Turns : m # n => turn'[m] = turn[m]
    BY <1>2, <1>3 DEF Inv, TypeOK
<1>7. \A m \in Begun : m # n /\ m \in Turns /\ turn'[m] = turn[m]
    BY <1>2, <1>6
<1>8. Lines' = Lines /\ turn[n] = NoTurn
    BY <1>2, <1>3 DEF Lines, Inv, TurnsOK
<1>9. TypeOK'
    <2>1. turn' \in [Turns -> TurnRecord] /\ turns' \in 0..MaxTurns
        BY <1>2, <1>3, <1>5, CodexBounds DEF Inv, TypeOK, Turns
    <2> QED BY <1>3, <2>1 DEF Inv, TypeOK, tasks, tables
<1>10. Grows
    BY <1>1, <1>2, <1>3, <1>7, CodexBounds DEF Grows, Inv, TypeOK
<1>11. \A c \in Calls : CallOK(c)'
    BY <1>3, <1>10, CallKept DEF Inv
<1>12. TablesHoldWaiters' /\ RequestsOnce'
    BY <1>3 DEF Inv, TablesHoldWaiters, RequestsOnce, tables
<1>13. InboxOK'
    <2>1. \A q \in inbox' : q.id # r.id
        BY <1>3 DEF Inv, InboxOK
    <2>2. \A q \in inbox' : \A m \in Begun' : turn'[m].by # q.id
        BY <1>2, <1>3, <1>5, <1>6, <1>7, <2>1 DEF Inv, InboxOK
    <2> QED BY <1>2, <1>3, <2>2 DEF Inv, InboxOK
<1>14. TurnsOK'
    <2>1. \A m \in Turns : m \notin Begun' => turn'[m] = NoTurn
        BY <1>2, <1>6 DEF Inv, TurnsOK
    <2>2. \A m \in Begun' : /\ turn'[m].by \in 1..calls' /\ call'[turn'[m].by].op = "prompt"
                            /\ turn'[m].thread \in Threads
        BY <1>2, <1>3, <1>4, <1>5, <1>6, <1>7 DEF Inv, TurnsOK
    <2>3. \A k, m \in Begun' : turn'[k].by = turn'[m].by => k = m
        BY <1>2, <1>4, <1>5, <1>6, <1>7 DEF Inv, TurnsOK
    <2>4. \A th \in Threads : active'[th] # None => active'[th] \in Begun'
        BY <1>2, <1>3 DEF Inv, TurnsOK, tables
    <2>5. completed[n] = None
        BY <1>2, <1>8 DEF Inv, TurnsOK, NoTurn
    <2>6. \A m \in Turns : completed'[m] # None =>
              turn'[m].end # None /\ completed'[m] = prompt_result(turn'[m].end)
        BY <1>3, <1>6, <2>5 DEF Inv, TurnsOK, tables
    <2> QED BY <2>1, <2>2, <2>3, <2>4, <2>6 DEF TurnsOK
<1>15. LinesOK'
    BY <1>8, <1>10, LinesGrow DEF Inv
<1>16. EndsOK'
    <2>1. SUFFICES ASSUME NEW m \in Begun', turn'[m].end # None,
                          call'[turn'[m].by].pc \in {"sent", "answered", "waiting"}
                   PROVE  EndKnown(m)' \/ (completed'[m] # None /\ call'[turn'[m].by].pc # "waiting")
        BY DEF EndsOK
    <2>2. m \in Begun /\ turn'[m] = turn[m]
        BY <1>2, <1>5, <1>6, <1>7, <2>1
    <2>3. EndKnown(m) => EndKnown(m)'
        BY <1>8 DEF EndKnown
    <2> QED BY <1>3, <2>1, <2>2, <2>3 DEF Inv, EndsOK, tables
<1>17. AskOK'
    BY <1>3, <1>8, <1>10, AskKept
<1>18. ShownIsAnswered'
    <2>1. turn[n].reply = None
        BY <1>8 DEF NoTurn
    <2>2. \A m \in Turns : turn'[m].reply = turn[m].reply
        BY <1>5, <1>6, <2>1
    <2> QED BY <1>3, <2>2, ShownKept
<1> QED BY <1>9, <1>11, <1>12, <1>13, <1>14, <1>15, <1>16, <1>17, <1>18 DEF Inv

-----------------------------------------------------------------------------
(* Every step keeps the invariant. *)

(* What the session server and the daemon ask of the backend. *)
LEMMA ClientInv ==
    ASSUME Inv, Client
    PROVE  Inv'
<1>1. ASSUME NEW th \in Threads, NewSession(th) PROVE Inv'
    BY <1>1, SendInv DEF NewSession
<1>2. ASSUME NEW th \in Threads, SetSessionName(th) PROVE Inv'
    BY <1>2, SendInv DEF SetSessionName
<1>3. ASSUME NEW th \in Threads, Prompt(th) PROVE Inv'
    BY <1>3, SendInv DEF Prompt
<1>4. ASSUME NEW th \in Threads, Cancel(th) PROVE Inv'
    <2>1. Quiet /\ UNCHANGED opened
        BY <1>4 DEF Cancel
    <2>2. CASE active[th] = None
        <3>1. NewCall("cancel", th, None, "done", "ok") /\ UNCHANGED <<pending, inbox>>
            BY <1>4, <2>2 DEF Cancel
        <3> QED BY <2>1, <3>1, NewCallInv
    <2>3. CASE active[th] # None
        <3>1. send_request("cancel", th, active[th])
            BY <1>4, <2>3 DEF Cancel
        <3>2. active[th] \in Begun
            BY <2>3 DEF Inv, TurnsOK
        <3> QED BY <2>1, <3>1, <3>2, SendInv
    <2> QED BY <2>2, <2>3
<1>5. ASSUME NEW c \in Calls, DropName(c) PROVE Inv'
    BY <1>5, DropNameInv
<1>6. CASE Shutdown
    <2>1. TypeOK'
        BY <1>6 DEF Shutdown, Inv, TypeOK, tables, server
    <2> QED BY <1>6, <2>1, IdleInv DEF Shutdown
<1> QED BY <1>1, <1>2, <1>3, <1>4, <1>5, <1>6 DEF Client

(* The reader, the monitor, and the tasks they wake. *)
LEMMA BackendInv ==
    ASSUME Inv, Backend
    PROVE  Inv'
<1>1. CASE ReadLine
    BY <1>1, ReadLineInv
<1>2. CASE ReadEof
    BY <1>2, DrainInv DEF ReadEof, Inv, TypeOK
<1>3. CASE MonitorKills
    <2>1. TypeOK'
        BY <1>3 DEF MonitorKills, Inv, TypeOK, tables, tasks, server
    <2> QED BY <1>3, <2>1, IdleInv DEF MonitorKills
<1>4. CASE MonitorEnds
    BY <1>4, DrainInv DEF MonitorEnds, Inv, TypeOK
<1>5. CASE ShutdownReturns
    <2>1. TypeOK'
        BY <1>5 DEF ShutdownReturns, Inv, TypeOK, tables, server
    <2> QED BY <1>5, <2>1, IdleInv DEF ShutdownReturns
<1>6. ASSUME NEW c \in Calls, PromptAnswered(c) PROVE Inv'
    BY <1>6, PromptAnsweredInv
<1>7. ASSUME NEW n \in Turns, HandleRequest(n) \/ RequestAnswered(n) PROVE Inv'
    BY <1>7, HandleRequestInv, RequestAnsweredInv
<1> QED BY <1>1, <1>2, <1>3, <1>4, <1>5, <1>6, <1>7 DEF Backend

(* The app-server, and the end of its process. *)
LEMMA AppServerInv ==
    ASSUME Inv, AppServer
    PROVE  Inv'
<1>1. ASSUME NEW r \in inbox, ServerTakesTurn(r) \/ ServerInterrupts(r) PROVE Inv'
    BY <1>1, ServerTakesTurnInv, ServerInterruptsInv
<1>2. ASSUME NEW r \in inbox, ServerAnswers(r) PROVE Inv'
    BY <1>2, ServerRepliesInv DEF ServerAnswers
<1>3. ASSUME NEW r \in inbox, ServerRefuses(r) PROVE Inv'
    BY <1>3, ServerRepliesInv DEF ServerRefuses
<1>4. ASSUME NEW n \in Turns, ServerAnswersTurn(n) \/ ServerStartsTurn(n) PROVE Inv'
    BY <1>4, ServerAnswersTurnInv, ServerStartsTurnInv
<1>5. ASSUME NEW n \in Turns, NEW item \in {"update", "request"}, ServerStreams(n, item) PROVE Inv'
    BY <1>5, ServerStreamsInv
<1>6. ASSUME NEW n \in Turns, NEW status \in {"completed", "failed"},
             ServerEndsTurn(n, status) \/ ServerErrs(n)
      PROVE  Inv'
    BY <1>6, ServerEndsInv
<1>7. CASE ServerMutes
    <2>1. TypeOK'
        BY <1>7 DEF ServerMutes, Inv, TypeOK, tables, tasks, server
    <2> QED BY <1>7, <2>1, IdleInv DEF ServerMutes
<1>8. CASE ServerExits
    <2>1. TypeOK'
        BY <1>8 DEF ServerExits, Inv, TypeOK, tables, tasks, server
    <2> QED BY <1>8, <2>1, IdleInv DEF ServerExits
<1> QED BY <1>1, <1>2, <1>3, <1>4, <1>5, <1>6, <1>7, <1>8 DEF AppServer

(* A step that changes nothing keeps it as well. *)
LEMMA NextInv == Inv /\ [Next]_vars => Inv'
<1> SUFFICES ASSUME Inv, [Next]_vars PROVE Inv'
    OBVIOUS
<1>1. CASE Next
    BY <1>1, ClientInv, BackendInv, AppServerInv DEF Next
<1>2. CASE UNCHANGED vars
    <2>1. TypeOK'
        BY <1>2 DEF vars, Inv, TypeOK, tables, tasks, server
    <2> QED BY <1>2, <2>1, IdleInv DEF vars
<1> QED BY <1>1, <1>2

-----------------------------------------------------------------------------
(* The inductive invariant holds in every behaviour, fair or not. *)
THEOREM Invariance == Spec => []Inv
<1> QED BY InitInv, NextInv, PTL DEF Spec

(* Every variable of the backend has its type (CodexAppServerAgent). *)
THEOREM TypeCorrect == Spec => []TypeOK
<1>1. Inv => TypeOK
    BY DEF Inv
<1> QED BY <1>1, Invariance, PTL

(* pending_requests and turn_waiters hold exactly the calls that wait:      *)
(* whatever order the answers, the timeouts, the failed writes and the end  *)
(* of the process come in, nothing is left behind and nothing is dropped.   *)
THEOREM TablesExact == Spec => []TablesHoldWaiters
<1>1. Inv => TablesHoldWaiters
    BY DEF Inv
<1> QED BY <1>1, Invariance, PTL

(* A prompt returns the result of the turn that it started itself, whether  *)
(* the turn's end was read before or after the answer to turn/start.        *)
THEOREM OwnResult == Spec => []ResultIsOwn
<1>1. Inv => ResultIsOwn
    BY DEF Inv, CallOK, ResultIsOwn
<1> QED BY <1>1, Invariance, PTL

(* While a prompt waits in turn_waiters, its turn runs or the reader has    *)
(* still to read that it ended: the look at completed_turns and the         *)
(* registration leave no gap for the notification to fall into.             *)
THEOREM NoCompletionMissed == Spec => []NoLostTurn
<1>1. ASSUME Inv PROVE NoLostTurn
    <2>1. SUFFICES ASSUME NEW c \in Calls, call[c].pc = "waiting", turn[call[c].turn].end # None
                   PROVE  \E i \in 1..Len(stdout) :
                             stdout[i].kind = "ended" /\ stdout[i].turn = call[c].turn
        BY DEF NoLostTurn
    <2>2. call[c].turn \in Begun /\ turn[call[c].turn].by = c
        BY <1>1, <2>1 DEF Inv, CallOK
    <2>3. EndKnown(call[c].turn)
        BY <1>1, <2>1, <2>2 DEF Inv, EndsOK
    <2> QED BY <2>3 DEF EndKnown, Lines, Elems
<1> QED BY <1>1, Invariance, PTL

(* What clients are told of a request is what the server was told, and a    *)
(* daemon set to decline never grants one (handle_server_request).          *)
THEOREM ShownWasAnswered == Spec => []ShownIsAnswered
<1>1. Inv => ShownIsAnswered
    BY DEF Inv
<1> QED BY <1>1, Invariance, PTL

=============================================================================
