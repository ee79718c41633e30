------------------------------ MODULE LogTool ------------------------------
(***************************************************************************)
(* One call of bgtask_logs, the MCP tool: its two numbers are decoded, the *)
(* entries of Service.Logs (any list of them) are rendered within          *)
(* max_bytes, and what goes wrong on the way becomes a reply too.          *)
(*                                                                         *)
(* A text is the sequence of the widths of its UTF-8 characters.  A number *)
(* is a JSON number: the digits before its exponent, how many of them come *)
(* after the point, and the exponent.                                      *)
(***************************************************************************)
EXTENDS Integers, Sequences, SequencesExt

CONSTANTS
    MaxDigits,           \* decimal digits of the largest integer; 19 in the code
    MaxExponent,         \* the largest exponent that is looked at; 2^31 - 1 in the code
    MinInt, MaxInt,      \* strconv.IntSize
    MaxTail, DefaultTail,
    MaxMaxBytes, DefaultMaxBytes, MaxEntryBytes,
    Numbers, Beside,     \* the numbers sent, and those sent with another one
    Messages, EntryLists,
    Absent, Refused

ASSUME LogToolAssumption ==
    /\ MaxDigits \in Nat /\ MaxExponent \in Nat
    /\ MinInt \in Int /\ MaxInt \in Nat /\ MaxEntryBytes \in Nat
    /\ MaxTail \in Nat /\ DefaultTail \in 0..MaxTail
    /\ MaxMaxBytes \in Nat /\ DefaultMaxBytes \in 1..MaxMaxBytes
    /\ Numbers \subseteq [negative : BOOLEAN, digits : Seq(0..9), fraction : Nat, exponent : Int]
    /\ Beside \subseteq Numbers /\ Messages \subseteq Seq(1..4)
    /\ EntryLists \subseteq Seq([prefix : Nat, data : Seq(1..4)])
    /\ Absent \notin Numbers /\ Refused \notin Int

(* No number is gigabytes long: what its point and its last zeros do to    *)
(* the exponent never brings one that is out of range back into it.        *)
ASSUME LengthAssumption ==
    \A n \in Numbers :
        n.fraction <= Len(n.digits) /\ Len(n.digits) + MaxDigits <= MaxExponent + 1

VARIABLE tool

(* tail, max: as they were sent, and what they were taken for.             *)
Start == [at |-> "called", tail |-> Absent, max |-> Absent, tailIs |-> DefaultTail,
          maxIs |-> DefaultMaxBytes, entries |-> <<>>, message |-> <<>>,
          text |-> <<>>, lines |-> <<>>, omitted |-> 0]

ToolInit ==
    \E n \in Numbers \cup {Absent}, m \in Beside \cup {Absent} :
       tool \in {[Start EXCEPT !.tail = n, !.max = m], [Start EXCEPT !.tail = m, !.max = n]}

-----------------------------------------------------------------------------
(* exactJSONInteger *)

ValueOf(digits) == FoldLeft(LAMBDA v, d : 10 * v + d, 0, digits)

Zeros(k) == [i \in 1..k |-> 0]

PowerOf10(k) == ValueOf(<<1>> \o Zeros(k))

ASSUME DigitsAssumption ==
    /\ MaxInt < PowerOf10(MaxDigits) /\ -PowerOf10(MaxDigits) < MinInt
    /\ 0 \in MinInt..MaxInt

LastNonZero(digits) == SelectLastInSeq(digits, LAMBDA d : d # 0)

(* Without the zeros at both ends. *)
Trimmed(digits) ==
    IF LastNonZero(digits) = 0 THEN <<>>
    ELSE SubSeq(digits, SelectInSeq(digits, LAMBDA d : d # 0), LastNonZero(digits))

Scale(n) == n.exponent - n.fraction + Len(n.digits) - LastNonZero(n.digits)

Signed(n, v) == IF n.negative THEN -v ELSE v

(* Mutant: a fraction is cut off. *)
ExactJSONInteger_CutsOff(n) ==
    LET trimmed == Trimmed(n.digits)
        value == Signed(n, IF Scale(n) < 0 THEN ValueOf(trimmed) \div PowerOf10(-Scale(n))
                                           ELSE ValueOf(trimmed \o Zeros(Scale(n))))
    IN IF trimmed = <<>> THEN 0
       ELSE IF \/ n.exponent \notin -MaxExponent - 1..MaxExponent
               \/ Len(trimmed) + Scale(n) > MaxDigits
               \/ value \notin MinInt..MaxInt
       THEN Refused ELSE value

ExactJSONInteger(n) ==
    LET trimmed == Trimmed(n.digits)
        value == Signed(n, ValueOf(trimmed \o Zeros(Scale(n))))
    IN IF trimmed = <<>> THEN 0
       ELSE IF \/ n.exponent \notin -MaxExponent - 1..MaxExponent
               \/ Scale(n) < 0
               \/ Len(trimmed) + Scale(n) > MaxDigits
               \/ value \notin MinInt..MaxInt
       THEN Refused ELSE value

IntPointer(n, default) == IF n = Absent THEN default ELSE ExactJSONInteger(n)

-----------------------------------------------------------------------------
(* truncateUTF8Bytes *)

Bytes(text) == FoldLeft(LAMBDA a, b : a + b, 0, text)

Ellipsis == <<3>>

(* The text up to its last character that starts at or before that byte.   *)
UpTo(text, byte) ==
    LET at(k) == Bytes(SubSeq(text, 1, k)) IN
    SubSeq(text, 1, CHOOSE k \in 0..Len(text) :
                       at(k) <= byte /\ (k < Len(text) => at(k + 1) > byte))

(* Mutant: the ellipsis is not counted. *)
TruncateUTF8Bytes_Longer(text, max) ==
    IF max <= 0 THEN <<>>
    ELSE IF Bytes(text) <= max THEN text
    ELSE UpTo(text, max) \o Ellipsis

TruncateUTF8Bytes(text, max) ==
    IF max <= 0 THEN <<>>
    ELSE IF Bytes(text) <= max THEN text
    ELSE IF max < Bytes(Ellipsis) THEN [k \in 1..max |-> 1]
    ELSE UpTo(text, max - Bytes(Ellipsis)) \o Ellipsis

-----------------------------------------------------------------------------
(* renderLogs: from the newest entry back, until one does not fit. *)

LineBytes(e) == e.prefix + Bytes(TruncateUTF8Bytes(e.data, MaxEntryBytes - e.prefix))

(* Mutant: the separators are not counted. *)
AddLine_NoSeparator(acc, e, max) ==
    IF acc.full \/ acc.total + LineBytes(e) > max THEN [acc EXCEPT !.full = TRUE]
    ELSE [acc EXCEPT !.lines = <<LineBytes(e)>> \o @, !.total = @ + LineBytes(e)]

AddLine(acc, e, max) ==
    LET bytes == LineBytes(e) + IF acc.lines = <<>> THEN 0 ELSE 1 IN
    IF acc.full \/ acc.total + bytes > max THEN [acc EXCEPT !.full = TRUE]
    ELSE [acc EXCEPT !.lines = <<LineBytes(e)>> \o @, !.total = @ + bytes]

RenderLogs(entries, max) ==
    FoldLeft(LAMBDA acc, e : AddLine(acc, e, max),
             [lines |-> <<>>, total |-> 0, full |-> FALSE], Reverse(entries)).lines

-----------------------------------------------------------------------------
(* The handler *)

Goes(s, t) == tool.at = s /\ tool' = [t EXCEPT !.tail = Absent, !.max = Absent]

(* decodeLogsInput *)
Decode ==
    LET t == [tool EXCEPT !.tailIs = IntPointer(tool.tail, DefaultTail),
                          !.maxIs = IntPointer(tool.max, DefaultMaxBytes)]
    IN /\ tool.at = "called"
       /\ tool' = [t EXCEPT !.at = IF Refused \in {t.tailIs, t.maxIs} THEN "invalid"
                                                                      ELSE "decoded"]

(* A call that cannot be decoded, or names no task, is answered within     *)
(* max_bytes, or within the default if that is no limit.                   *)
Invalid ==
    \E s \in {"invalid", "decoded"} :
        Goes(s, [tool EXCEPT !.at = "failed", !.tailIs = DefaultTail,
                    !.maxIs = IF @ \in 1..MaxMaxBytes THEN @ ELSE DefaultMaxBytes])

(* The one error that keeps to no limit. *)
BadMaxBytes ==
    /\ tool.maxIs \notin 1..MaxMaxBytes
    /\ Goes("decoded", [tool EXCEPT !.at = "no limit"])

BadTail ==
    /\ tool.maxIs \in 1..MaxMaxBytes /\ tool.tailIs \notin 0..MaxTail
    /\ Goes("decoded", [tool EXCEPT !.at = "failed"])

(* Service.Logs returns entries, tailIs at most, or an error. *)
Logs(entries) ==
    /\ tool.maxIs \in 1..MaxMaxBytes /\ tool.tailIs \in 0..MaxTail
    /\ \/ Len(entries) <= tool.tailIs
          /\ Goes("decoded", [tool EXCEPT !.at = "read", !.entries = entries])
       \/ Goes("decoded", [tool EXCEPT !.at = "failed"])

Render ==
    LET lines == RenderLogs(tool.entries, tool.maxIs)
        omitted == Len(tool.entries) - Len(lines)
        t == [tool EXCEPT !.lines = lines, !.omitted = omitted]
    IN IF lines = <<>> THEN Goes("read", [t EXCEPT !.at = "nothing"])
                       ELSE Goes("read", [t EXCEPT !.at = "replied"])

(* An error's message, or why nothing is shown. *)
Say(message) ==
    \E s \in {"failed", "nothing"} :
        Goes(s, [tool EXCEPT !.at = "replied", !.message = message,
                             !.text = TruncateUTF8Bytes(message, tool.maxIs)])

ToolNext ==
    \/ Decode \/ Invalid \/ BadMaxBytes \/ BadTail \/ Render
    \/ \E entries \in EntryLists : Logs(entries)
    \/ \E message \in Messages : Say(message)

ToolSpec == ToolInit /\ [][ToolNext]_tool

-----------------------------------------------------------------------------
(* An integer is taken for what it is however it is written (100, 1e2,     *)
(* 100.0, 1000e-1), and nothing else is taken for an integer: no fraction  *)
(* is rounded and nothing overflows.                                       *)
NumbersExact ==
    \A x \in {<<tool.tail, tool.tailIs>>, <<tool.max, tool.maxIs>>} :
        LET n == x[1]
            v == x[2]
            places == n.fraction - n.exponent
            unit == PowerOf10(IF places > 0 THEN places ELSE 0)
            written == Signed(n, ValueOf(n.digits)) * PowerOf10(IF places > 0 THEN 0 ELSE -places)
        IN n # Absent /\ tool.at \in {"decoded", "invalid"} =>
              IF v = Refused THEN \A i \in MinInt..MaxInt : i * unit # written
                             ELSE v * unit = written

(* A text that is cut stays within its bytes, ends between two characters, *)
(* and keeps as many of them as fit before the ellipsis.                   *)
CutsBetweenCharacters ==
    LET max == tool.maxIs
        kept == Len(tool.text) - 1
    IN tool.at = "replied" /\ tool.lines = <<>> =>
        /\ Bytes(tool.text) <= max
        /\ Bytes(tool.message) <= max => tool.text = tool.message
        /\ Bytes(tool.message) > max /\ max >= 3 =>
             /\ tool.text = SubSeq(tool.message, 1, kept) \o Ellipsis
             /\ Bytes(SubSeq(tool.message, 1, kept + 1)) + 3 > max

(* The reply is within max_bytes, shows the newest entries and as many of  *)
(* them as fit, and says how many older ones it leaves out.                *)
RendersTheNewest ==
    LET size == Len(tool.entries)
        newest(k) == [j \in 1..k |-> LineBytes(tool.entries[size - k + j])]
        joined(lines) == Bytes(lines) + Len(lines) - 1
        returned == Len(tool.lines)
    IN tool.at \in {"nothing", "replied"} =>
        /\ tool.lines = newest(returned) /\ tool.omitted = size - returned
        /\ returned > 0 => joined(tool.lines) <= tool.maxIs
        /\ returned < size => joined(newest(returned + 1)) > tool.maxIs
=============================================================================
