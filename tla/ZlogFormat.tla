----------------------------- MODULE ZlogFormat -----------------------------
(***************************************************************************)
(* How zlog builds the text of a message: the growing buffers of a thread  *)
(* (buf.c), the conversion specifiers of a pattern (spec.c), and the       *)
(* pattern as a whole (format.c).                                          *)
(*                                                                         *)
(* A character is a number.  A pattern is a sequence of specifiers         *)
(*   [w |-> what it writes, min, max |-> widths, left, zero |-> padding,   *)
(*    cache |-> its time cache, fmt |-> its time format, str |-> a text]   *)
(* where min = max = 0 stands for a specifier without a width, which is    *)
(* written to the message buffer without a detour over pre_msg_buf.  The   *)
(* clock runs on, and the process may fork, while a message is built.      *)
(***************************************************************************)
EXTENDS Integers, Sequences, SequencesExt, FiniteSets, FiniteSetsExt

CONSTANTS BufMin, BufMax,    \* "buffer min" and "buffer max" of the configuration
          TruncateStr,       \* what marks a truncated message, "..." and newline
          Patterns,          \* the patterns considered
          Messages,          \* user messages, each a text or a hexadecimal dump
          HexWidth,          \* bytes to a line of a dump, 16 in the code
          MaxMessages, MaxClock, MaxPid        \* bounds of the model

ASSUME FormatAssumption ==
  /\ BufMin \in Nat \ {0} /\ BufMax \in Nat /\ (BufMax = 0 \/ BufMax >= BufMin)
  /\ HexWidth \in Nat \ {0} /\ MaxMessages \in Nat /\ MaxClock \in Nat /\ MaxPid \in Nat

VARIABLES pattern,           \* the pattern of the rule
          msg_buf, pre_msg_buf,
          event,             \* what zlog_event_set_fmt fixed, and the caches
          place,             \* next specifier, 0 when no message is being built
          wrote,             \* for the properties: what each specifier should read
          result,            \* of the last zlog_format_gen_msg: 0, -1, or 9 before any
          built, clock, pid  \* messages so far, the time in seconds, getpid()

fmtVars == <<pattern, msg_buf, pre_msg_buf, event, place, wrote, result, built, clock, pid>>

\* Characters.
Digit(d) == d                \* '0' to 'f'
Space == 20
Newline == 21
Dot == 22
Time(sec, fmt) == 100 + 10 * fmt + sec     \* strftime, by what distinguishes its results
Printable(c) == c < 100
NoText == <<>>               \* a null pointer
NullText == <<23, 24>>       \* "(file=null)"
NullDump == <<25>>           \* "buf=(null)"
HexHead == <<26>>            \* the columns' numbers over a dump

-----------------------------------------------------------------------------
\* buf.c: a buffer holds txt in an allocation of size bytes, one of which is
\* kept for the terminating zero.
NewBuf == [txt |-> <<>>, size |-> BufMin]
Restart(b) == [b EXCEPT !.txt = <<>>]

\* zlog_buf_resize: the new size, and whether the limit stopped it.
Resize(b, increment) ==
  CASE BufMax = 0 -> [size |-> b.size + (3 * increment) \div 2, rc |-> 0]
    [] BufMax # 0 /\ b.size >= BufMax -> [size |-> b.size, rc |-> 1]
    [] BufMax # 0 /\ b.size < BufMax ->
         [size |-> Min({b.size + increment, BufMax}),
          rc |-> IF b.size + increment <= BufMax THEN 0 ELSE 1]

\* zlog_buf_truncate: the end of the text is overwritten.
Truncate(txt) ==
  LET k == Min({Len(txt), Len(TruncateStr)})
  IN  SubSeq(txt, 1, Len(txt) - k) \o SubSeq(TruncateStr, 1, k)

\* zlog_buf_append: the buffer after it, and its return value.
AppendBuf(b, str) ==
  LET room == b.size - 1 - Len(b.txt)
      grown == Resize(b, Len(str) - room)
  IN IF Len(str) <= room
       THEN [buf |-> [b EXCEPT !.txt = @ \o str], rc |-> 0]
       ELSE [buf |-> [txt |-> IF grown.rc = 0 THEN b.txt \o str
                              ELSE Truncate(SubSeq(b.txt \o str, 1, grown.size - 1)),
                      size |-> grown.size],
             rc |-> grown.rc]

\* zlog_buf_vprintf asks vsnprintf for the length first; it measures the room
\* with the terminating zero.
Vprintf(b, str) ==
  LET left == b.size - Len(b.txt)
      grown == Resize(b, Len(str) - left + 1)
  IN IF Len(str) < left
       THEN [buf |-> [b EXCEPT !.txt = @ \o str], rc |-> 0]
       ELSE [buf |-> [txt |-> IF grown.rc = 0 THEN b.txt \o str
                              ELSE Truncate(SubSeq(b.txt \o str, 1, grown.size - 1)),
                      size |-> grown.size],
             rc |-> grown.rc]

\* The digits of n in a base, at most 9 of them.
Digits(n, base) ==
  LET used == CHOOSE k \in 1..9 : n < base^k /\ (k = 1 \/ n >= base^(k - 1))
  IN  [i \in 1..used |-> Digit((n \div base^(used - i)) % base)]
Zeros(width, num) == [i \in 1..Max({width - Len(num), 0}) |-> Digit(0)]

\* zlog_buf_printf_dec32, zlog_buf_printf_dec64; what zlog_buf_printf_hex appends.
PrintfDec32(b, n, width) == AppendBuf(b, Zeros(width, Digits(n, 10)) \o Digits(n, 10))
PrintfDec64(b, n, width) == AppendBuf(b, Zeros(width, Digits(n, 10)) \o Digits(n, 10))
PrintfHex(n, width) == Zeros(width, Digits(n, 16)) \o Digits(n, 16)

\* zlog_buf_adjust_append: cut to the outer width, fill to the inner one.
Adjusted(str, s) ==
  LET source == IF s.max = 0 \/ Len(str) < s.max THEN str ELSE SubSeq(str, 1, s.max)
      space == [i \in 1..Max({s.min - Len(source), 0}) |->
                  IF ~s.left /\ s.zero THEN Digit(0) ELSE Space]
  IN  IF s.left THEN source \o space ELSE space \o source
AdjustAppend(b, str, s) == AppendBuf(b, Adjusted(str, s))

-----------------------------------------------------------------------------
\* spec.c.  Each zlog_spec_write_ function fetches what it needs into the
\* event and appends it to the buffer it is given.

\* The event after the time has been asked for: the stamp is taken once per
\* message, the broken-down time and the text are kept while the second lasts.
Stamped(e) == IF e.stamp = 0 THEN [e EXCEPT !.stamp = clock] ELSE e
Localised_Late(e) == IF e.local_sec # 0 THEN e ELSE [e EXCEPT !.local_sec = e.stamp]
Localised(e) == [e EXCEPT !.local_sec = e.stamp]
TimeFetched(e, s) ==
  LET l == Localised(Stamped(e))
  IN  [l EXCEPT !.caches[s.cache] =
         IF @.sec = l.stamp THEN @ ELSE [sec |-> l.stamp, str |-> Time(l.local_sec, s.fmt)]]

\* The process number is fetched once per message and printed when it differs
\* from the last one.
PidFetched(e) ==
  LET f == IF e.pid = 0 THEN [e EXCEPT !.pid = pid] ELSE e
  IN  IF e.pid = 0 /\ f.pid # e.last_pid
        THEN [f EXCEPT !.last_pid = f.pid, !.pid_str = f.pid] ELSE f

\* The hexadecimal dump of zlog_spec_write_usrmsg: the pieces that are
\* appended one by one.
HexByte(bytes, k) ==
  IF k <= Len(bytes) THEN <<PrintfHex(bytes[k], 2), <<Space>> >> ELSE << <<Space, Space, Space>> >>
HexChar(bytes, k) ==
  IF k > Len(bytes) THEN <<Space>>
  ELSE IF Printable(bytes[k]) THEN <<bytes[k]>> ELSE <<Dot>>
HexLines(bytes) == Max({1, (Len(bytes) + HexWidth - 1) \div HexWidth})
HexLine(bytes, l) ==
  LET base == (l - 1) * HexWidth
  IN  << <<Newline>>, Digits(l, 10), <<Space>> >>
      \o FlattenSeq([k \in 1..HexWidth |-> HexByte(bytes, base + k)])
      \o << <<Space>> >> \o [k \in 1..HexWidth |-> HexChar(bytes, base + k)]
HexPieces(bytes) ==
  IF bytes = NoText THEN <<NullDump>>
  ELSE <<HexHead>> \o FlattenSeq([l \in 1..HexLines(bytes) |-> HexLine(bytes, l)])

\* Appending piece after piece ends at the first one that does not fit.
AppendAll(b, pieces) ==
  FoldLeft(LAMBDA acc, piece : IF acc.rc # 0 THEN acc ELSE AppendBuf(acc.buf, piece),
           [buf |-> b, rc |-> 0], pieces)

\* The event and the text of a specifier, then what its write function does
\* to a buffer.
Fetched(e, s) ==
  CASE s.w = "time" -> TimeFetched(e, s)
    [] s.w = "ms" -> Stamped(e)
    [] s.w = "pid" -> PidFetched(e)
    [] s.w \notin {"time", "ms", "pid"} -> e
WriteBuf(e, s, b) ==
  CASE s.w = "time" -> AppendBuf(b, <<e.caches[s.cache].str>>)
    [] s.w = "ms" -> PrintfDec32(b, e.stamp, 3)
    [] s.w = "pid" -> AppendBuf(b, Digits(e.pid_str, 10))
    [] s.w = "line" -> PrintfDec64(b, e.line, 0)
    [] s.w = "file" -> AppendBuf(b, IF e.file = NoText THEN NullText ELSE e.file)
    [] s.w = "mdc" -> IF e.mdc = NoText THEN [buf |-> b, rc |-> 0] ELSE AppendBuf(b, e.mdc)
    [] s.w = "str" -> AppendBuf(b, s.str)
    [] s.w = "msg" -> IF e.hex THEN AppendAll(b, HexPieces(e.text)) ELSE Vprintf(b, e.text)

\* zlog_spec_gen_msg_direct and zlog_spec_gen_msg_reformat.
Direct(s) == s.min = 0 /\ s.max = 0
GenMsg(e, s) ==
  IF Direct(s) THEN [pre |-> pre_msg_buf, out |-> WriteBuf(e, s, msg_buf)]
  ELSE LET pre == WriteBuf(e, s, Restart(pre_msg_buf))
       IN  [pre |-> pre.buf, out |-> AdjustAppend(msg_buf, pre.buf.txt, s)]

-----------------------------------------------------------------------------
NoEvent == [stamp |-> 0, local_sec |-> 0, caches |-> <<>>, pid |-> 0,
            last_pid |-> 0, pid_str |-> 0, line |-> 0, text |-> <<>>, hex |-> FALSE,
            file |-> <<>>, mdc |-> <<>>]

\* zlog_spec_new, for each part of the pattern in turn: a time specifier gets
\* the next time cache.
TimeSpecs(p) == {i \in 1..Len(p) : p[i].w = "time"}
SpecsNew(p) == [i \in 1..Len(p) |->
                 [p[i] EXCEPT !.cache = Cardinality({k \in TimeSpecs(p) : k <= i})]]

\* zlog_event_new: a cache for each time specifier of the configuration.
EventNew(p) == [NoEvent EXCEPT !.caches =
                  [i \in 1..Cardinality(TimeSpecs(p)) |-> [sec |-> 0, str |-> 0]]]

FmtInit ==
  /\ \E p \in Patterns : pattern = SpecsNew(p)
  /\ msg_buf = NewBuf /\ pre_msg_buf = NewBuf
  /\ event = EventNew(pattern)
  /\ place = 0 /\ wrote = <<>> /\ result = 9
  /\ built = 0 /\ clock = 1 /\ pid = 1

\* zlog_event_set_fmt or zlog_event_set_hex, and the start of
\* zlog_format_gen_msg.
SetEvent(m) ==
  [event EXCEPT !.stamp = 0, !.pid = 0, !.line = m.line, !.text = m.text, !.hex = m.hex,
                !.file = m.file, !.mdc = m.mdc]
Begin(m) ==
  /\ place = 0 /\ built < MaxMessages
  /\ event' = SetEvent(m)
  /\ msg_buf' = Restart(msg_buf)
  /\ place' = 1 /\ wrote' = <<>> /\ result' = 9 /\ built' = built + 1
  /\ UNCHANGED <<pattern, pre_msg_buf, clock, pid>>

\* What a specifier is to write, had the buffers no limit.
Meant(e, s) ==
  CASE s.w = "time" -> <<Time(e.stamp, s.fmt)>>
    [] s.w = "ms" -> Zeros(3, Digits(e.stamp, 10)) \o Digits(e.stamp, 10)
    [] s.w = "pid" -> Digits(pid, 10)
    [] s.w = "line" -> Digits(e.line, 10)
    [] s.w = "file" -> IF e.file = NoText THEN NullText ELSE e.file
    [] s.w = "mdc" -> e.mdc
    [] s.w = "str" -> s.str
    [] s.w = "msg" -> IF e.hex THEN FlattenSeq(HexPieces(e.text)) ELSE e.text
MeantAdjusted(e, s) ==
  LET txt == Meant(e, s)
      cut == IF s.max > 0 /\ Len(txt) > s.max THEN SubSeq(txt, 1, s.max) ELSE txt
      pad == [i \in 1..(s.min - Len(cut)) |-> IF s.zero /\ ~s.left THEN Digit(0) ELSE Space]
  IN  IF Direct(s) THEN txt ELSE IF s.left THEN cut \o pad ELSE pad \o cut

\* One specifier of the pattern: the first that does not fit ends the message.
GenSpec ==
  LET s == pattern[place]
      e == Fetched(event, s)
      g == GenMsg(e, s)
  IN /\ place \in 1..Len(pattern)
     /\ event' = e
     /\ pre_msg_buf' = g.pre
     /\ msg_buf' = g.out.buf
     /\ wrote' = wrote \o MeantAdjusted(e, s)
     /\ place' = IF g.out.rc = 0 THEN place + 1 ELSE 0
     /\ result' = IF g.out.rc = 0 THEN result ELSE -1
     /\ UNCHANGED <<pattern, built, clock, pid>>

GenEnd ==
  /\ place = Len(pattern) + 1
  /\ place' = 0 /\ result' = 0
  /\ UNCHANGED <<pattern, msg_buf, pre_msg_buf, event, wrote, built, clock, pid>>

Tick == /\ clock < MaxClock /\ clock' = clock + 1
        /\ UNCHANGED <<pattern, msg_buf, pre_msg_buf, event, place, wrote, result, built, pid>>

\* The process forks between two messages, and the child logs on.
Fork == /\ place = 0 /\ pid < MaxPid /\ pid' = pid + 1
        /\ UNCHANGED <<pattern, msg_buf, pre_msg_buf, event, place, wrote, result, built, clock>>

FmtNext == (\E m \in Messages : Begin(m)) \/ GenSpec \/ GenEnd \/ Tick \/ Fork

FmtSpec == FmtInit /\ [][FmtNext]_fmtVars

-----------------------------------------------------------------------------
\* The text and the terminating zero of zlog_buf_seal fit in the allocation,
\* and no buffer outgrows the limit of the configuration.
BufsInBounds ==
  \A b \in {msg_buf, pre_msg_buf} :
     Len(b.txt) <= b.size - 1 /\ (BufMax > 0 => b.size <= BufMax)

\* A message that fits is built as the pattern says and not given up: the parts in
\* order, the widths respected, every time in it the time stamp of the message however
\* the clock ran on, and the process number that of the process now logging.
\* (A part with a width is built in pre_msg_buf first: when that one is full
\* the part is cut short there.)
PartsWhole == Len(pre_msg_buf.txt) < BufMax - 1
TextAsMeant ==
  Len(wrote) < BufMax /\ PartsWhole => msg_buf.txt = wrote /\ result # -1

\* A message that does not fit into the largest buffer fills it: the beginning is as
\* meant and the end is the mark (zlog_buf_truncate).  Nothing is said of whether it
\* is written: zlog_format_gen_msg fails on it, though a full buffer is to be a success
\* (format.c:145).
CutAndMarked ==
  Len(wrote) >= BufMax /\ PartsWhole =>
    msg_buf.txt = SubSeq(wrote, 1, BufMax - 1 - Len(TruncateStr)) \o TruncateStr

\* The text of a message is built in bounded buffers either as meant or cut and marked,
\* never something in between (zlog_format_gen_msg, zlog_buf_append, zlog_buf_resize).
MessageBuilt == BufsInBounds /\ TextAsMeant /\ CutAndMarked
=============================================================================
