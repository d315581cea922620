-------------------------- MODULE UBootConsole_proofs --------------------------
(* The recovery console, for a serial line that holds any number of writes.   *)
EXTENDS UBootConsole, TLAPS

Items == Commands \cup {"&", "CR"}

\* What reading and writing the line does to what is in it.
LEMMA TailIs ==
  ASSUME NEW s \in Seq(Items), s # <<>>
  PROVE  /\ Tail(s) \in Seq(Items) /\ Len(Tail(s)) = Len(s) - 1
         /\ \A i \in 1..Len(Tail(s)) : Tail(s)[i] = s[i + 1]
         /\ Head(s) = s[1] /\ Head(s) \in Items /\ Len(s) \in Nat \ {0}
OBVIOUS

LEMMA AppendIs ==
  ASSUME NEW s \in Seq(Items), NEW x \in Items
  PROVE  /\ Append(s, x) \in Seq(Items) /\ Len(Append(s, x)) = Len(s) + 1
         /\ \A i \in 1..Len(s) : Append(s, x)[i] = s[i]
         /\ Append(s, x)[Len(s) + 1] = x /\ Len(s) \in Nat
OBVIOUS

-----------------------------------------------------------------------------
FlagsOK ==
  got \in BOOLEAN /\ stop \in BOOLEAN /\ line \in BOOLEAN /\ glued \in BOOLEAN
  /\ resumed \in BOOLEAN /\ overran \in BOOLEAN

LEMMA FlagsStep == FlagsOK /\ [Next]_vars => FlagsOK'
<1> SUFFICES ASSUME FlagsOK, [Next]_vars PROVE FlagsOK'
  OBVIOUS
<1> USE DEF FlagsOK, switch, host
<1>1. CASE CatchStep
  BY <1>1, Zenon
    DEF CatchStep, Open, TelnetReboot, StartSpammer, WaitOver, Join, Check, Flush, Drain
<1>2. CASE Command \/ Collect \/ Close
  BY <1>2, Zenon DEF Command, Collect, Close
<1>3. CASE Look \/ Spam
  BY <1>3, Zenon DEF Look, Spam
<1>4. CASE Read \/ Found
  <2>1. got' = TRUE \/ got' = got
    BY <1>4, Zenon DEF Read, Found
  <2>2. stop' = TRUE \/ stop' = stop
    BY <1>4, Zenon DEF Read, Found
  <2>3. line' = line /\ glued' = glued /\ resumed' = resumed /\ overran' = overran
    BY <1>4, Zenon DEF Read, Found
  <2> QED
    BY <2>1, <2>2, <2>3, Zenon
<1>5. CASE Interrupted \/ BootsUp \/ Echo \/ Types
  BY <1>5, Zenon DEF Interrupted, BootsUp, Echo, Types
<1>6. CASE Enters
  <2>1. resumed' = TRUE \/ resumed' = resumed
    BY <1>6, Zenon DEF Enters
  <2>2. line' = FALSE /\ got' = got /\ stop' = stop /\ overran' = overran
    BY <1>6, Zenon DEF Enters
  <2>3. glued' \in BOOLEAN
    BY <1>6, Zenon DEF Enters
  <2> QED
    BY <2>1, <2>2, <2>3, Zenon
<1>7. CASE UNCHANGED vars
  BY <1>7, Zenon DEF vars
<1> QED
  BY <1>1, <1>2, <1>3, <1>4, <1>5, <1>6, <1>7 DEF Next, DeviceStep

-----------------------------------------------------------------------------
\* The callers before the flush: they have not written to the line themselves.
Before == {"closed", "telnet", "start", "wait", "join", "check", "flush", "failed"}

\* The rest of TypeOK, with the room the flush needs.
LineOK ==
  /\ caller \in {"closed", "ready", "running", "failed", "gone"} \cup Catching
  /\ reader \in {"off", "read", "found", "ended"}
  /\ spammer \in {"off", "on", "write", "ended"}
  /\ device \in {"up", "booting", "prompt"}
  /\ input \in Seq(Items)
  /\ Len(input) <= MaxQueue + 1
  /\ caller \in Before => Len(input) <= MaxQueue
  /\ output \subseteq Outputs

LEMMA LineStep == LineOK /\ [Next]_vars => LineOK'
<1> SUFFICES ASSUME LineOK, [Next]_vars PROVE LineOK'
  OBVIOUS
<1> USE QueueAssumption DEF LineOK, Before, Catching, Outputs, switch, host
<1>1. CASE CatchStep
  <2>1. CASE Flush
    BY <2>1, AppendIs DEF Flush, Flushed, Items
  <2> QED
    BY <1>1, <2>1 DEF CatchStep, Open, Drained, TelnetReboot, StartSpammer, WaitOver, Join, Check,
         Drain
<1>2. CASE Command
  BY <1>2, AppendIs DEF Command, Items
<1>3. CASE Collect \/ Close
  BY <1>3 DEF Collect, Close
<1>4. CASE Look \/ Read \/ Found
  BY <1>4 DEF Look, Read, Found
<1>5. CASE Spam
  BY <1>5, AppendIs DEF Spam, Items
<1>6. CASE BootsUp
  BY <1>6 DEF BootsUp, Sends
<1>7. CASE Interrupted \/ Echo \/ Types \/ Enters
  <2>1. input # <<>> /\ input' = Tail(input) /\ UNCHANGED host
    BY <1>7 DEF Interrupted, Echo, Types, Enters
  <2>2. device' \in {"up", "booting", "prompt"}
    BY <1>7 DEF Interrupted, Echo, Types, Enters
  <2>3. output' \subseteq Outputs
    BY <1>7 DEF Interrupted, Echo, Types, Enters, Sends
  <2>4. input' \in Seq(Items) /\ Len(input') = Len(input) - 1 /\ Len(input) \in Nat
    BY <2>1, TailIs
  <2> QED
    BY <2>1, <2>2, <2>3, <2>4
<1>8. CASE UNCHANGED vars
  BY <1>8 DEF vars
<1> QED
  BY <1>1, <1>2, <1>3, <1>4, <1>5, <1>6, <1>7, <1>8 DEF Next, DeviceStep

LEMMA InitOK == Init => LineOK /\ FlagsOK
<1>1. Init => LineOK
  BY QueueAssumption DEF Init, LineOK, Before, Catching, Outputs
<1>2. Init => FlagsOK
  BY Zenon DEF Init, FlagsOK
<1> QED
  BY <1>1, <1>2

\* Type correctness of the console: the line never holds more than its bound.
THEOREM TypeCorrect == Spec => []TypeOK
<1>1. (LineOK /\ FlagsOK) /\ [Next]_vars => (LineOK /\ FlagsOK)'
  BY LineStep, FlagsStep
<1>2. LineOK /\ FlagsOK => TypeOK
  BY DEF LineOK, FlagsOK, TypeOK, Items
<1> QED
  BY <1>1, <1>2, InitOK, PTL DEF Spec

-----------------------------------------------------------------------------
\* The prompt was caught by the reader, which reads no more; the caller relies
\* on it from the check on.
CaughtInv ==
  /\ got => reader \in {"found", "ended"}
  /\ caller \in {"flush", "drain", "ready", "running"} => got
  /\ caller = "closed" => ~got /\ reader = "off"

LEMMA CaughtStep == CaughtInv /\ [Next]_vars => CaughtInv'
<1> SUFFICES ASSUME CaughtInv, [Next]_vars PROVE CaughtInv'
  OBVIOUS
<1> USE DEF CaughtInv, switch, host
<1>1. CASE CatchStep
  BY <1>1
    DEF CatchStep, Open, TelnetReboot, StartSpammer, WaitOver, Join, Check, Caught, Flush, Drain
<1>2. CASE Command \/ Collect \/ Close
  BY <1>2 DEF Command, Collect, Close
<1>3. CASE Look \/ Spam \/ Found
  BY <1>3 DEF Look, Spam, Found
<1>4. CASE Read
  <2>1. \/ got' = TRUE /\ reader' = "found"
        \/ got' = got /\ reader' = reader
    BY <1>4 DEF Read
  <2>2. caller' = caller /\ caller # "closed"
    BY <1>4 DEF Read
  <2>3. CASE got' = TRUE /\ reader' = "found"
    BY <2>2, <2>3
  <2>4. CASE got' = got /\ reader' = reader
    BY <2>2, <2>4, Zenon
  <2> QED
    BY <2>1, <2>3, <2>4
<1>5. CASE DeviceStep
  <2>1. caller' = caller /\ reader' = reader /\ got' = got
    BY <1>5, Zenon DEF DeviceStep, Interrupted, BootsUp, Echo, Types, Enters
  <2> QED
    BY <2>1, Zenon
<1>6. CASE UNCHANGED vars
  BY <1>6 DEF vars
<1> QED
  BY <1>1, <1>2, <1>3, <1>4, <1>5, <1>6 DEF Next

\* Whoever times out and whoever sees the prompt first: caller and reader
\* agree on who reads the line.
THEOREM Sole == Spec => []SoleReader
<1>1. Init => CaughtInv
  BY DEF Init, CaughtInv
<1>2. CaughtInv => SoleReader
  BY DEF CaughtInv, SoleReader
<1> QED
  BY <1>1, <1>2, CaughtStep, PTL DEF Spec

-----------------------------------------------------------------------------
\* What is in the line: nothing but the flood; none of it; a CR that ends it,
\* before which there is no command and after which there is no flood.
OnlyFlood(s) == \A i \in 1..Len(s) : s[i] = "&"
NoFlood(s)   == \A i \in 1..Len(s) : s[i] # "&"
Ended(s) ==
  \E c \in 1..Len(s) :
    /\ s[c] = "CR"
    /\ \A i \in 1..Len(s) : i < c => s[i] \notin Commands
    /\ \A i \in 1..Len(s) : i > c => s[i] # "&"

LEMMA FloodTail ==
  ASSUME NEW s \in Seq(Items), s # <<>>
  PROVE  /\ OnlyFlood(s) => OnlyFlood(Tail(s)) /\ Head(s) = "&"
         /\ NoFlood(s) => NoFlood(Tail(s)) /\ Head(s) # "&"
BY TailIs DEF OnlyFlood, NoFlood

LEMMA EndedTail ==
  ASSUME NEW s \in Seq(Items), s # <<>>, Ended(s)
  PROVE  /\ Head(s) \notin Commands
         /\ Ended(Tail(s)) \/ (Head(s) = "CR" /\ NoFlood(Tail(s)))
<1>1. PICK c \in 1..Len(s) :
        /\ s[c] = "CR"
        /\ \A i \in 1..Len(s) : i < c => s[i] \notin Commands
        /\ \A i \in 1..Len(s) : i > c => s[i] # "&"
  BY DEF Ended
<1>2. CASE c = 1
  <2>1. \A i \in 1..Len(Tail(s)) : i + 1 \in 1..Len(s) /\ i + 1 > c
    BY <1>2, TailIs
  <2>2. NoFlood(Tail(s))
    BY <1>1, <2>1, TailIs DEF NoFlood
  <2>3. Head(s) = "CR"
    BY <1>1, <1>2, TailIs
  <2> QED
    BY <2>2, <2>3 DEF Commands
<1>3. CASE c > 1
  <2>1. c - 1 \in 1..Len(Tail(s)) /\ Tail(s)[c - 1] = "CR"
    BY <1>1, <1>3, TailIs
  <2>2. \A i \in 1..Len(Tail(s)) : i < c - 1 => Tail(s)[i] \notin Commands
    BY <1>1, <1>3, TailIs
  <2>3. \A i \in 1..Len(Tail(s)) : i > c - 1 => Tail(s)[i] # "&"
    BY <1>1, <1>3, TailIs
  <2>4. Head(s) \notin Commands
    BY <1>1, <1>3, TailIs
  <2> QED
    BY <2>1, <2>2, <2>3, <2>4 DEF Ended
<1> QED
  BY <1>2, <1>3, TailIs

LEMMA FloodAppend ==
  ASSUME NEW s \in Seq(Items), NEW x \in Items
  PROVE  /\ OnlyFlood(s) /\ x = "&" => OnlyFlood(Append(s, x))
         /\ NoFlood(s) /\ x # "&" => NoFlood(Append(s, x))
<1>1. \A i \in 1..Len(Append(s, x)) : i \in 1..Len(s) \/ i = Len(s) + 1
  BY AppendIs
<1> QED
  BY <1>1, AppendIs DEF OnlyFlood, NoFlood

LEMMA EndedAppend ==
  ASSUME NEW s \in Seq(Items), NEW x \in Items
  PROVE  /\ Ended(s) /\ x # "&" => Ended(Append(s, x))
         /\ OnlyFlood(s) /\ x = "CR" => Ended(Append(s, x))
<1>1. \A i \in 1..Len(Append(s, x)) : i \in 1..Len(s) \/ i = Len(s) + 1
  BY AppendIs
<1>2. ASSUME Ended(s), x # "&" PROVE Ended(Append(s, x))
  <2>1. PICK c \in 1..Len(s) :
          /\ s[c] = "CR"
          /\ \A i \in 1..Len(s) : i < c => s[i] \notin Commands
          /\ \A i \in 1..Len(s) : i > c => s[i] # "&"
    BY <1>2 DEF Ended
  <2>2. c \in 1..Len(Append(s, x)) /\ Append(s, x)[c] = "CR"
    BY <2>1, AppendIs
  <2>3. \A i \in 1..Len(Append(s, x)) : i < c => Append(s, x)[i] \notin Commands
    BY <1>1, <2>1, AppendIs
  <2>4. \A i \in 1..Len(Append(s, x)) : i > c => Append(s, x)[i] # "&"
    BY <1>1, <1>2, <2>1, AppendIs
  <2> QED
    BY <2>2, <2>3, <2>4 DEF Ended
<1>3. ASSUME OnlyFlood(s), x = "CR" PROVE Ended(Append(s, x))
  <2> DEFINE c == Len(s) + 1
  <2>1. c \in 1..Len(Append(s, x)) /\ Append(s, x)[c] = "CR"
    BY <1>3, AppendIs
  <2>2. \A i \in 1..Len(Append(s, x)) : i < c => Append(s, x)[i] \notin Commands
    <3>1. \A i \in 1..Len(s) : Append(s, x)[i] = "&"
      BY <1>3, AppendIs DEF OnlyFlood
    <3>2. ASSUME NEW i \in 1..Len(Append(s, x)), i < c PROVE Append(s, x)[i] = "&"
      <4>1. i \in 1..Len(s)
        BY <3>2, AppendIs
      <4> QED
        BY <3>1, <4>1
    <3> QED
      BY <3>2 DEF Commands
  <2>3. \A i \in 1..Len(Append(s, x)) : i <= c
    BY <1>1, Len(s) \in Nat
  <2>4. \A i \in 1..Len(Append(s, x)) : ~(i > c)
    BY <2>3, Len(s) \in Nat
  <2> QED
    BY <2>1, <2>2, <2>4 DEF Ended
<1> QED
  BY <1>2, <1>3

-----------------------------------------------------------------------------
\* U-Boot has the flood behind it, or will have at the next CR.
Settled == (~line /\ NoFlood(input)) \/ Ended(input)

\* The spammer writes only while it is waited for, or it has outlived the join;
\* if it has not, the caller's CR follows all it wrote; and a switch that was
\* caught stays at its prompt until it is told to boot, by when the flood is over.
SpamInv ==
  /\ spammer \in {"on", "write"} => caller \in {"wait", "join"} \/ overran
  /\ caller \in {"closed", "telnet", "start"} => spammer = "off"
PromptInv ==
  /\ caller = "closed" => device # "booting"
  /\ (got \/ "prompt" \in output) /\ caller # "closed" /\ ~resumed => device = "prompt"
FloodInv ==
  caller \in Before => OnlyFlood(input) /\ ~resumed
CleanInv ==
  ~overran =>
  /\ caller \in {"drain", "ready", "running"} => Settled
  /\ caller = "gone" => OnlyFlood(input) \/ (Settled /\ (resumed \/ device = "prompt"))
  /\ resumed => ~line /\ NoFlood(input) /\ device # "prompt"
  /\ ~glued

LEMMA SpamStep == SpamInv /\ [Next]_vars => SpamInv'
<1> SUFFICES ASSUME SpamInv, [Next]_vars PROVE SpamInv'
  OBVIOUS
<1> USE DEF SpamInv, switch, host
<1>1. CASE CatchStep
  BY <1>1
    DEF CatchStep, Open, TelnetReboot, StartSpammer, WaitOver, Join, Joined, Check, Flush, Drain
<1>2. CASE Command \/ Collect \/ Close
  BY <1>2 DEF Command, Collect, Close
<1>3. CASE Look \/ Spam \/ Read \/ Found
  BY <1>3 DEF Look, Spam, Read, Found
<1>4. CASE DeviceStep
  BY <1>4 DEF DeviceStep, Interrupted, BootsUp, Echo, Types, Enters
<1>5. CASE UNCHANGED vars
  BY <1>5 DEF vars
<1> QED
  BY <1>1, <1>2, <1>3, <1>4, <1>5 DEF Next

LEMMA FloodStep ==
  ASSUME LineOK, SpamInv, FloodInv, [Next]_vars
  PROVE  FloodInv'
<1> USE DEF LineOK, FloodInv, Before, Catching, switch, host
<1>1. CASE CatchStep
  BY <1>1 DEF CatchStep, Open, TelnetReboot, StartSpammer, WaitOver, Join, Check, Flush, Drain
<1>2. CASE Command \/ Collect \/ Close
  BY <1>2 DEF Command, Collect, Close
<1>3. CASE Look \/ Read \/ Found \/ BootsUp
  BY <1>3 DEF Look, Read, Found, BootsUp
<1>4. CASE Spam
  <2>1. OnlyFlood(input) => OnlyFlood(input')
    BY <1>4, FloodAppend DEF Spam, Items
  <2> QED
    BY <1>4, <2>1 DEF Spam
<1>5. CASE Interrupted \/ Echo \/ Types \/ Enters
  <2>1. input # <<>> /\ input' = Tail(input) /\ caller' = caller
    BY <1>5 DEF Interrupted, Echo, Types, Enters
  <2>2. OnlyFlood(input) => OnlyFlood(input') /\ Head(input) = "&"
    BY <2>1, FloodTail
  <2>3. OnlyFlood(input) => resumed' = resumed
    BY <1>5, <2>2 DEF Interrupted, Echo, Types, Enters
  <2> QED
    BY <2>1, <2>2, <2>3
<1>6. CASE UNCHANGED vars
  BY <1>6 DEF vars
<1> QED
  BY <1>1, <1>2, <1>3, <1>4, <1>5, <1>6 DEF Next, DeviceStep

LEMMA PromptStep ==
  ASSUME LineOK, CaughtInv, PromptInv, FloodInv, [Next]_vars
  PROVE  PromptInv'
<1> USE DEF LineOK, PromptInv, switch, host
<1>1. CASE Open
  BY <1>1 DEF Open, Drained, CaughtInv
<1>2. CASE TelnetReboot
  BY <1>2 DEF TelnetReboot
<1>3. CASE StartSpammer \/ WaitOver \/ Join \/ Check \/ Flush \/ Drain
  BY <1>3 DEF StartSpammer, WaitOver, Join, Check, Flush, Drain
<1>4. CASE Command \/ Collect \/ Close
  BY <1>4 DEF Command, Collect, Close
<1>5. CASE Look \/ Spam \/ Found
  BY <1>5 DEF Look, Spam, Found
<1>6. CASE Read
  BY <1>6 DEF Read
<1>7. CASE Interrupted \/ BootsUp \/ Echo \/ Types
  BY <1>7 DEF Interrupted, BootsUp, Echo, Types, Sends
<1>8. CASE Enters
  <2>1. caller \notin Before
    BY <1>8, FloodTail DEF Enters, FloodInv
  <2> QED
    BY <1>8, <2>1 DEF Enters, Sends, Before
<1>9. CASE UNCHANGED vars
  BY <1>9 DEF vars
<1> QED
  BY <1>1, <1>2, <1>3, <1>4, <1>5, <1>6, <1>7, <1>8, <1>9 DEF Next, CatchStep, DeviceStep

LEMMA CleanStep ==
  ASSUME LineOK, CaughtInv, SpamInv, PromptInv, FloodInv, CleanInv, [Next]_vars
  PROVE  CleanInv'
<1> SUFFICES ASSUME ~overran' PROVE CleanInv'
  BY DEF CleanInv
<1>0. ~overran
  BY Zenon DEF Next, CatchStep, Open, TelnetReboot, StartSpammer, WaitOver, Join, Check, Flush,
    Drain, Command, Collect, Close, Look, Spam, Read, Found, DeviceStep, Interrupted, BootsUp,
    Echo, Types, Enters, vars
<1> USE <1>0 DEF LineOK, FloodInv, CleanInv, Before, Catching, switch, host
<1>1. CASE Open \/ TelnetReboot \/ StartSpammer \/ WaitOver \/ Join \/ Check \/ Drain
  BY <1>1 DEF Open, TelnetReboot, StartSpammer, WaitOver, Join, Check, Drain, Settled
<1>2. CASE Flush
  <2>1. Ended(input')
    BY <1>2, EndedAppend DEF Flush, Flushed, Items
  <2> QED
    BY <1>2, <2>1 DEF Flush, Settled
<1>3. CASE Command
  <2>1. PICK c \in Commands : input' = Append(input, c)
    BY <1>3 DEF Command
  <2>2. c \in Items /\ c # "&"
    BY DEF Items, Commands
  <2>3. Settled'
    BY <1>3, <2>1, <2>2, FloodAppend, EndedAppend DEF Command, Settled
  <2> QED
    BY <1>3, <2>3 DEF Command
<1>4. CASE Collect
  BY <1>4 DEF Collect, Settled
<1>5. CASE Close
  BY <1>5 DEF Close, Settled, CaughtInv, PromptInv
<1>6. CASE Look \/ Read \/ Found
  BY <1>6 DEF Look, Read, Found, Settled
<1>7. CASE Spam
  <2>1. OnlyFlood(input')
    BY <1>7, FloodAppend DEF Spam, SpamInv, Items
  <2> QED
    BY <1>7, <2>1 DEF Spam, SpamInv
<1>8. CASE BootsUp
  BY <1>8 DEF BootsUp, Settled, CaughtInv, PromptInv
<1>9. CASE Interrupted \/ Echo \/ Types \/ Enters
  <2>1. input # <<>> /\ input' = Tail(input) /\ caller' = caller
    BY <1>9 DEF Interrupted, Echo, Types, Enters
  <2>2. /\ OnlyFlood(input) => OnlyFlood(input') /\ Head(input) = "&"
        /\ NoFlood(input) => NoFlood(input') /\ Head(input) # "&"
    BY <2>1, FloodTail
  <2>3. Ended(input) => /\ Head(input) \notin Commands
                        /\ Ended(input') \/ (Head(input) = "CR" /\ NoFlood(input'))
    BY <2>1, EndedTail
  <2>4. Head(input) \in Items
    BY <2>1, TailIs
  <2>5. caller \in {"drain", "ready", "running"} => resumed \/ device = "prompt"
    BY DEF CaughtInv, PromptInv
  <2>6. CASE Interrupted
    BY <2>1, <2>2, <2>3, <2>5, <2>6 DEF Interrupted, Settled
  <2>7. CASE Echo
    BY <2>1, <2>2, <2>3, <2>5, <2>7 DEF Echo, Settled
  <2>8. CASE Types
    BY <2>1, <2>2, <2>3, <2>5, <2>8 DEF Types, Settled
  <2>9. CASE Enters
    BY <2>1, <2>2, <2>3, <2>4, <2>5, <2>9 DEF Enters, Settled, Items, Commands
  <2> QED
    BY <1>9, <2>6, <2>7, <2>8, <2>9
<1>10. CASE UNCHANGED vars
  BY <1>10 DEF vars, Settled
<1> QED
  BY <1>1, <1>2, <1>3, <1>4, <1>5, <1>6, <1>7, <1>8, <1>9, <1>10 DEF Next, CatchStep, DeviceStep

LEMMA ConsoleStep ==
  LineOK /\ CaughtInv /\ SpamInv /\ PromptInv /\ FloodInv /\ CleanInv /\ [Next]_vars
    => (LineOK /\ CaughtInv /\ SpamInv /\ PromptInv /\ FloodInv /\ CleanInv)'
BY LineStep, CaughtStep, SpamStep, FloodStep, PromptStep, CleanStep

LEMMA ConsoleInit ==
  Init => LineOK /\ CaughtInv /\ SpamInv /\ PromptInv /\ FloodInv /\ CleanInv
<1>1. Init => CaughtInv /\ SpamInv /\ PromptInv
  BY DEF Init, CaughtInv, SpamInv, PromptInv
<1>2. Init => FloodInv /\ CleanInv
  BY DEF Init, FloodInv, CleanInv, Before, OnlyFlood
<1> QED
  BY <1>1, <1>2, InitOK

\* No command is glued to the flood, however late its last '&' is written within
\* the 2 s the caller gives the spammer to end.
THEOREM Clean == Spec => []CommandsAreClean
<1>1. CleanInv => CommandsAreClean
  BY DEF CleanInv, CommandsAreClean
<1> QED
  BY <1>1, ConsoleInit, ConsoleStep, PTL DEF Spec

\* Whoever is let through by catch_uboot_prompt talks to U-Boot, whatever an
\* earlier session left in the buffers.
THEOREM AtPrompt == Spec => []ReadyIsPrompt
<1>1. CaughtInv /\ PromptInv => ReadyIsPrompt
  BY DEF CaughtInv, PromptInv, ReadyIsPrompt
<1> QED
  BY <1>1, ConsoleInit, ConsoleStep, PTL DEF Spec

\* Nothing left of the flood interrupts a boot that was resumed, if the
\* spammer ended within its 2 s.
THEOREM Final == Spec => []ResumeIsFinal
<1>1. CleanInv => ResumeIsFinal
  BY DEF CleanInv, ResumeIsFinal
<1> QED
  BY <1>1, ConsoleInit, ConsoleStep, PTL DEF Spec
=============================================================================
