----------------------------- MODULE UBootConsole -----------------------------
(***************************************************************************)
(* The recovery console of serial_console/uboot_access.py: a caller that     *)
(* reboots the switch over Telnet, a spammer thread that floods '&', a       *)
(* reader thread that watches for the U-Boot prompt, and the switch at the   *)
(* other end of the serial line.                                            *)
(*                                                                         *)
(* One UBootConsole, used as the module's main does: caught once, then       *)
(* commands, perhaps resume_boot, and closed.                               *)
(***************************************************************************)
EXTENDS Naturals, Sequences

CONSTANT MaxQueue  \* bound: what is written to the switch and not yet taken

ASSUME QueueAssumption == MaxQueue \in Nat \ {0}

VARIABLES
  caller,      \* closed; of catch_uboot_prompt: telnet, start, wait, join,
               \* check, flush, drain, failed; then ready, running, gone
  reader,      \* off, read, found, ended
  spammer,     \* off, on (at its loop's check), write, ended
  got, stop,   \* the events got_prompt and stop_spam
  device,      \* the switch: up, booting, prompt
  line,        \* is there an unfinished '&' in U-Boot's input line?
  input,       \* what was written to the serial line: "&", "CR", commands
  output,      \* what the switch has sent and nobody read, in any order
  glued,       \* did U-Boot take a '&' for part of a command?
  resumed,     \* has it been told to resume its boot?
  overran      \* history: did the spammer outlive the 2 s of its join?

host   == <<caller, reader, spammer, got, stop>>
switch == <<device, line, glued, resumed>>
vars   == <<host, switch, input, output, overran>>

Commands == {"show", "run bootcmd"}
Outputs  == {"log", "echo", "prompt", "answer"}

Init ==
  /\ caller = "closed" /\ reader = "off" /\ spammer = "off"
  /\ got = FALSE /\ stop = FALSE
  /\ device \in {"up", "prompt"} /\ line \in BOOLEAN
  /\ input = <<>> /\ output \in SUBSET {"log", "echo", "prompt"}
  /\ glued = FALSE /\ resumed = FALSE /\ overran = FALSE

\* Plausible bugs, for the mutation runs: what an earlier session left unread is
\* kept; the caller does not wait for the spammer; takes the end of the flood for
\* the prompt; does not flush the line; ends its line with CRLF.
Undrained    == output
Unjoined     == TRUE
StopIsEnough == stop
NoFlush      == input
CrLf         == input \o <<"CR", "LF">>

-----------------------------------------------------------------------------
(* The caller. *)

\* What is unread when the watching begins: stale input was drained.
Drained == {}

\* The port is opened and the reader started.
Open ==
  /\ caller = "closed"
  /\ output' = Drained
  /\ reader' = "read"
  /\ caller' = "telnet"
  /\ UNCHANGED <<spammer, got, stop, switch, input, overran>>

\* _telnet_reboot: only a switch that is up can be rebooted; a connection that
\* fails raises, and nobody stops the reader.
TelnetReboot ==
  /\ caller = "telnet"
  /\ \/ device = "up" /\ device' = "booting" /\ caller' = "start"
     \/ UNCHANGED device /\ caller' = "failed"
  /\ UNCHANGED <<reader, spammer, got, stop, line, glued, resumed, input, output, overran>>

StartSpammer ==
  /\ caller = "start"
  /\ spammer' = "on"
  /\ caller' = "wait"
  /\ UNCHANGED <<reader, got, stop, switch, input, output, overran>>

\* got_prompt.wait returns, for the event or for the timeout.
WaitOver ==
  /\ caller = "wait"
  /\ stop' = TRUE
  /\ caller' = "join"
  /\ UNCHANGED <<reader, spammer, got, switch, input, output, overran>>

\* The spammer looks at the event every 30 ms and has ended, ...
Joined == spammer = "ended"

\* ... or it was held up for the 2 s of the timeout, and the caller goes on with it
\* alive: t_spam.join does not say which.
Join ==
  /\ caller = "join"
  /\ \/ Joined /\ UNCHANGED overran
     \/ spammer # "ended" /\ overran' = TRUE
  /\ caller' = "check"
  /\ UNCHANGED <<reader, spammer, got, stop, switch, input, output>>

\* Was the prompt caught?
Caught == got

Check ==
  /\ caller = "check"
  /\ caller' = IF Caught THEN "flush" ELSE "failed"
  /\ UNCHANGED <<reader, spammer, got, stop, switch, input, output, overran>>

\* What is in the line once a bare CR was written after the flood.
Flushed == Append(input, "CR")

Flush ==
  /\ caller = "flush"
  /\ input' = Flushed
  /\ caller' = "drain"
  /\ UNCHANGED <<reader, spammer, got, stop, switch, output, overran>>

Drain ==
  /\ caller = "drain"
  /\ output' = {}
  /\ caller' = "ready"
  /\ UNCHANGED <<reader, spammer, got, stop, switch, input, overran>>

\* command: what is unread is dropped, then the command written, ...
Command ==
  /\ caller = "ready" /\ ~resumed /\ Len(input) < MaxQueue
  /\ \E c \in Commands : input' = Append(input, c)
  /\ output' = {}
  /\ caller' = "running"
  /\ UNCHANGED <<reader, spammer, got, stop, switch, overran>>

\* ... and what came until the line was quiet is read.
Collect ==
  /\ caller = "running"
  /\ output' = {}
  /\ caller' = "ready"
  /\ UNCHANGED <<reader, spammer, got, stop, switch, input, overran>>

\* __exit__: the port is closed; a thread that still uses it dies of that.
Close ==
  /\ caller \in {"ready", "running", "failed"}
  /\ caller' = "gone"
  /\ reader' = "ended"
  /\ spammer' = IF spammer = "off" THEN "off" ELSE "ended"
  /\ UNCHANGED <<got, stop, switch, input, output, overran>>

-----------------------------------------------------------------------------
(* The threads. *)

Look ==
  /\ spammer = "on"
  /\ spammer' = IF stop THEN "ended" ELSE "write"
  /\ UNCHANGED <<caller, reader, got, stop, switch, input, output, overran>>

Spam ==
  /\ spammer = "write" /\ Len(input) < MaxQueue
  /\ input' = Append(input, "&")
  /\ spammer' = "on"
  /\ UNCHANGED <<caller, reader, got, stop, switch, output, overran>>

\* A read takes all there is; the prompt in it sets got_prompt, ...
Read ==
  /\ reader = "read" /\ output # {}
  /\ output' = {}
  /\ IF "prompt" \in output
       THEN got' = TRUE /\ reader' = "found"
       ELSE UNCHANGED <<got, reader>>
  /\ UNCHANGED <<caller, spammer, stop, switch, input, overran>>

\* ... then stop_spam, and the reader returns.
Found ==
  /\ reader = "found"
  /\ stop' = TRUE
  /\ reader' = "ended"
  /\ UNCHANGED <<caller, spammer, got, switch, input, output, overran>>

-----------------------------------------------------------------------------
(* The switch. *)

Sends(o) == output' = output \cup o

\* A '&' that arrives while it boots brings up U-Boot's prompt.
Interrupted ==
  /\ device = "booting" /\ input # <<>> /\ Head(input) = "&"
  /\ input' = Tail(input)
  /\ device' = "prompt" /\ line' = FALSE
  /\ Sends({"prompt"})
  /\ UNCHANGED <<host, glued, resumed, overran>>

\* None does: it comes up.
BootsUp ==
  /\ device = "booting"
  /\ device' = "up"
  /\ Sends({"log"})
  /\ UNCHANGED <<host, line, glued, resumed, input, overran>>

\* What arrives when U-Boot does not listen is echoed at most.
Echo ==
  /\ input # <<>>
  /\ device = "up" \/ (device = "booting" /\ Head(input) # "&")
  /\ input' = Tail(input)
  /\ Sends({"echo"})
  /\ UNCHANGED <<host, switch, overran>>

\* U-Boot's line editor: a '&' waits in the line, and is part of the command
\* that a CR ends.
Types ==
  /\ device = "prompt" /\ input # <<>> /\ Head(input) = "&"
  /\ input' = Tail(input)
  /\ line' = TRUE
  /\ Sends({"echo"})
  /\ UNCHANGED <<host, device, glued, resumed, overran>>

Enters ==
  /\ device = "prompt" /\ input # <<>> /\ Head(input) # "&"
  /\ input' = Tail(input)
  /\ line' = FALSE
  /\ glued' = (glued \/ (line /\ Head(input) # "CR"))
  /\ IF Head(input) = "run bootcmd" /\ ~line
       THEN device' = "booting" /\ resumed' = TRUE /\ Sends({"log"})
       ELSE /\ UNCHANGED <<device, resumed>>
            /\ Sends(IF Head(input) = "show" /\ ~line THEN {"answer", "prompt"}
                     ELSE {"echo", "prompt"})
  /\ UNCHANGED <<host, overran>>

-----------------------------------------------------------------------------
CatchStep ==
  \/ Open \/ TelnetReboot \/ StartSpammer \/ WaitOver \/ Join \/ Check \/ Flush \/ Drain
DeviceStep == Interrupted \/ BootsUp \/ Echo \/ Types \/ Enters

Next ==
  \/ CatchStep \/ Command \/ Collect \/ Close
  \/ Look \/ Spam \/ Read \/ Found
  \/ DeviceStep

Spec == Init /\ [][Next]_vars

-----------------------------------------------------------------------------
Catching == {"telnet", "start", "wait", "join", "check", "flush", "drain"}

TypeOK ==
  /\ caller \in {"closed", "ready", "running", "failed", "gone"} \cup Catching
  /\ reader \in {"off", "read", "found", "ended"}
  /\ spammer \in {"off", "on", "write", "ended"}
  /\ got \in BOOLEAN /\ stop \in BOOLEAN
  /\ device \in {"up", "booting", "prompt"} /\ line \in BOOLEAN
  /\ input \in Seq(Commands \cup {"&", "CR"}) /\ Len(input) <= MaxQueue + 1
  /\ output \subseteq Outputs
  /\ glued \in BOOLEAN /\ resumed \in BOOLEAN /\ overran \in BOOLEAN

\* The flood never becomes part of a command ("Unknown command '&flshow'"):
\* the last '&' is written before the CR, the CR before the first command. That
\* the spammer ends within the 2 s of its join is what this rests on.
CommandsAreClean == ~overran => ~glued

\* Once the prompt is caught nobody but the caller reads the line: no answer
\* of a command is taken by the thread that watched for the prompt.
SoleReader == caller \in {"flush", "drain", "ready", "running"} => reader # "read"

\* When catch_uboot_prompt has returned, the switch is at its prompt, and it stays
\* there until it is told to boot: the prompt that was read is no older than the
\* reboot, and a timeout is no success.
ReadyIsPrompt == caller \in {"ready", "running"} /\ ~resumed => device = "prompt"

\* A resumed boot is not interrupted by what is left of the flood, if the
\* spammer ended within the 2 s of its join.
ResumeIsFinal == ~overran /\ resumed => device # "prompt"
=============================================================================
