------------------------------- MODULE DsiHost -------------------------------
(***************************************************************************)
(* Command mode of the MIPI DSI host: components/esp_hal_lcd/              *)
(* mipi_dsi_hal.c, the functions mipi_dsi_hal_host_gen_*, on the FIFOs of  *)
(* the controller (mipi_dsi_host_ll.h) and a panel that answers early,     *)
(* late or never.  One virtual channel, one caller at a time.  A byte is a *)
(* number; 0 pads the last word of a payload.                              *)
(***************************************************************************)
EXTENDS Integers, Sequences, SequencesExt

CONSTANTS
  PayloadWords, CmdDepth,  \* capacity of the payload FIFO, in words, and of the command FIFO
  CommandSizes,            \* bytes of a command
  Sizes,                   \* numbers of parameters, or of payload bytes
  BufferSizes,             \* buffers for answers, in bytes
  AnswerSizes,             \* how many bytes the panel answers with
  Reads                    \* identities of reads, to tell their answers apart

ASSUME DsiAssumption ==
  /\ PayloadWords \in Nat \ {0} /\ CmdDepth \in Nat \ {0}
  /\ CommandSizes \subseteq 1..3 /\ Sizes \subseteq 0..4 * PayloadWords
  /\ \A c \in CommandSizes, n \in Sizes : c + n <= 4 * PayloadWords
  /\ BufferSizes \subseteq Nat /\ AnswerSizes \subseteq Nat \ {0}
  /\ Reads \subseteq Nat \ {0}

VARIABLES
  pc,                    \* where the caller stands
  temp, rest, header,    \* the word to write, the bytes after it, the header to come
  size, buffer,          \* of the last read: buffer_size; what receive_buffer has got
  s_gen_read_timed_out,
  payload, commands,     \* the controller's two transmit FIFOs
  answers, busy,         \* its receive FIFO; gen_rd_cmd_busy
  asked,                 \* reads that the panel has got and not answered
  id,                    \* history: the last read
  expected, garbled,     \* history: packets under way; one has come otherwise than it was meant
  tainted, clean         \* history: an answer may come late; the last read began without one due

wordVars == <<temp, rest, header>>
readVars == <<size, buffer, s_gen_read_timed_out, id, tainted, clean>>
panelVars == <<answers, asked, garbled>>
vars == <<pc, wordVars, readVars, payload, commands, busy, expected, panelVars>>

Bytes(n) == [i \in 1..n |-> i]
Command(n) == [i \in 1..n |-> 90 + i]
Repeat(x, n) == [i \in 1..n |-> x]
Padded(bytes) == [i \in 1..4 |-> IF i <= Len(bytes) THEN bytes[i] ELSE 0]
First(bytes, n) == SubSeq(bytes, 1, IF n < Len(bytes) THEN n ELSE Len(bytes))
After(bytes, n) == SubSeq(bytes, n + 1, Len(bytes))
Words(n) == (n + 3) \div 4
Header(dt, data) == [dt |-> dt, data |-> data]
NoHeader == Header("short", <<>>)

TypeOK ==
  /\ pc \in {"idle", "word", "header", "max", "ask", "busy", "data", "drain"}
  /\ Len(payload) <= PayloadWords /\ Len(commands) <= CmdDepth
  /\ \A i \in DOMAIN payload : Len(payload[i]) = 4
  /\ Len(buffer) <= size /\ id \in Reads
  /\ s_gen_read_timed_out \in BOOLEAN /\ busy \in BOOLEAN
  /\ tainted \in BOOLEAN /\ clean \in BOOLEAN /\ garbled \in BOOLEAN

Init ==
  /\ pc = "idle" /\ temp = <<>> /\ rest = <<>> /\ header = NoHeader
  /\ size = 0 /\ buffer = <<>> /\ s_gen_read_timed_out = FALSE
  /\ payload = <<>> /\ commands = <<>> /\ answers = <<>> /\ busy = FALSE /\ asked = <<>>
  /\ id \in Reads /\ expected = <<>> /\ garbled = FALSE
  /\ tainted = FALSE /\ clean = TRUE

-----------------------------------------------------------------------------
(* Writing.  A packet is the words of its payload, then its header.         *)

Begin(bytes, first, others, last) ==
  /\ pc = "idle" /\ pc' = IF last.dt = "long" /\ bytes # <<>> THEN "word" ELSE "header"
  /\ expected' = Append(expected, bytes)
  /\ temp' = first /\ rest' = others /\ header' = last
  /\ UNCHANGED <<payload, commands, busy, readVars, panelVars>>

\* Mutant: the last parameter that was merged with the command is sent again.
MergedTwice(command, params) == After(params, 3 - Len(command))

\* The parameters that are not merged into one word with the command.
AfterMerge(command, params) == After(params, 4 - Len(command))

\* mipi_dsi_hal_host_gen_write_dcs_command: one or two bytes go into the header.
WriteDcs(command, params) ==
  LET bytes == command \o params
      word == Padded(command \o First(params, 4 - Len(command)))
  IN Begin(bytes, word, AfterMerge(command, params),
           IF Len(bytes) > 2 THEN Header("long", Len(bytes))
           ELSE Header("short", First(word, Len(bytes))))

\* mipi_dsi_hal_host_gen_write_long_packet
WriteLong(params) ==
  Begin(params, Padded(First(params, 4)), After(params, 4), Header("long", Len(params)))

\* mipi_dsi_host_ll_gen_is_write_fifo_full.  Mutant: one word too late.
PayloadOverfull == Len(payload) > PayloadWords
PayloadFull == Len(payload) = PayloadWords

PushWord ==
  /\ pc = "word" /\ ~PayloadFull /\ payload' = Append(payload, temp)
  /\ IF rest = <<>>
     THEN pc' = "header" /\ UNCHANGED <<temp, rest>>
     ELSE temp' = Padded(First(rest, 4)) /\ rest' = After(rest, 4) /\ UNCHANGED pc
  /\ UNCHANGED <<header, commands, busy, expected, readVars, panelVars>>

\* mipi_dsi_hal_host_gen_write_short_packet, and the header of any packet.
PushHeader(from, to, h) ==
  /\ pc = from /\ Len(commands) < CmdDepth /\ commands' = Append(commands, h) /\ pc' = to
  /\ temp' = <<>> /\ rest' = <<>> /\ header' = NoHeader
  /\ UNCHANGED <<payload, readVars, panelVars>>

-----------------------------------------------------------------------------
(* Reading: mipi_dsi_hal_host_gen_read_short_packet                         *)

Outstanding == Range(asked) \cup {commands[i].data[1] : i \in {j \in DOMAIN commands : commands[j].dt = "read"}}
Heard == {answers[i][1] : i \in DOMAIN answers}

BeginRead(n) ==
  /\ pc = "idle" /\ pc' = "max" /\ size' = n /\ buffer' = <<>>
  /\ s_gen_read_timed_out' = FALSE /\ clean' = ~tainted /\ UNCHANGED tainted
  /\ id' \in Reads \ (Outstanding \cup Heard)
  /\ UNCHANGED <<wordVars, payload, commands, busy, expected, panelVars>>

SetMaximum ==
  /\ PushHeader("max", "ask", Header("short", <<size>>))
  /\ expected' = Append(expected, <<size>>) /\ UNCHANGED busy
Ask ==
  /\ PushHeader("ask", "busy", Header("read", <<id>>))
  /\ expected' = Append(expected, <<id>>) /\ busy' = TRUE

Waited(from, to) ==
  /\ pc = from /\ pc' = to
  /\ UNCHANGED <<wordVars, payload, commands, busy, expected, readVars, panelVars>>
NotBusy == ~busy /\ Waited("busy", "data")
HasData == answers # <<>> /\ Waited("data", "drain")

\* Mutant: the caller waits for as long as it takes.
NoDeadline == FALSE /\ UNCHANGED vars

\* The deadline has passed while the one or the other had not come.
TimedOut ==
  /\ (pc = "busy" /\ busy) \/ (pc = "data" /\ answers = <<>>)
  /\ pc' = "idle" /\ s_gen_read_timed_out' = TRUE /\ buffer' = Repeat(0, size) /\ tainted' = TRUE
  /\ UNCHANGED <<wordVars, payload, commands, busy, expected, size, id, clean, panelVars>>

\* Mutant: words beyond the buffer stay where they are.
BufferFull == answers = <<>> \/ Len(buffer) = size

ReadFifoEmpty == answers = <<>>

Drain ==
  /\ pc = "drain"
  /\ IF ReadFifoEmpty
     THEN pc' = "idle" /\ tainted' = (Outstanding # {}) /\ UNCHANGED <<buffer, answers>>
     ELSE /\ buffer' = First(buffer \o Head(answers), size) /\ answers' = Tail(answers)
          /\ UNCHANGED <<pc, tainted>>
  /\ UNCHANGED <<wordVars, payload, commands, busy, expected, size, s_gen_read_timed_out, id, clean,
                 asked, garbled>>

-----------------------------------------------------------------------------
(* The controller and the panel                                             *)

\* The controller sends the next packet, once it is whole.
Deliver ==
  LET h == Head(commands)
      n == IF h.dt = "long" THEN Words(h.data) ELSE 0
  IN /\ commands # <<>> /\ Len(payload) >= n
     /\ commands' = Tail(commands) /\ payload' = After(payload, n)
     /\ expected' = Tail(expected)
     /\ garbled' = (garbled \/ Head(expected) #
          IF h.dt = "long" THEN First(FlattenSeq(First(payload, n)), h.data) ELSE h.data)
     /\ asked' = IF h.dt = "read" THEN asked \o h.data ELSE asked
     /\ UNCHANGED <<pc, wordVars, readVars, busy, answers>>

\* The panel answers, perhaps with more bytes than it was told to; the answer is
\* in the FIFO before the controller stops being busy.
Answer(n) ==
  LET word(k) == Padded(Repeat(Head(asked), IF n - 4 * k < 4 THEN n - 4 * k ELSE 4))
  IN /\ asked # <<>> /\ asked' = Tail(asked)
     /\ answers' = answers \o [k \in 1..Words(n) |-> word(k - 1)]
     /\ busy' \in {FALSE, Len(asked) > 1}
     /\ UNCHANGED <<pc, wordVars, readVars, payload, commands, expected, garbled>>

Start == \/ \E n \in Sizes :
             WriteLong(Bytes(n)) \/ \E c \in CommandSizes : WriteDcs(Command(c), Bytes(n))
         \/ \E n \in BufferSizes : BeginRead(n)
HostStep == \/ PushWord
            \/ PushHeader("header", "idle", header) /\ UNCHANGED <<expected, busy>>
            \/ SetMaximum \/ Ask \/ NotBusy \/ HasData \/ TimedOut \/ Drain

Next == Start \/ HostStep \/ Deliver \/ \E n \in AnswerSizes : Answer(n)

Spec == Init /\ [][Next]_vars
FairSpec == Spec /\ WF_vars(HostStep) /\ WF_vars(Deliver)

-----------------------------------------------------------------------------
(* Properties                                                               *)

\* The panel gets every command with its parameters, in order, however they were
\* split into words and whatever else is in the FIFOs
\* (mipi_dsi_hal_host_gen_write_dcs_command, write_long_packet).
PanelGetsPackets == ~garbled

\* A read that gave up says so and returns zeros; one that did not, and began
\* when no late answer could come, returns its own answer - also after answers
\* that were larger than the buffer (mipi_dsi_hal_host_gen_read_short_packet).
ReadTellsTruth ==
  pc = "idle" =>
    /\ s_gen_read_timed_out => buffer = Repeat(0, size)
    /\ ~s_gen_read_timed_out /\ clean /\ size > 0 =>
         /\ buffer[1] = id /\ Range(buffer) \subseteq {id, 0}

\* Every call ends, whether there is a panel or not, as long as the controller
\* sends what it was given.
CallsEnd == pc # "idle" ~> pc = "idle"
=============================================================================
