------------------------------- MODULE Startup ------------------------------
(***************************************************************************)
(* main of mycode/main.c: the sequence of calls that must succeed before   *)
(* the four threads of the live transcoder run, some of which are looked   *)
(* at and some not, and what is left behind for the calls after them.      *)
(*                                                                         *)
(* The list of channels is read by dvbcfg_zapchannel_parse, the module     *)
(* ChannelList.  The kernel, the network and the codec are external: a     *)
(* call to them succeeds or fails.  The list is a local array to which a   *)
(* pointer is returned, so every later call may overwrite the entries that *)
(* its own stack frame reaches; the entry to play is the channel on its    *)
(* line of the list, or garbage.                                           *)
(*                                                                         *)
(* An operator that a comment calls a mutant is not part of the            *)
(* specification: it is the definition after it with a bug in it, which    *)
(* the property named there must notice.                                   *)
(***************************************************************************)
EXTENDS ChannelList, FiniteSets

CONSTANTS
  Choices,  \* the channel that the user may ask for
  Reached   \* the entries that the stack frames of later calls reach

ASSUME ChannelAssumption ==
  Choices \subseteq Nat /\ Reached \subseteq Nat

VARIABLES
  status,   \* the process: "running", "ended" by itself, "crashed"
  pc,       \* the next call of main
  channel,  \* the entry to play
  entry,    \* what program[channel] is
  device,   \* device # NULL
  pids,     \* what the demultiplexer lets through
  decoder,  \* decoder # NULL
  output,   \* decoder->fp_output # NULL
  client,   \* recfd is a connection
  threads,  \* the threads created
  failed    \* history: the calls that failed

mainVars == <<status, pc, channel, entry, device, pids, decoder, output,
              client, threads, failed>>
vars == <<listVars, mainVars>>

Threads == {"thread_input", "thread_output", "thread_encoder", "rtp_sender"}

Init ==
  /\ ListInit
  /\ status = "running" /\ pc = "rtp"
  /\ channel \in Choices
  /\ entry = "none"
  /\ device = FALSE /\ pids = {} /\ decoder = FALSE /\ output = FALSE
  /\ client = FALSE
  /\ threads = {} /\ failed = {}
-----------------------------------------------------------------------------
\* A call of main after which main goes on.
Call(from, to) ==
  /\ status = "running"
  /\ pc = from
  /\ pc' = to
  /\ UNCHANGED <<status, channel, listVars>>

\* A call that fails and after which main returns, or that calls exit.
Fail(from) ==
  /\ status = "running"
  /\ pc = from
  /\ status' = "ended"
  /\ failed' = failed \cup {from}
  /\ UNCHANGED <<pc, channel, entry, device, pids, decoder, output, client,
                 threads, listVars>>

\* A call that uses a pointer which is NULL.
Crash(from) ==
  /\ status = "running"
  /\ pc = from
  /\ status' = "crashed"
  /\ UNCHANGED <<pc, channel, entry, device, pids, decoder, output, client,
                 threads, failed, listVars>>

\* Mutant (TypeOK): the parser frees its list.
LeftFreed(e) == IF e = "none" THEN {e} ELSE {"freed"}

\* What a call may leave of an entry of the list.
Left(e) == {e} \cup (IF channel \in Reached /\ e # "none" THEN {"garbage"} ELSE {})

\* A call that is checked, or cannot fail.
Checked(from, to) ==
  \/ /\ Call(from, to)
     /\ entry' \in Left(entry)
     /\ UNCHANGED <<device, pids, decoder, output, client, threads, failed>>
  \/ Fail(from)
-----------------------------------------------------------------------------
\* Resolving the address of the RTP receiver, which is not used later.
gn_rtp_connect_init == Checked("rtp", "parse")

\* The list is read line by line.
ParseStep ==
  /\ status = "running"
  /\ pc = "parse"
  /\ ParseList
  /\ UNCHANGED mainVars

\* An entry behind those of the list is not initialised; getline is called
\* with NULL when the list cannot be opened.
ParseEnd ==
  \/ /\ Parsed
     /\ Call("parse", "open")
     /\ entry' = IF channel < count THEN "line" ELSE "garbage"
     /\ UNCHANGED <<device, pids, decoder, output, client, threads, failed>>
  \/ number = 0 /\ field = 0 /\ Crash("parse")

dvbcfg_zapchannel_parse == ParseStep \/ ParseEnd

\* The result is not assigned; device stays NULL when an open fails.
dvb_open_device ==
  /\ Call("open", "buffer")
  /\ entry' \in Left(entry)
  /\ \/ device' = TRUE /\ UNCHANGED failed
     \/ UNCHANGED device /\ failed' = failed \cup {"open"}
  /\ UNCHANGED <<pids, decoder, output, client, threads>>

\* ioctl(device->demux_fd, DMX_SET_BUFFER_SIZE), the first use of device.
SetBufferSize ==
  \/ device /\ Checked("buffer", "property")
  \/ ~device /\ Crash("buffer")

\* dvb_open_chennel: FE_SET_PROPERTY,
SetProperty == Checked("property", "filter")

\* What the entry says of the PID of a stream.
Pid(stream) == IF entry = "line" THEN stream ELSE "other"

\* DMX_SET_PES_FILTER with the video PID,
SetFilter ==
  \/ /\ Call("filter", "add_audio")
     /\ pids' = {Pid("video")}
     /\ entry' \in Left(entry)
     /\ UNCHANGED <<device, decoder, output, client, threads, failed>>
  \/ Fail("filter")

\* DMX_ADD_PID, whose result is overwritten by the next one,
AddUnchecked(from, to, pid) ==
  /\ Call(from, to)
  /\ \/ pids' = pids \cup {pid} /\ UNCHANGED failed
     \/ UNCHANGED pids /\ failed' = failed \cup {from}
  /\ entry' \in Left(entry)
  /\ UNCHANGED <<device, decoder, output, client, threads>>

AddAudio == AddUnchecked("add_audio", "add_pat", Pid("audio"))

AddPat == AddUnchecked("add_pat", "add_pmt", "pat")

\* Mutant (TunedToChoice): the audio PID is added a second time.
AddAudioAgain ==
  /\ Call("add_pmt", "start")
  /\ pids' = pids \cup {Pid("audio")}
  /\ entry' \in Left(entry)
  /\ UNCHANGED <<device, decoder, output, client, threads, failed>>

\* the last one, of the PID below the video's, which is looked at,
AddPmt ==
  \/ /\ Call("add_pmt", "start")
     /\ pids' = pids \cup {Pid("pmt")}
     /\ entry' \in Left(entry)
     /\ UNCHANGED <<device, decoder, output, client, threads, failed>>
  \/ Fail("add_pmt")

\* DMX_START.
Start == Checked("start", "decoder")

dvb_open_chennel ==
  SetProperty \/ SetFilter \/ AddAudio \/ AddPat \/ AddPmt \/ Start

\* -1 is its result when it fails, and true: main takes it for success.
decoder_data_init ==
  /\ Call("decoder", "input")
  /\ entry' \in Left(entry)
  /\ \/ decoder' = TRUE /\ UNCHANGED failed
     \/ UNCHANGED decoder /\ failed' = failed \cup {"decoder"}
  /\ UNCHANGED <<device, pids, output, client, threads>>

\* Mutant (ThreadsComplete): a NULL decoder is passed over.
SetInputIfAny ==
  /\ Call("input", "socket")
  /\ output' \in BOOLEAN
  /\ entry' \in Left(entry)
  /\ UNCHANGED <<device, pids, decoder, client, threads, failed>>

\* decoder_set_input and decoder_set_output write through decoder; that the
\* output file was opened is not looked at.
SetInput ==
  \/ /\ decoder
     /\ Call("input", "socket")
     /\ output' \in BOOLEAN
     /\ entry' \in Left(entry)
     /\ UNCHANGED <<device, pids, decoder, client, threads, failed>>
  \/ ~decoder /\ Crash("input")

\* socket and bind, with exit(1).
gn_tcp_init == Checked("socket", "accept")

\* listen and accept, which waits for a client.
gn_tcp_listener ==
  \/ /\ Call("accept", "thread_input")
     /\ client' = TRUE
     /\ entry' \in Left(entry)
     /\ UNCHANGED <<device, pids, decoder, output, threads, failed>>
  \/ Fail("accept")

\* pthread_create: the end of main is the end of the threads, too.
Create(thread, to) ==
  \/ /\ Call(thread, to)
     /\ threads' = threads \cup {thread}
     /\ entry' \in Left(entry)
     /\ UNCHANGED <<device, pids, decoder, output, client, failed>>
  \/ Fail(thread)

CreateThreads ==
  \/ Create("thread_input", "thread_output")
  \/ Create("thread_output", "thread_encoder")
  \/ Create("thread_encoder", "rtp_sender")
  \/ Create("rtp_sender", "enter")

\* The encoder's first packet is written to the output file, too.
ts ==
  /\ status = "running"
  /\ "thread_encoder" \in threads
  /\ ~output
  /\ status' = "crashed"
  /\ UNCHANGED <<pc, channel, entry, device, pids, decoder, output, client,
                 threads, failed, listVars>>

\* getc(stdin), and main returns.
Enter ==
  /\ status = "running"
  /\ pc = "enter"
  /\ status' = "ended"
  /\ UNCHANGED <<pc, channel, entry, device, pids, decoder, output, client,
                 threads, failed, listVars>>

Ended == status # "running" /\ UNCHANGED vars

Next ==
  \/ gn_rtp_connect_init \/ dvbcfg_zapchannel_parse \/ dvb_open_device
  \/ SetBufferSize \/ dvb_open_chennel \/ decoder_data_init \/ SetInput
  \/ gn_tcp_init \/ gn_tcp_listener \/ CreateThreads \/ ts \/ Enter
  \/ Ended

Spec == Init /\ [][Next]_vars
-----------------------------------------------------------------------------
(***************************************************************************)
(* Properties.                                                             *)
(***************************************************************************)
TypeOK ==
  /\ ListTypeOK
  /\ status \in {"running", "ended", "crashed"}
  /\ channel \in Choices
  /\ entry \in {"none", "line", "garbage"}
  /\ device \in BOOLEAN /\ decoder \in BOOLEAN
  /\ output \in BOOLEAN /\ client \in BOOLEAN
  /\ pids \subseteq {"video", "audio", "pat", "pmt", "other"}
  /\ threads \subseteq Threads

\* No thread runs without its device, decoder, connection and streams, although
\* main goes on when the first two are not there: it crashes before.  The output
\* file is not among them.
ThreadsEquipped ==
  status = "running" /\ threads # {} => device /\ decoder /\ client /\ pids # {}

\* The process does not go on with some of its threads missing.
AllOrNone == status = "running" /\ pc = "enter" => threads = Threads

\* Of what main sets up, only the output file can be missing to a thread, and
\* only the encoder crashes on it.
OnlyOutputMissing ==
  status = "crashed" /\ threads # {} => ~output /\ "thread_encoder" \in threads

\* The threads run with all that main sets up for them but the output file, whose
\* fopen is not looked at, and all of them or none (main.c:342-416).
ThreadsComplete == ThreadsEquipped /\ AllOrNone /\ OnlyOutputMissing

\* The streams of the channel, without those that DMX_ADD_PID failed for.
Sound == IF "add_audio" \in failed THEN {} ELSE {"audio"}
Tables == IF "add_pat" \in failed THEN {} ELSE {"pat"}
Streams == {"video", "pmt"} \cup Sound \cup Tables

\* What the user asked for by its number is what is played: its streams pass the
\* demultiplexer, where a failure that was overlooked costs the one stream that
\* it was about, and they are those of the line with that number among the
\* complete lines of the file, unless there is none, an entry up to it was made
\* of a comment, or its entry lies where later calls keep their variables
\* (gn_dvb.c:61-172, 213-260; main.c:337-361).
TunedToChoice ==
  status = "running" /\ threads # {} =>
    \/ /\ pids = Streams
       /\ \A j \in 2..Len(Fields) : p[channel][j].number = p[channel][1].number
       /\ LET n == p[channel][1].number
          IN  Cardinality({k \in 1..n : Complete(lines[k])}) = channel + 1
    \/ channel >= count
    \/ \E i \in 0..channel : ~Uncommented(i)
    \/ channel \in Reached
=============================================================================
