-------------------------------- MODULE LoadRun --------------------------------
(***************************************************************************)
(* A run of the load generator as client.cc puts it together: the archive  *)
(* is read into an index, what has a size within the limits is shuffled,   *)
(* each client takes messages in turn from a generator of its own, and the *)
(* time of each, from its first byte to the answer, goes into one          *)
(* statistics.  What the clients do with a message is in SmtpClient, and   *)
(* how it is fixed, by a task of TaskPool, in MessageFixer.                *)
(***************************************************************************)
EXTENDS MessageArchive, Statistics

CONSTANTS
  Clients,     (* the clients                                                  *)
  Archives,    (* archives: of each message its size, in digits, and its text  *)
  Headers,     (* what may be on the line of a message behind its size         *)
  Limits,      (* <<min-size, max-size>>; a max-size of 0 is none              *)
  MaxCut,      (* bound: how many characters an archive may lack at its end    *)
  MaxTaken,    (* bound: messages taken by a client                            *)
  MaxTime      (* bound: time                                                  *)

Chars == {NL, Other} \cup 0 .. 9

Messages == [digits : Seq(0 .. 9), text : Seq(Chars)]

\* No message is empty, and its size has as many digits as parse reads.
WellFormed(m) ==
  LET d == Len(m.digits)
  IN  /\ d <= MaxDigits /\ Number(m.digits, 0, d) = Len(m.text)
      /\ m.text # <<>>

ASSUME ArchivesAssumption ==
  /\ \A a \in Archives : /\ a \in Seq(Messages)
                         /\ a # <<>> /\ \A k \in 1 .. Len(a) : WellFormed(a[k])
  /\ \A h \in Headers : /\ h \in Seq({Other} \cup 0 .. 9)
                        /\ h = <<>> \/ h[1] = Other
  /\ Limits \subseteq Nat \X Nat
ASSUME LoadBounds == MaxCut \in Nat /\ MaxTaken \in Nat /\ MaxTime \in Nat

\* No run is as long as a clock can count.
ASSUME ClockAssumption == MaxTime + Delta <= Half

VARIABLES
  archive,    (* the messages in the file                                      *)
  header,     (* what is on their lines behind the size                        *)
  cut,        (* how many characters of the file are missing                   *)
  pos,        (* how far index::open has got                                   *)
  index,      (* index_                                                        *)
  limits,     (* min_msg_size and max_msg_size                                 *)
  stage,      (* "opening", "running", or "undefined": there is nothing to send *)
  gen,        (* the generator of each client                                  *)
  sampled,    (* the sizes of the messages that clients are sending            *)
  taken,      (* ghost: how often each client has taken each message           *)
  now,        (* the time                                                      *)
  stats,      (* the statistics                                                *)
  logged      (* ghost: the times and sizes of the messages that were sent     *)

archiveVars == <<archive, header, cut, pos, index, limits>>
runVars == <<stage, gen, sampled, taken>>
statVars == <<now, stats, logged>>
vars == <<archiveVars, runVars, statVars>>

\* A message in the file: its size, the rest of that line, and its text.
Written(m) == m.digits \o header \o <<NL>> \o m.text

WholeFile == FlattenSeq([i \in 1 .. Len(archive) |-> Written(archive[i])])

File == SubSeq(WholeFile, 1, Len(WholeFile) - cut)

NoGenerator == NewGenerator(<<>>)

Init ==
  /\ archive \in Archives /\ header \in Headers /\ cut \in 0 .. MaxCut
  /\ cut <= Len(archive[Len(archive)].text)
  /\ limits \in Limits
  /\ pos = 0 /\ index = <<>>
  /\ stage = "opening"
  /\ gen = [c \in Clients |-> NoGenerator]
  /\ sampled = [c \in Clients |-> 0]
  /\ taken = [c \in Clients |-> <<>>]
  /\ now = 0 /\ stats = NoStatistics /\ logged = <<>>

\* The loop of open.
IndexMessage ==
  /\ stage = "opening" /\ pos < Len(File)
  /\ LET m == Parse(File, pos)
     IN  pos' = m.pos /\ index' = Emplaced(index, m)
  /\ UNCHANGED <<archive, header, cut, limits, runVars, statVars>>

\* A max-size of 0 stands for the largest number.
Selected ==
  LET last == IF limits[2] = 0 THEN Len(index) ELSE UpperBound(index, limits[2])
  IN  {i \in 1 .. Len(index) : LowerBound(index, limits[1]) < i /\ i <= last}

\* The constructor of the generator goes from the lower bound to the upper,
\* which must come later (assert (first != last)), and shuffles; every client
\* is created with a copy.
CreateClients ==
  /\ stage = "opening" /\ pos >= Len(File)
  /\ IF Selected = {}
     THEN stage' = "undefined" /\ UNCHANGED gen
     ELSE /\ stage' = "running"
          /\ \E order \in SetToSeqs({index[i] : i \in Selected}) :
               gen' = [c \in Clients |-> NewGenerator(order)]
  /\ UNCHANGED <<archiveVars, sampled, taken, statVars>>

\* DataSend is entered: the generator calls its handler, which takes a sample.
TakeMessage(c) ==
  /\ stage = "running" /\ sampled[c] = 0
  /\ Len(taken[c]) < MaxTaken
  /\ LET m == gen[c].shuffled[gen[c].i]
     IN  /\ sampled' = [sampled EXCEPT ![c] = m.size]
         /\ taken' = [taken EXCEPT ![c] = Append(@, m)]
  /\ gen' = [gen EXCEPT ![c] = Advanced(@)]
  /\ UNCHANGED <<archiveVars, stage, statVars>>

\* DataSend is left: ~stats_sample logs it.
LogSample(c, late) ==
  /\ sampled[c] > 0
  /\ stats' = Log(stats, now, late, sampled[c])
  /\ logged' = Append(logged, [time |-> now, size |-> sampled[c]])
  /\ sampled' = [sampled EXCEPT ![c] = 0]
  /\ UNCHANGED <<archiveVars, stage, gen, taken, now>>

Tick ==
  /\ stage = "running" /\ now < MaxTime
  /\ now' = now + 1
  /\ UNCHANGED <<archiveVars, runVars, stats, logged>>

Next ==
  \/ IndexMessage \/ CreateClients \/ Tick
  \/ \E c \in Clients : TakeMessage(c) \/ \E late \in BOOLEAN : LogSample(c, late)

Spec == Init /\ [][Next]_vars
-----------------------------------------------------------------------------
(* Properties. *)

\* Where message k of the archive is.
PlaceOf(k) ==
  LET before == FlattenSeq([i \in 1 .. k - 1 |-> Written(archive[i])])
  IN  Len(before) + Len(Written(archive[k])) - Len(archive[k].text)

\* The index has the messages of the archive and their places, whatever digits
\* and line ends are in them.  Only the last may reach past the end of a file that
\* lacks something, as the size is not compared with the end (index.h:85-106).
\* Each client takes all that are within the limits, in turn, before it takes one
\* again, whatever the others do (message_generator.h:54-63).
MessagesInTurn ==
  stage = "running" =>
    LET Entry(k) == [size |-> Len(archive[k].text), addr |-> PlaceOf(k)]
        all == {Entry(k) : k \in 1 .. Len(archive)}
        wanted == {m \in all : /\ m.size >= limits[1]
                               /\ limits[2] = 0 \/ m.size <= limits[2]}
        n == Cardinality(wanted)
    IN  /\ Range(index) = all /\ Len(index) = Len(archive)
        /\ {m \in all : m.addr + m.size > Len(File)}
             = (IF cut > 0 THEN {Entry(Len(archive))} ELSE {})
        /\ \A c \in Clients :
             LET t == taken[c]
             IN  /\ Range(t) \subseteq wanted
                 /\ \A i, j \in 1 .. Len(t) : i < j /\ j < i + n => t[i] # t[j]

\* Every message that was sent is in the total or in the slot that is being
\* filled, but for those of the first slot, which may be left out; and a window of
\* d slots has all messages of the last (d - 1) slots of time before its first one
\* began and none that is older than twice that, because a slot lasts until
\* something is logged and so may be nearly two long (stats.h:227-264).
StatisticsExact ==
  LET Since(t) == Cardinality({i \in 1 .. Len(logged) : logged[i].time >= t})
  IN  logged # <<>> =>
        /\ stats.messages + Window(stats, 1).count \in
             {Len(logged)} \cup (IF Since(stats.last) = Len(logged) THEN {}
                                 ELSE {Since(stats.start + Delta)})
        /\ \A d \in 1 .. MaxSlots :
             /\ Window(stats, d).count >= Since(stats.last - (d - 1) * Delta)
             /\ Window(stats, d).count <= Since(stats.last - 2 * ((d - 1) * Delta))
=============================================================================
