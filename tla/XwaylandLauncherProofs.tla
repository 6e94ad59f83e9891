----------------------- MODULE XwaylandLauncherProofs -----------------------
(***************************************************************************)
(* The launcher and the main thread stay in step, for any number of        *)
(* servers, calls of stop() and crashes, and for either policy.            *)
(***************************************************************************)
EXTENDS XwaylandLauncher, SequenceTheorems, TLAPS

Sigs == {"started", "finished", "errorOccurred"} \X Nat

\* The X11 connection, seen as position 0, and the started() signals on
\* their way to the main thread: each opens, or will open, a connection.
Opens(sig, c, i) == IF i = 0 THEN c # None ELSE sig[i][1] = "started"
ServerOf(sig, c, i) == IF i = 0 THEN c ELSE sig[i][2]

FinishedBetween(sig, i, j) == \E k \in (i + 1)..(j - 1) : sig[k] = Finished
FinishedAfter(sig, i) == \E k \in (i + 1)..Len(sig) : sig[k] = Finished

\* Between two openings there is a finished().
InTurn(sig, c) ==
  \A j \in 1..Len(sig) : Opens(sig, c, j) =>
     \A i \in 0..(j - 1) : Opens(sig, c, i) => FinishedBetween(sig, i, j)

\* Every opening is followed by a finished().
Closed(sig, c) ==
  \A i \in 0..Len(sig) : Opens(sig, c, i) => FinishedAfter(sig, i)

-----------------------------------------------------------------------------
(* Signals that are sent.                                                  *)

\* What appending a signal does, position by position.
LEMMA AppendFacts ==
  ASSUME NEW sig \in Seq(Sigs), NEW e \in Sigs
  PROVE  /\ Append(sig, e) \in Seq(Sigs)
         /\ Len(Append(sig, e)) = Len(sig) + 1
         /\ Append(sig, e)[Len(sig) + 1] = e
         /\ \A i \in 1..Len(sig) : Append(sig, e)[i] = sig[i]
         /\ Len(sig) \in Nat
OBVIOUS

\* A finished() stays behind what it is behind of.
LEMMA AppendKeepsFinished ==
  ASSUME NEW sig \in Seq(Sigs), NEW e \in Sigs, NEW i \in 0..Len(sig), FinishedAfter(sig, i)
  PROVE  FinishedAfter(Append(sig, e), i)
<1>1. PICK k \in (i + 1)..Len(sig) : sig[k] = Finished
  BY DEF FinishedAfter
<1>2. k \in 1..Len(sig) /\ k \in (i + 1)..Len(Append(sig, e))
  BY AppendFacts
<1> QED
  BY <1>1, <1>2, AppendFacts DEF FinishedAfter

\* Signals stay in turn if a started() is only sent when all is closed.
LEMMA AppendKeepsTurn ==
  ASSUME NEW sig \in Seq(Sigs), NEW e \in Sigs, NEW c, InTurn(sig, c),
         e[1] = "started" => Closed(sig, c)
  PROVE  InTurn(Append(sig, e), c)
<1> DEFINE new == Append(sig, e)
<1> SUFFICES ASSUME NEW j \in 1..Len(new), Opens(new, c, j),
                    NEW i \in 0..(j - 1), Opens(new, c, i)
             PROVE  FinishedBetween(new, i, j)
  BY DEF InTurn
<1>0. Len(new) = Len(sig) + 1 /\ new[Len(sig) + 1] = e /\ Len(sig) \in Nat
      /\ \A n \in 1..Len(sig) : new[n] = sig[n]
  BY AppendFacts
<1> HIDE DEF new
<1>1. i \in 0..Len(sig) /\ Opens(sig, c, i)
  BY <1>0 DEF Opens
<1>2. CASE j \in 1..Len(sig)
  <2>1. Opens(sig, c, j)
    BY <1>0, <1>2 DEF Opens
  <2>2. PICK k \in (i + 1)..(j - 1) : sig[k] = Finished
    BY <1>1, <1>2, <2>1 DEF InTurn, FinishedBetween
  <2> QED
    BY <1>0, <1>2, <2>2 DEF FinishedBetween
<1>3. CASE j = Len(sig) + 1
  <2>1. e[1] = "started"
    BY <1>0, <1>3 DEF Opens
  <2>2. PICK k \in (i + 1)..Len(sig) : sig[k] = Finished
    BY <1>1, <2>1 DEF Closed, FinishedAfter
  <2> QED
    BY <1>0, <1>3, <2>2 DEF FinishedBetween
<1> QED
  BY <1>0, <1>2, <1>3

\* A signal other than started() opens nothing.
LEMMA AppendKeepsClosed ==
  ASSUME NEW sig \in Seq(Sigs), NEW e \in Sigs, NEW c, Closed(sig, c), e[1] # "started"
  PROVE  Closed(Append(sig, e), c)
<1> SUFFICES ASSUME NEW i \in 0..Len(Append(sig, e)), Opens(Append(sig, e), c, i)
             PROVE  FinishedAfter(Append(sig, e), i)
  BY DEF Closed
<1>1. i \in 0..Len(sig) /\ Opens(sig, c, i)
  BY AppendFacts DEF Opens
<1> QED
  BY <1>1, AppendKeepsFinished DEF Closed

\* finished() closes everything before it.
LEMMA FinishedCloses ==
  ASSUME NEW sig \in Seq(Sigs), NEW c
  PROVE  /\ Closed(Append(sig, Finished), c)
         /\ \A i \in 0..Len(sig) : FinishedAfter(Append(sig, Finished), i)
<1>1. Finished \in Sigs /\ Finished[1] # "started"
  BY DEF Finished, Sigs, None
<1>2. ASSUME NEW i \in 0..Len(sig)
      PROVE  FinishedAfter(Append(sig, Finished), i)
  BY <1>1, AppendFacts DEF FinishedAfter
<1>3. ASSUME NEW i \in 0..Len(Append(sig, Finished)), Opens(Append(sig, Finished), c, i)
      PROVE  i \in 0..Len(sig)
  BY <1>1, <1>3, AppendFacts DEF Opens
<1> QED
  BY <1>2, <1>3 DEF Closed

-----------------------------------------------------------------------------
(* Signals that are received.                                              *)

\* What taking the oldest signal does, position by position.
LEMMA TailFacts ==
  ASSUME NEW sig \in Seq(Sigs), sig # <<>>
  PROVE  /\ Tail(sig) \in Seq(Sigs)
         /\ Len(Tail(sig)) = Len(sig) - 1
         /\ \A i \in 1..(Len(sig) - 1) : Tail(sig)[i] = sig[i + 1]
         /\ Head(sig) = sig[1] /\ Len(sig) \in Nat /\ Len(sig) >= 1
OBVIOUS

\* Receiving a signal moves what is behind it forward.
LEMMA TailKeepsFinished ==
  ASSUME NEW sig \in Seq(Sigs), sig # <<>>, NEW i \in 0..Len(Tail(sig)),
         FinishedAfter(sig, i + 1)
  PROVE  FinishedAfter(Tail(sig), i)
<1>1. PICK k \in (i + 2)..Len(sig) : sig[k] = Finished
  BY TailFacts DEF FinishedAfter
<1>2. k - 1 \in (i + 1)..Len(Tail(sig)) /\ Tail(sig)[k - 1] = sig[k]
  BY TailFacts
<1> QED
  BY <1>1, <1>2 DEF FinishedAfter

\* The position i of what is left, and the position j it was at before.
LEMMA TailKeepsTurn ==
  ASSUME NEW sig \in Seq(Sigs), sig # <<>>, NEW c, NEW d, InTurn(sig, c),
         d # None => \/ sig[1][1] = "started"
                     \/ c # None /\ sig[1] # Finished
  PROVE  InTurn(Tail(sig), d)
<1> DEFINE new == Tail(sig)
<1> SUFFICES ASSUME NEW j \in 1..Len(new), Opens(new, d, j),
                    NEW i \in 0..(j - 1), Opens(new, d, i)
             PROVE  FinishedBetween(new, i, j)
  BY DEF InTurn
<1>0. Len(new) = Len(sig) - 1 /\ (\A n \in 1..(Len(sig) - 1) : new[n] = sig[n + 1])
      /\ Len(sig) \in Nat /\ Len(sig) >= 1
  BY TailFacts
<1> HIDE DEF new
<1>1. j + 1 \in 1..Len(sig) /\ Opens(sig, c, j + 1)
  BY <1>0 DEF Opens
<1>2. CASE Opens(sig, c, i + 1)
  <2>1. PICK k \in (i + 2)..j : sig[k] = Finished
    BY <1>0, <1>1, <1>2 DEF InTurn, FinishedBetween
  <2>2. k - 1 \in (i + 1)..(j - 1) /\ new[k - 1] = sig[k]
    BY <1>0
  <2> QED
    BY <2>1, <2>2 DEF FinishedBetween
<1>3. CASE ~Opens(sig, c, i + 1)
  <2>1. i = 0 /\ c # None /\ sig[1] # Finished
    BY <1>0, <1>3 DEF Opens
  <2>2. PICK k \in 1..j : sig[k] = Finished
    BY <1>0, <1>1, <2>1 DEF InTurn, FinishedBetween, Opens
  <2>3. k - 1 \in 1..(j - 1) /\ new[k - 1] = sig[k]
    BY <1>0, <2>1, <2>2
  <2> QED
    BY <2>1, <2>2, <2>3 DEF FinishedBetween
<1> QED
  BY <1>2, <1>3

\* What was closed stays closed when a signal is received.
LEMMA TailKeepsClosed ==
  ASSUME NEW sig \in Seq(Sigs), sig # <<>>, NEW c, NEW d, Closed(sig, c),
         d # None => \/ sig[1][1] = "started"
                     \/ c # None /\ sig[1] # Finished
  PROVE  Closed(Tail(sig), d)
<1> DEFINE new == Tail(sig)
<1> SUFFICES ASSUME NEW i \in 0..Len(new), Opens(new, d, i)
             PROVE  FinishedAfter(new, i)
  BY DEF Closed
<1>0. Len(new) = Len(sig) - 1 /\ (\A n \in 1..(Len(sig) - 1) : new[n] = sig[n + 1])
      /\ Len(sig) \in Nat /\ Len(sig) >= 1
  BY TailFacts
<1>1. CASE Opens(sig, c, i + 1)
  BY <1>0, <1>1, TailKeepsFinished DEF Closed
<1>2. CASE ~Opens(sig, c, i + 1)
  <2>1. i = 0 /\ c # None /\ sig[1] # Finished
    BY <1>0, <1>2 DEF Opens
  <2>2. PICK k \in 1..Len(sig) : sig[k] = Finished
    BY <1>0, <2>1 DEF Closed, FinishedAfter, Opens
  <2>3. FinishedAfter(sig, i + 1)
    BY <2>1, <2>2 DEF FinishedAfter
  <2> QED
    BY <2>3, TailKeepsFinished
<1> QED
  BY <1>1, <1>2

-----------------------------------------------------------------------------
(***************************************************************************)
(* The inductive invariant.                                                *)
(***************************************************************************)
TypeInv ==
  /\ signals \in Seq(Sigs)
  /\ calls \in Seq({"start", "stop"})
  /\ gen \in 0..MaxStarts /\ connection \in Nat
  /\ process \in {"null", "Starting", "Running", "NotRunning"}
  /\ notifier \in BOOLEAN
  /\ server \in [Servers -> Life]
  /\ notifier => process # "null"
  /\ process # "null" => gen \in Servers

\* What the state of a server says of its place in the succession.
LifeInv ==
  \A g \in Servers :
    /\ server[g].end # "none" => ~server[g].up /\ g <= gen
    /\ server[g].wrote => g <= gen
    /\ server[g].wrote /\ server[g].up => process = "Running"

TurnInv == InTurn(signals, connection)

\* Before a server is started, and until its readiness is reported, all that
\* the main thread knows of is about to be closed.
ClosedInv == process = "null" \/ notifier => Closed(signals, connection)

\* An opening is closed by a finished() behind it, or is of the server that
\* is watched, or of one that died before it was ready, or the launcher has
\* given up and stop() is on its way.
Excused(sig, c, i) ==
  \/ FinishedAfter(sig, i)
  \/ /\ ServerOf(sig, c, i) = gen
     /\ process = "Running" \/ (i # 0 /\ ~server[gen].up)
  \/ process = "NotRunning" /\ Contains(calls, "stop")

ExcuseInv ==
  \A i \in 0..Len(signals) :
     Opens(signals, connection, i) => Excused(signals, connection, i)

LauncherInv == TypeInv /\ LifeInv /\ OneServer /\ TurnInv /\ ClosedInv /\ ExcuseInv

\* The invariant holds when start() has been called.
LEMMA InitLauncher == Init => LauncherInv
<1> SUFFICES ASSUME Init PROVE LauncherInv
  OBVIOUS
<1>1. signals = <<>> /\ signals \in Seq(Sigs) /\ Len(signals) = 0
  BY EmptySeq DEF Init
<1>2. calls \in Seq({"start", "stop"})
  BY DEF Init
<1>3. TypeInv
  <2>1. server \in [Servers -> Life]
    BY DEF Init, Life
  <2>2. gen = 0 /\ connection = 0 /\ process = "null" /\ notifier = FALSE
    BY DEF Init, None
  <2>3. gen \in 0..MaxStarts
    BY <2>2, LauncherAssumption
  <2> QED
    BY <1>1, <1>2, <2>1, <2>2, <2>3 DEF TypeInv
<1>4. LifeInv /\ OneServer
  BY DEF Init, LifeInv, OneServer
<1>5. connection = None
  BY DEF Init
<1>6. TurnInv /\ ClosedInv /\ ExcuseInv
  BY <1>1, <1>5 DEF TurnInv, ClosedInv, ExcuseInv, InTurn, Closed, Opens
<1> QED
  BY <1>3, <1>4, <1>6 DEF LauncherInv

-----------------------------------------------------------------------------
(* The main thread.                                                        *)

\* A signal is received and leaves the connection d.
LEMMA ReceiveStep ==
  ASSUME LauncherInv, signals # <<>>, signals' = Tail(signals), connection' \in Nat,
         UNCHANGED <<calls, launcher, server>>,
         connection' # None =>
           \/ signals[1] = Started(connection') /\ connection' \in Servers
              /\ server[connection'].up
           \/ connection' = connection /\ signals[1] # Finished
  PROVE  LauncherInv'
<1> DEFINE new == Tail(signals)
           d == connection'
<1>1. signals \in Seq(Sigs) /\ new \in Seq(Sigs)
  BY TailFacts DEF LauncherInv, TypeInv
<1>2. TypeInv' /\ LifeInv' /\ OneServer'
  BY <1>1 DEF LauncherInv, TypeInv, LifeInv, OneServer, launcher
<1>3. d # None => \/ signals[1][1] = "started"
                  \/ connection # None /\ signals[1] # Finished
  BY DEF Started
<1>4. TurnInv'
  BY <1>1, <1>3, TailKeepsTurn DEF LauncherInv, TurnInv
<1>5. ClosedInv'
  BY <1>1, <1>3, TailKeepsClosed DEF LauncherInv, ClosedInv, launcher
<1>6. ExcuseInv'
  <2>1. UNCHANGED <<gen, process, server, calls>>
    BY DEF launcher
  <2> SUFFICES ASSUME NEW i \in 0..Len(new), Opens(new, d, i)
               PROVE  Excused(new, d, i)
    BY <2>1 DEF ExcuseInv, Excused, FinishedAfter, Opens, ServerOf, Contains
  <2>0. Len(new) = Len(signals) - 1 /\ (\A n \in 1..(Len(signals) - 1) : new[n] = signals[n + 1])
        /\ Len(signals) \in Nat /\ Len(signals) >= 1
    BY <1>1, TailFacts
  <2>3. FinishedAfter(signals, i + 1) => FinishedAfter(new, i)
    BY <1>1, TailKeepsFinished
  <2>4. CASE i # 0
    <3>1. Opens(signals, connection, i + 1) /\ i + 1 \in 0..Len(signals)
          /\ ServerOf(signals, connection, i + 1) = ServerOf(new, d, i)
      BY <2>0, <2>4 DEF Opens, ServerOf
    <3>2. Excused(signals, connection, i + 1)
      BY <3>1 DEF LauncherInv, ExcuseInv
    <3> QED
      BY <2>3, <2>4, <3>1, <3>2 DEF Excused
  <2>5. CASE i = 0 /\ signals[1] = Started(d) /\ d \in Servers /\ server[d].up
    <3>1. Opens(signals, connection, 1) /\ 1 \in 0..Len(signals)
          /\ ServerOf(signals, connection, 1) = d
      BY <2>0, <2>5 DEF Opens, ServerOf, Started
    <3>2. Excused(signals, connection, 1)
      BY <3>1 DEF LauncherInv, ExcuseInv
    <3> QED
      BY <2>3, <2>5, <3>1, <3>2 DEF Excused, ServerOf
  <2>6. CASE i = 0 /\ d = connection /\ signals[1] # Finished
    <3>1. Opens(signals, connection, 0) /\ 0 \in 0..Len(signals)
          /\ ServerOf(signals, connection, 0) = d
      BY <2>0, <2>6 DEF Opens, ServerOf
    <3>2. Excused(signals, connection, 0)
      BY <3>1 DEF LauncherInv, ExcuseInv
    <3>3. FinishedAfter(signals, 0) => FinishedAfter(signals, 1)
      BY <2>0, <2>6 DEF FinishedAfter
    <3> QED
      BY <2>3, <2>6, <3>1, <3>2, <3>3 DEF Excused, ServerOf
  <2> QED
    BY <2>4, <2>5, <2>6 DEF Opens
<1> QED
  BY <1>2, <1>4, <1>5, <1>6 DEF LauncherInv

\* The handlers of started, finished and errorOccurred keep the invariant.
LEMMA MainThreadStep ==
  ASSUME LauncherInv, MainThread
  PROVE  LauncherInv'
<1>1. signals \in Seq(Sigs) /\ connection \in Nat
  BY DEF LauncherInv, TypeInv
<1>2. CASE ReadyConnects
  <2>1. PICK g \in Servers : /\ Received(Started(g)) /\ server[g].up /\ connection' = g
                             /\ UNCHANGED <<calls, launcher, server>>
    BY <1>2 DEF ReadyConnects
  <2>2. signals # <<>> /\ signals' = Tail(signals) /\ signals[1] = Started(g)
    BY <1>1, <2>1, TailFacts DEF Received
  <2>3. connection' \in Nat
    BY <2>1 DEF Servers
  <2> QED
    BY <2>1, <2>2, <2>3, ReceiveStep
<1>3. CASE ReadyFails \/ ReadyHangs
  <2>1. PICK g \in Servers : /\ Received(Started(g)) /\ connection' = connection
                             /\ UNCHANGED <<calls, launcher, server>>
    BY <1>3 DEF ReadyFails, ReadyHangs
  <2>2. signals # <<>> /\ signals' = Tail(signals) /\ Head(signals) = Started(g)
    BY <2>1 DEF Received
  <2>3. Started(g) # Finished
    BY DEF Started, Finished
  <2>4. signals[1] # Finished
    BY <1>1, <2>2, <2>3, TailFacts
  <2> QED
    BY <1>1, <2>1, <2>2, <2>4, ReceiveStep
<1>4. CASE HandleFinished
  <2>1. signals # <<>> /\ signals' = Tail(signals) /\ connection' = None
        /\ UNCHANGED <<calls, launcher, server>>
    BY <1>4 DEF HandleFinished, Received
  <2>2. connection' \in Nat
    BY <2>1 DEF None
  <2> QED
    BY <2>1, <2>2, ReceiveStep
<1>5. CASE HandleError
  <2>1. signals # <<>> /\ signals' = Tail(signals) /\ connection' = connection
        /\ UNCHANGED <<calls, launcher, server>> /\ Head(signals) = Error
    BY <1>5 DEF HandleError, Received
  <2>2. signals[1] # Finished
    BY <1>1, <2>1, TailFacts DEF Error, Finished
  <2> QED
    BY <1>1, <2>1, <2>2, ReceiveStep
<1> QED
  BY <1>2, <1>3, <1>4, <1>5 DEF MainThread

-----------------------------------------------------------------------------
(* The launcher's thread.                                                  *)

\* Steps after which all that the main thread knows of is about to close.
LEMMA ClosedSuffices ==
  ASSUME Closed(signals, connection)', InTurn(signals, connection)'
  PROVE  TurnInv' /\ ClosedInv' /\ ExcuseInv'
BY DEF TurnInv, ClosedInv, ExcuseInv, Excused, Closed

NoneUp == \A g \in Servers : ~server[g].up

\* The next server is started when none is up.
LEMMA NextServer ==
  ASSUME LauncherInv, NoneUp, StartInternal,
         server' = [server EXCEPT ![gen + 1].up = TRUE]
  PROVE  /\ server' \in [Servers -> Life] /\ gen' \in Nat /\ gen \in Nat
         /\ LifeInv' /\ OneServer'
<1>1. server \in [Servers -> Life] /\ gen \in Nat
  BY LauncherAssumption DEF LauncherInv, TypeInv
<1>2. \A g \in Servers : /\ server'[g] \in Life
                         /\ server'[g].end = server[g].end /\ server'[g].wrote = server[g].wrote
                         /\ server'[g].up => g = gen + 1
  BY <1>1 DEF NoneUp, Life
<1>3. server' \in [Servers -> Life]
  BY <1>1, <1>2
<1>4. gen' = gen + 1 /\ process' = "Starting" /\ wayland' = gen + 1
  BY DEF StartInternal
<1>5. OneServer'
  BY <1>2, <1>4 DEF OneServer, Servers
<1>6. LifeInv'
  <2> SUFFICES ASSUME NEW g \in Servers
               PROVE  /\ server'[g].end # "none" => ~server'[g].up /\ g <= gen'
                      /\ server'[g].wrote => g <= gen'
                      /\ server'[g].wrote /\ server'[g].up => process' = "Running"
    BY DEF LifeInv, Servers
  <2>1. g \in Nat
    BY LauncherAssumption DEF Servers
  <2>2. /\ server[g].end # "none" => g <= gen
        /\ server[g].wrote => g <= gen
    BY DEF LauncherInv, LifeInv
  <2> QED
    BY <1>1, <1>2, <1>4, <2>1, <2>2
<1> QED
  BY <1>1, <1>3, <1>4, <1>5, <1>6

\* Steps that leave the servers alone when none is up.
LEMMA NoServer ==
  ASSUME LauncherInv, NoneUp, server' = server, gen' = gen
  PROVE  LifeInv' /\ OneServer'
BY DEF LauncherInv, TypeInv, LifeInv, OneServer, NoneUp, Servers

\* No server is up when the launcher has no process or has seen its end.
LEMMA NoneUpIf ==
  ASSUME LauncherInv, process \in {"null", "NotRunning"} \/ ~server[gen].up
  PROVE  NoneUp
BY DEF LauncherInv, OneServer, NoneUp

\* finished and errorOccurred are signals and open nothing.
LEMMA SignalTypes ==
  /\ Finished \in Sigs /\ Finished[1] # "started"
  /\ Error \in Sigs /\ Error[1] # "started"
BY DEF Finished, Error, Sigs, None

\* onStartRequested keeps the invariant.
LEMMA StartStep ==
  ASSUME LauncherInv, OnStartRequested
  PROVE  LauncherInv'
<1>1. /\ process = "null" /\ calls # <<>> /\ calls' = Tail(calls)
      /\ connection' = connection
  BY DEF OnStartRequested, main
<1>2. NoneUp
  BY <1>1, NoneUpIf
<1>3. /\ signals \in Seq(Sigs) /\ Closed(signals, connection) /\ InTurn(signals, connection)
      /\ calls' \in Seq({"start", "stop"}) /\ connection \in Nat
  BY <1>1 DEF LauncherInv, TypeInv, ClosedInv, TurnInv
<1>4. CASE /\ gen < MaxStarts /\ StartInternal /\ signals' = signals
           /\ server' = [server EXCEPT ![gen + 1].up = TRUE]
  <2>1. /\ server' \in [Servers -> Life] /\ gen \in Nat
        /\ LifeInv' /\ OneServer'
    BY <1>2, <1>4, NextServer
  <2>2. TurnInv' /\ ClosedInv' /\ ExcuseInv'
    BY <1>1, <1>3, <1>4, ClosedSuffices
  <2>3. TypeInv'
    BY <1>1, <1>3, <1>4, <2>1, LauncherAssumption DEF TypeInv, StartInternal, Servers
  <2> QED
    BY <2>1, <2>2, <2>3 DEF LauncherInv
<1>5. CASE StartFails /\ signals' = Append(signals, Error) /\ UNCHANGED server
  <2>1. LifeInv' /\ OneServer'
    BY <1>2, <1>5, NoServer DEF StartFails
  <2>2. Closed(signals', connection') /\ InTurn(signals', connection') /\ signals' \in Seq(Sigs)
    BY <1>1, <1>3, <1>5, SignalTypes, AppendKeepsClosed, AppendKeepsTurn, AppendFacts
  <2>3. TurnInv' /\ ClosedInv' /\ ExcuseInv'
    BY <2>2, ClosedSuffices
  <2>4. TypeInv'
    BY <1>1, <1>3, <1>5, <2>2 DEF TypeInv, StartFails, LauncherInv
  <2> QED
    BY <2>1, <2>3, <2>4 DEF LauncherInv
<1> QED
  BY <1>4, <1>5 DEF OnStartRequested

\* finished() is sent: everything before it is closed.
LEMMA SendFinished ==
  ASSUME NEW sig \in Seq(Sigs), NEW c, InTurn(sig, c)
  PROVE  /\ Append(sig, Finished) \in Seq(Sigs)
         /\ InTurn(Append(sig, Finished), c) /\ Closed(Append(sig, Finished), c)
BY SignalTypes, AppendFacts, AppendKeepsTurn, FinishedCloses

\* onStopRequested keeps it: the server ends and finished() is sent.
LEMMA StopStep ==
  ASSUME LauncherInv, OnStopRequested
  PROVE  LauncherInv'
<1>1. connection' = connection /\ gen' = gen /\ calls # <<>> /\ calls' = Tail(calls)
  BY DEF OnStopRequested, main
<1>2. /\ signals \in Seq(Sigs) /\ InTurn(signals, connection) /\ connection \in Nat
      /\ calls' \in Seq({"start", "stop"}) /\ gen \in 0..MaxStarts
      /\ server \in [Servers -> Life]
  BY <1>1 DEF LauncherInv, TypeInv, TurnInv
<1>3. CASE process = "null"
  <2>1. UNCHANGED <<process, notifier, wayland, signals, server>>
    BY <1>3 DEF OnStopRequested
  <2>2. LifeInv' /\ OneServer'
    BY <1>1, <1>3, <2>1, NoneUpIf, NoServer
  <2>3. TypeInv'
    BY <1>1, <1>2, <1>3, <2>1 DEF LauncherInv, TypeInv
  <2>4. Closed(signals, connection)
    BY <1>3 DEF LauncherInv, ClosedInv
  <2>5. TurnInv' /\ ClosedInv' /\ ExcuseInv'
    BY <1>1, <1>2, <2>1, <2>4, ClosedSuffices
  <2> QED
    BY <2>2, <2>3, <2>5 DEF LauncherInv
<1>4. CASE process # "null"
  <2>1. /\ signals' = signals \o <<Finished>>
        /\ process' = "null" /\ notifier' = FALSE
        /\ server' \in IF process # "NotRunning" /\ server[gen].up
                       THEN Terminated(gen) ELSE {server}
    BY <1>4 DEF OnStopRequested, StopSignals
  <2>2. signals' = Append(signals, Finished)
    BY <1>2, <2>1, SignalTypes
  <2>3. /\ server' \in [Servers -> Life]
        /\ \A g \in Servers : ~server'[g].up
        /\ \A g \in Servers : /\ server'[g].end # "none" => g <= gen
                              /\ server'[g].wrote => g <= gen
    <3>1. CASE process # "NotRunning" /\ server[gen].up
      <4>1. PICK b \in BOOLEAN :
               server' = [server EXCEPT ![gen].up = FALSE, ![gen].end = "exit",
                                        ![gen].shut = @ \/ (server[gen].wrote /\ b)]
        BY <2>1, <3>1 DEF Terminated
      <4>2. \A g \in Servers :
               /\ server'[g] \in Life
               /\ server'[g].wrote = server[g].wrote
               /\ server'[g].up => server[g].up /\ g # gen
               /\ server'[g].end = server[g].end \/ g = gen
        BY <1>2, <4>1 DEF Life
      <4>3. server' \in [Servers -> Life]
        BY <1>2, <4>1, <4>2
      <4>4. gen <= gen
        BY <1>2, LauncherAssumption
      <4> QED
        BY <4>2, <4>3, <4>4 DEF LauncherInv, OneServer, LifeInv
    <3>2. CASE ~(process # "NotRunning" /\ server[gen].up)
      <4>1. server' = server
        BY <2>1, <3>2
      <4>2. NoneUp
        BY <3>2, NoneUpIf
      <4> QED
        BY <1>2, <4>1, <4>2 DEF NoneUp, LauncherInv, LifeInv
    <3> QED
      BY <3>1, <3>2
  <2>4. LifeInv' /\ OneServer'
    BY <1>1, <2>3 DEF LifeInv, OneServer, Servers
  <2>5. /\ signals' \in Seq(Sigs) /\ Closed(signals', connection')
        /\ InTurn(signals', connection')
    BY <1>1, <1>2, <2>2, SendFinished
  <2>6. TurnInv' /\ ClosedInv' /\ ExcuseInv'
    BY <2>5, ClosedSuffices
  <2>7. TypeInv'
    BY <1>1, <1>2, <2>1, <2>3, <2>5 DEF TypeInv
  <2> QED
    BY <2>4, <2>6, <2>7 DEF LauncherInv
<1> QED
  BY <1>3, <1>4

\* Steps that send nothing and keep every excuse.
LEMMA QuietSuffices ==
  ASSUME LauncherInv, signals' = signals, connection' = connection,
         process' = "null" \/ notifier' => process = "null" \/ notifier,
         \A i \in 0..Len(signals) :
           Opens(signals, connection, i) /\ Excused(signals, connection, i) =>
             \/ FinishedAfter(signals, i)
             \/ /\ ServerOf(signals, connection, i) = gen'
                /\ process' = "Running" \/ (i # 0 /\ ~server'[gen'].up)
             \/ process' = "NotRunning" /\ Contains(calls', "stop")
  PROVE  TurnInv' /\ ClosedInv' /\ ExcuseInv'
<1>1. TurnInv'
  BY DEF LauncherInv, TurnInv
<1>2. ClosedInv'
  BY DEF LauncherInv, ClosedInv
<1>3. ExcuseInv'
  <2> SUFFICES ASSUME NEW i \in 0..Len(signals), Opens(signals, connection, i)
               PROVE  \/ FinishedAfter(signals, i)
                      \/ /\ ServerOf(signals, connection, i) = gen'
                         /\ process' = "Running" \/ (i # 0 /\ ~server'[gen'].up)
                      \/ process' = "NotRunning" /\ Contains(calls', "stop")
    BY DEF ExcuseInv, Excused
  <2>1. Excused(signals, connection, i)
    BY DEF LauncherInv, ExcuseInv
  <2> QED
    BY <2>1
<1> QED
  BY <1>1, <1>2, <1>3

\* What QProcess reports of the start keeps the invariant.
LEMMA ProcessStep ==
  ASSUME LauncherInv, ProcessStarted \/ FailedToStart
  PROVE  LauncherInv'
<1>1. /\ process = "Starting"
      /\ UNCHANGED <<calls, gen, notifier, wayland, signals, connection, server>>
  BY DEF ProcessStarted, FailedToStart, main
<1>2. process' \in {"Running", "NotRunning"}
      /\ (process' = "NotRunning" => server[gen].end = "noexec")
  BY DEF ProcessStarted, FailedToStart
<1>3. TypeInv'
  BY <1>1, <1>2 DEF LauncherInv, TypeInv
<1>4. \A g \in Servers : server[g].up => g = gen /\ process' = "Running" /\ wayland = g
  BY <1>1, <1>2 DEF LauncherInv, OneServer, LifeInv
<1>5. LifeInv' /\ OneServer'
  BY <1>1, <1>4 DEF LauncherInv, LifeInv, OneServer, Servers
<1>6. TurnInv' /\ ClosedInv' /\ ExcuseInv'
  <2>1. process' # "null"
    BY <1>2
  <2>2. \A i \in 0..Len(signals) : Excused(signals, connection, i) =>
           FinishedAfter(signals, i) \/ (ServerOf(signals, connection, i) = gen /\ i # 0 /\ ~server[gen].up)
    BY <1>1 DEF Excused
  <2> QED
    BY <1>1, <2>1, <2>2, QuietSuffices
<1> QED
  BY <1>3, <1>5, <1>6 DEF LauncherInv

\* started() is only sent when all before it is closed.
LEMMA NotifiedStep ==
  ASSUME LauncherInv, ReadyNotified
  PROVE  LauncherInv'
<1>1. /\ notifier /\ notifier' = FALSE /\ signals' = Append(signals, Started(gen))
      /\ UNCHANGED <<calls, process, gen, wayland, connection, server>>
      /\ server[gen].wrote \/ ~server[gen].up
  BY DEF ReadyNotified, main
<1>2. /\ signals \in Seq(Sigs) /\ Closed(signals, connection) /\ InTurn(signals, connection)
      /\ gen \in Servers /\ process # "null"
  BY <1>1 DEF LauncherInv, TypeInv, ClosedInv, TurnInv
<1>3. Started(gen) \in Sigs /\ Started(gen)[1] = "started" /\ Started(gen)[2] = gen
  BY <1>2, LauncherAssumption DEF Started, Sigs, Servers
<1>4. /\ signals' \in Seq(Sigs) /\ Len(signals') = Len(signals) + 1
      /\ signals'[Len(signals) + 1] = Started(gen)
      /\ (\A i \in 1..Len(signals) : signals'[i] = signals[i]) /\ Len(signals) \in Nat
  BY <1>1, <1>2, <1>3, AppendFacts
<1>5. TypeInv'
  BY <1>1, <1>4 DEF LauncherInv, TypeInv
<1>6. LifeInv' /\ OneServer'
  BY <1>1 DEF LauncherInv, LifeInv, OneServer, Servers
<1>7. TurnInv'
  BY <1>1, <1>2, <1>3, AppendKeepsTurn DEF TurnInv
<1>8. ClosedInv'
  BY <1>1, <1>2 DEF ClosedInv
<1>9. ExcuseInv'
  <2>1. process = "Running" \/ ~server[gen].up
    BY <1>1, <1>2 DEF LauncherInv, LifeInv
  <2> SUFFICES ASSUME NEW i \in 0..Len(signals'), Opens(signals', connection, i)
               PROVE  \/ FinishedAfter(signals', i)
                      \/ /\ ServerOf(signals', connection, i) = gen
                         /\ process = "Running" \/ (i # 0 /\ ~server[gen].up)
    BY <1>1 DEF ExcuseInv, Excused
  <2>2. CASE i = Len(signals) + 1
    BY <1>3, <1>4, <2>1, <2>2 DEF ServerOf
  <2>3. CASE i \in 0..Len(signals)
    <3>1. Opens(signals, connection, i)
      BY <1>4, <2>3 DEF Opens
    <3>2. FinishedAfter(signals, i)
      BY <1>2, <2>3, <3>1 DEF Closed
    <3> QED
      BY <1>1, <1>2, <1>3, <2>3, <3>2, AppendKeepsFinished
  <2> QED
    BY <1>4, <2>2, <2>3
<1> QED
  BY <1>5, <1>6, <1>7, <1>8, <1>9 DEF LauncherInv

\* The signal of a crash opens nothing.
LEMMA SendCrash ==
  ASSUME LauncherInv, NEW sig, sig = signals \o CrashSignals
  PROVE  /\ sig \in Seq(Sigs) /\ InTurn(sig, connection)
         /\ Closed(signals, connection) => Closed(sig, connection)
         /\ \A i \in 0..Len(sig) : Opens(sig, connection, i) =>
              /\ i \in 0..Len(signals) /\ Opens(signals, connection, i)
              /\ ServerOf(sig, connection, i) = ServerOf(signals, connection, i)
              /\ FinishedAfter(signals, i) => FinishedAfter(sig, i)
<1>1. signals \in Seq(Sigs) /\ InTurn(signals, connection)
  BY DEF LauncherInv, TypeInv, TurnInv
<1>2. CASE server[gen].end # "crash"
  <2>1. sig = signals
    BY <1>1, <1>2 DEF CrashSignals
  <2> QED
    BY <1>1, <2>1
<1>3. CASE server[gen].end = "crash"
  <2>1. sig = Append(signals, Error)
    BY <1>1, <1>3, SignalTypes DEF CrashSignals
  <2>2. sig \in Seq(Sigs) /\ InTurn(sig, connection)
        /\ (Closed(signals, connection) => Closed(sig, connection))
    BY <1>1, <2>1, SignalTypes, AppendFacts, AppendKeepsTurn, AppendKeepsClosed
  <2>3. ASSUME NEW i \in 0..Len(sig), Opens(sig, connection, i)
        PROVE  /\ i \in 0..Len(signals) /\ Opens(signals, connection, i)
               /\ ServerOf(sig, connection, i) = ServerOf(signals, connection, i)
    BY <1>1, <2>1, <2>3, SignalTypes, AppendFacts DEF Opens, ServerOf
  <2> QED
    BY <1>1, <2>1, <2>2, <2>3, SignalTypes, AppendKeepsFinished
<1> QED
  BY <1>2, <1>3

\* A restart sends finished() before the new server can report.
LEMMA RestartStep ==
  ASSUME LauncherInv, FinishedRestart
  PROVE  LauncherInv'
<1> DEFINE sig == signals \o CrashSignals
<1>1. connection' = connection /\ calls' = calls /\ ~server[gen].up
  BY DEF FinishedRestart, NoticesEnd, main
<1>2. NoneUp
  BY <1>1, NoneUpIf
<1>3. sig \in Seq(Sigs) /\ InTurn(sig, connection)
  BY SendCrash
<1>4. sig \o StopSignals = Append(sig, Finished)
  BY <1>3, SignalTypes DEF StopSignals
<1> HIDE DEF sig
<1>5. /\ Append(sig, Finished) \in Seq(Sigs)
      /\ InTurn(Append(sig, Finished), connection) /\ Closed(Append(sig, Finished), connection)
  BY <1>3, SendFinished
<1>6. CASE /\ gen < MaxStarts /\ StartInternal
           /\ server' = [server EXCEPT ![gen + 1].up = TRUE]
           /\ signals' = sig \o StopSignals
  <2>1. /\ server' \in [Servers -> Life] /\ gen \in Nat
        /\ LifeInv' /\ OneServer'
    BY <1>2, <1>6, NextServer
  <2>2. TurnInv' /\ ClosedInv' /\ ExcuseInv'
    BY <1>1, <1>4, <1>5, <1>6, ClosedSuffices
  <2>3. TypeInv'
    BY <1>1, <1>4, <1>5, <1>6, <2>1, LauncherAssumption
       DEF LauncherInv, TypeInv, StartInternal, Servers
  <2> QED
    BY <2>1, <2>2, <2>3 DEF LauncherInv
<1>7. CASE /\ StartFails /\ UNCHANGED server
           /\ signals' = sig \o StopSignals \o <<Error>>
  <2>1. LifeInv' /\ OneServer'
    BY <1>2, <1>7, NoServer DEF StartFails
  <2>2. signals' = Append(Append(sig, Finished), Error)
    BY <1>4, <1>5, <1>7, SignalTypes
  <2>3. signals' \in Seq(Sigs) /\ Closed(signals', connection') /\ InTurn(signals', connection')
    BY <1>1, <1>5, <2>2, SignalTypes, AppendKeepsClosed, AppendKeepsTurn, AppendFacts
  <2>4. TurnInv' /\ ClosedInv' /\ ExcuseInv'
    BY <2>3, ClosedSuffices
  <2>5. TypeInv'
    BY <1>1, <1>7, <2>3 DEF TypeInv, StartFails, LauncherInv
  <2> QED
    BY <2>1, <2>4, <2>5 DEF LauncherInv
<1> QED
  BY <1>6, <1>7 DEF FinishedRestart, sig

\* Giving up posts the stop() that will send finished().
LEMMA GiveUpStep ==
  ASSUME LauncherInv, FinishedStop
  PROVE  LauncherInv'
<1> DEFINE sig == signals \o CrashSignals
<1>1. /\ process = "Running" /\ ~server[gen].up /\ process' = "NotRunning"
      /\ calls' = Append(calls, "stop") /\ signals' = sig
      /\ UNCHANGED <<gen, notifier, wayland, connection, server>>
  BY DEF FinishedStop, NoticesEnd, main
<1>2. /\ sig \in Seq(Sigs) /\ InTurn(sig, connection)
      /\ Closed(signals, connection) => Closed(sig, connection)
  BY SendCrash
<1> HIDE DEF sig
<1>3. calls' \in Seq({"start", "stop"}) /\ Contains(calls', "stop")
  <2>1. calls \in Seq({"start", "stop"})
    BY DEF LauncherInv, TypeInv
  <2> QED
    BY <1>1, <2>1 DEF Contains
<1>4. TypeInv'
  BY <1>1, <1>2, <1>3 DEF LauncherInv, TypeInv
<1>5. LifeInv' /\ OneServer'
  BY <1>1, NoneUpIf, NoServer
<1>6. TurnInv'
  BY <1>1, <1>2 DEF TurnInv
<1>7. ClosedInv'
  BY <1>1, <1>2 DEF LauncherInv, ClosedInv
<1>8. ExcuseInv'
  BY <1>1, <1>3 DEF ExcuseInv, Excused
<1> QED
  BY <1>4, <1>5, <1>6, <1>7, <1>8 DEF LauncherInv

-----------------------------------------------------------------------------
(* Everything else.                                                        *)

\* Steps that touch at most the calls, and those only by adding a stop().
LEMMA CallStep ==
  ASSUME LauncherInv,
         UNCHANGED <<process, gen, notifier, wayland, signals, connection, server>>,
         calls' = calls \/ calls' = Append(calls, "stop")
  PROVE  LauncherInv'
<1>1. calls \in Seq({"start", "stop"})
  BY DEF LauncherInv, TypeInv
<1>2. calls' \in Seq({"start", "stop"})
      /\ (Contains(calls, "stop") => Contains(calls', "stop"))
  BY <1>1 DEF Contains
<1>3. TypeInv'
  BY <1>2 DEF LauncherInv, TypeInv
<1>4. LifeInv' /\ OneServer'
  BY DEF LauncherInv, LifeInv, OneServer, Servers
<1>5. TurnInv' /\ ClosedInv' /\ ExcuseInv'
  BY <1>2, QuietSuffices DEF Excused
<1> QED
  BY <1>3, <1>4, <1>5 DEF LauncherInv

\* The server writes its name, shuts the connection down or ends.
LEMMA ServerStep ==
  ASSUME LauncherInv, ServerReady \/ ServerShuts \/ ServerEnds
  PROVE  LauncherInv'
<1>1. UNCHANGED <<calls, process, gen, notifier, wayland, signals, connection>>
  BY DEF ServerReady, ServerShuts, ServerEnds, Outside, launcher, main
<1>2. server \in [Servers -> Life] /\ gen \in 0..MaxStarts
  BY DEF LauncherInv, TypeInv
<1>3. /\ server' \in [Servers -> Life]
      /\ \A g \in Servers :
           /\ server'[g].up => server[g].up
           /\ server'[g].end = server[g].end \/ (g = gen /\ ~server'[g].up)
           /\ server'[g].wrote = server[g].wrote \/ (g = gen /\ process = "Running")
  <2>1. CASE ServerReady
    BY <1>2, <2>1 DEF ServerReady, Life
  <2>2. CASE ServerShuts
    BY <1>2, <2>2 DEF ServerShuts, Life
  <2>3. CASE ServerEnds
    <3>1. CASE server' = [server EXCEPT ![gen].up = FALSE, ![gen].end = "crash"]
      BY <1>2, <3>1 DEF Life
    <3>2. CASE server' = [server EXCEPT ![gen].up = FALSE, ![gen].end = "exit",
                                        ![gen].shut = @ \/ server[gen].wrote]
      <4> DEFINE shut == server[gen].shut \/ server[gen].wrote
      <4>1. shut \in BOOLEAN
        OBVIOUS
      <4>2. server' = [server EXCEPT ![gen].up = FALSE, ![gen].end = "exit", ![gen].shut = shut]
        BY <3>2
      <4> HIDE DEF shut
      <4> QED
        BY <1>2, <4>1, <4>2 DEF Life
    <3>3. CASE server' = [server EXCEPT ![gen].up = FALSE, ![gen].end = "noexec"]
      BY <1>2, <3>3 DEF Life
    <3> QED
      BY <2>3, <3>1, <3>2, <3>3 DEF ServerEnds
  <2> QED
    BY <2>1, <2>2, <2>3
<1>4. TypeInv'
  BY <1>1, <1>3 DEF LauncherInv, TypeInv
<1>5. OneServer'
  BY <1>1, <1>3 DEF LauncherInv, OneServer, Servers
<1>6. LifeInv'
  <2>1. gen <= gen
    BY <1>2, LauncherAssumption
  <2> QED
    BY <1>1, <1>3, <2>1 DEF LauncherInv, LifeInv, Servers
<1>7. gen \in Servers
  BY <1>2, LauncherAssumption DEF ServerReady, ServerShuts, ServerEnds, Servers
<1>8. TurnInv' /\ ClosedInv' /\ ExcuseInv'
  BY <1>1, <1>3, <1>7, QuietSuffices DEF Excused
<1> QED
  BY <1>4, <1>5, <1>6, <1>8 DEF LauncherInv

-----------------------------------------------------------------------------
(* The theorems.                                                           *)

\* Every step keeps the invariant.
LEMMA NextLauncher == LauncherInv /\ [Next]_vars => LauncherInv'
<1> SUFFICES ASSUME LauncherInv, [Next]_vars PROVE LauncherInv'
  OBVIOUS
<1>1. CASE LauncherThread
  BY <1>1, StartStep, StopStep, ProcessStep, NotifiedStep, RestartStep, GiveUpStep
     DEF LauncherThread
<1>2. CASE MainThread
  BY <1>2, MainThreadStep
<1>3. CASE ResetCrashCount \/ RoundTripHangs \/ SelectionClaimed
  <2>1. UNCHANGED <<calls, process, gen, notifier, wayland, signals, connection, server>>
    BY <1>3 DEF ResetCrashCount, RoundTripHangs, SelectionClaimed, launcher, main
  <2> QED
    BY <2>1, CallStep
<1>4. CASE SelectionFailed \/ SelectionLost \/ DispatchBroken
  <2>1. UNCHANGED <<process, gen, notifier, wayland, signals, connection, server>>
        /\ calls' = Append(calls, "stop")
    BY <1>4 DEF SelectionFailed, SelectionLost, DispatchBroken, AskToStop, launcher, main
  <2> QED
    BY <2>1, CallStep
<1>5. CASE ServerReady \/ ServerShuts \/ ServerEnds
  BY <1>5, ServerStep
<1>6. CASE UNCHANGED vars
  <2>1. UNCHANGED <<calls, process, gen, notifier, wayland, signals, connection, server>>
    BY <1>6 DEF vars, launcher, main
  <2> QED
    BY <2>1, CallStep
<1> QED
  BY <1>1, <1>2, <1>3, <1>4, <1>5, <1>6 DEF Next

\* The inductive invariant of the two threads holds in every reachable
\* state, for either crash policy and any bounds.
THEOREM LauncherInvariant == Spec => []LauncherInv
BY InitLauncher, NextLauncher, PTL DEF Spec

\* However many servers crash, are restarted and are stopped, at most the
\* last one started is up, and the launcher watches it: startInternal() and
\* stopInternal() orphan none.
THEOREM OneServerAlways == Spec => []OneServer
<1>1. LauncherInv => OneServer
  BY DEF LauncherInv
<1> QED
  BY <1>1, LauncherInvariant, PTL

\* A connection to a server that is no longer watched is about to be torn
\* down by handleXwaylandFinished() of the main thread.
THEOREM TeardownAlwaysUnderWay == Spec => []TeardownUnderWay
<1>1. LauncherInv => TeardownUnderWay
  <2> SUFFICES ASSUME LauncherInv, connection # None,
                      ~(connection = gen /\ process = "Running")
               PROVE  \/ Contains(signals, Finished)
                      \/ process = "NotRunning" /\ Contains(calls, "stop")
    BY DEF TeardownUnderWay
  <2>1. signals \in Seq(Sigs) /\ 0 \in 0..Len(signals)
    BY DEF LauncherInv, TypeInv
  <2>2. Excused(signals, connection, 0)
    BY <2>1 DEF LauncherInv, ExcuseInv, Opens
  <2> QED
    BY <2>1, <2>2 DEF Excused, FinishedAfter, ServerOf, Contains
<1> QED
  BY <1>1, LauncherInvariant, PTL

\* The main thread never takes an X11 connection while it has another one:
\* finished() comes between two started(), whatever crashes, restarts and
\* calls of stop() there are.
THEOREM ConnectionsAlwaysInTurn == Spec => ConnectionsInTurn
<1>1. LauncherInv /\ [Next]_vars =>
        [connection' # connection => None \in {connection, connection'}]_vars
  <2> SUFFICES ASSUME LauncherInv, Next, connection' # connection
               PROVE  None \in {connection, connection'}
    BY DEF vars
  <2>1. CASE ReadyConnects
    <3>1. PICK g \in Servers : Received(Started(g))
      BY <2>1 DEF ReadyConnects
    <3>2. signals \in Seq(Sigs) /\ signals # <<>> /\ Head(signals) = Started(g)
      BY <3>1 DEF LauncherInv, TypeInv, Received
    <3>3. signals[1][1] = "started" /\ 1 \in 1..Len(signals)
      BY <3>2, TailFacts DEF Started
    <3>4. connection # None => FinishedBetween(signals, 0, 1)
      BY <3>3 DEF LauncherInv, TurnInv, InTurn, Opens
    <3> QED
      BY <3>4 DEF FinishedBetween
  <2>2. CASE HandleFinished
    BY <2>2 DEF HandleFinished
  <2>3. ReadyConnects \/ HandleFinished
    BY DEF Next, LauncherThread, MainThread, OnStartRequested, OnStopRequested,
       ProcessStarted, FailedToStart, ReadyNotified, FinishedRestart, FinishedStop,
       ResetCrashCount, RoundTripHangs, ReadyFails, ReadyHangs, HandleError,
       SelectionClaimed, SelectionFailed, SelectionLost, DispatchBroken, ServerReady,
       ServerShuts, ServerEnds, Outside, main
  <2> QED
    BY <2>1, <2>2, <2>3
<1> QED
  BY <1>1, LauncherInvariant, PTL DEF Spec, ConnectionsInTurn
=============================================================================
