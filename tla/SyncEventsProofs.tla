--------------------------- MODULE SyncEventsProofs ---------------------------
(* The event stream alone keeps NPM in step, for every value of the           *)
(* constants: while no event is lost, no call fails, nobody edits NPM and no  *)
(* container changes during a sweep, all that is in flight between Docker and *)
(* the writer, whatever the order, leaves the table as the containers want.   *)
EXTENDS SyncSweepProofs

-----------------------------------------------------------------------------
(* What is in flight                                                          *)

\* The intents and events under way, in the order in which they will reach
\* the writer: in its hand, in the channel, in the watcher's hand, on the
\* stream.  A start is its event until it is inspected, a die or destroy is
\* the Remove it will become; what comes to nothing is NoIntent.
Begun(c) == [kind |-> "start", container |-> c]

EventItem(e) == IF e.kind # "start" THEN Remove(e.container)
                ELSE IF e.container \in Labeled THEN e ELSE NoIntent

Hand == IF phase \in {"cert", "attach"} THEN NoIntent ELSE intent

Held == IF watch = "inspect" THEN EventItem(inHand)
        ELSE IF watch = "send" THEN inHand ELSE NoIntent

Flight ==
    [n \in Int |->
        IF n = 0 THEN Hand
        ELSE IF n \in 1 .. Len(queue) THEN queue[n]
        ELSE IF n = Len(queue) + 1 THEN Held
        ELSE IF n - Len(queue) - 1 \in 1 .. Len(events)
             THEN EventItem(events[n - Len(queue) - 1])
        ELSE NoIntent]

\* What an item of the flight means to container c: it will have a host made,
\* it will have the right one made, it will do something else about c.
Asks(i, c)    == i.kind \in {"upsert", "start"} /\ i.container = c
Answers(i, c) == i \in {Wanted(c), Begun(c)}
Against(i, c) == i.kind # "none" /\ i.container = c /\ ~Answers(i, c)

\* The hosts, as the items of the flight change them.
Serves(c, t) == \E id \in OwnedBy(c) : hosts[id].target = t
Owns(c)      == \E t : Serves(c, t)
Foreign(c)   == \E d \in Containers :
                    d # c /\ UrlOf[d] = UrlOf[c] /\ Owns(d)

\* If d has a host, or will have one made, a Remove before place m of the
\* flight f ends that, and nothing behind the Remove asks for another.
Cleared(f, d, m) ==
    (Owns(d) \/ \E n \in Int : Asks(f[n], d)) =>
        \E n \in Int : /\ n < m /\ f[n] = Remove(d)
                       /\ \A k \in Int : k > n => ~Asks(f[k], d)

\* Each container that does not run will lose its host.
GoneCleared ==
    CleanupOnRemove =>
        \A d \in Containers \ Running : \E m \in Int : Cleared(Flight, d, m)

Fine(c) == Serves(c, target[c]) \/ (~CleanupOnRemove /\ Foreign(c))

\* Each that runs has what it wants and nothing in flight is against that, or
\* it will get it, last of all that is in flight about it, and whoever had its
\* url has been cleared away by then.
Coming(f, c, m) ==
    /\ Answers(f[m], c)
    /\ \A k \in Int : k > m => ~Against(f[k], c)
    /\ CleanupOnRemove =>
          \A d \in Containers \ {c} : UrlOf[d] = UrlOf[c] => Cleared(f, d, m)

RunningServed ==
    \A c \in Running :
        \/ Fine(c) /\ \A n \in Int : ~Against(Flight[n], c)
        \/ \E m \in Int : Coming(Flight, c, m)

\* No two running containers want one url.
RunningApart == \A c, d \in Running : UrlOf[c] = UrlOf[d] => c = d

\* The table of NPM while nobody but the writer changes it: one host per url,
\* with exactly its owner's, and remembered.
Rows ==
    /\ \A id \in DOMAIN hosts :
          /\ hosts[id].owner \in Containers
          /\ hosts[id].domains = {UrlOf[hosts[id].owner]}
          /\ hosts[id].owner \in DOMAIN cache /\ cache[hosts[id].owner] = id
    /\ \A i, j \in DOMAIN hosts :
          UrlOf[hosts[i].owner] = UrlOf[hosts[j].owner] => i = j

\* What the writer has seen of it.
Seen ==
    /\ phase = "seed" => DOMAIN hosts = {}
    /\ phase = "create" =>
          \A id \in DOMAIN hosts :
              UrlOf[hosts[id].owner] # UrlOf[intent.container]
    /\ Aims /\ DeleteAims

TableInv == Rows /\ Seen

\* Containers do not change during a sweep, so what it plans is right.
SweepRight ==
    /\ todo \subseteq Running
    /\ specs \subseteq Upserts
    /\ \A o \in orphans : o[2] \in Containers \ Running
    /\ sweep = "inspect" => orphans = {} /\ Running \subseteq todo \cup Alive

\* The stream is opened once and stays open.
StreamOpen ==
    /\ subscribed => watch \in {"next", "inspect", "send"}
    /\ ~subscribed => watch = "connect" /\ events = << >>
    /\ watch = "inspect" => inHand.kind = "start"

EventsInv ==
    excuse = {} => /\ TableInv /\ SweepRight /\ StreamOpen /\ RunningApart
                   /\ GoneCleared /\ RunningServed

-----------------------------------------------------------------------------
(* What items mean                                                            *)

\* Each kind of item, and what it means to a container.
LEMMA ItemsMean ==
    /\ \A c, d : /\ ~Asks(Remove(c), d) /\ ~Answers(Remove(c), d)
                 /\ Against(Remove(c), d) <=> c = d
                 /\ Asks(Begun(c), d) <=> c = d
                 /\ ~Against(Begun(c), d) /\ ~Against(Wanted(c), d)
                 /\ Answers(Begun(c), d) => c = d
                 /\ Begun(c) # Remove(d)
    /\ \A c, d, t : /\ Asks(Upsert(c, t), d) <=> c = d
                    /\ Answers(Upsert(c, t), d) => c = d /\ t = target[c]
                    /\ ~Against(Upsert(c, t), c) => t = target[c]
                    /\ Begun(c) # Upsert(d, t)
    /\ \A d : /\ ~Asks(NoIntent, d) /\ ~Against(NoIntent, d)
              /\ ~Answers(NoIntent, d)
              /\ Begun(d) # NoIntent
  <1>1. /\ NoIntent.kind = "none"
        /\ \A c : /\ Remove(c).kind = "remove" /\ Remove(c).container = c
                  /\ Begun(c).kind = "start" /\ Begun(c).container = c
        /\ \A c, t : Upsert(c, t).kind = "upsert" /\ Upsert(c, t).container = c
                     /\ Upsert(c, t).target = t
    BY DEF NoIntent, Remove, Begun, Upsert
  <1>2. \A c, d : Answers(Remove(c), d) = FALSE
    BY <1>1 DEF Answers, Wanted
  <1>3. \A c, d : Answers(Begun(c), d) <=> c = d
    BY <1>1 DEF Answers, Wanted
  <1>4. \A c, d, t : Answers(Upsert(c, t), d) <=> c = d /\ t = target[c]
    BY <1>1 DEF Answers, Wanted
  <1>5. \A d : Answers(NoIntent, d) = FALSE
    BY <1>1 DEF Answers, Wanted
  <1>6. \A c, d : /\ ~Asks(Remove(c), d) /\ (Asks(Begun(c), d) <=> c = d)
                  /\ ~Asks(NoIntent, d)
    BY <1>1 DEF Asks
  <1>7. \A c, d, t : Asks(Upsert(c, t), d) <=> c = d
    BY <1>1 DEF Asks
  <1>8. \A c, d : /\ Against(Remove(c), d) <=> c = d
                  /\ ~Against(Begun(c), d) /\ ~Against(Wanted(c), d)
                  /\ ~Against(NoIntent, d)
    BY <1>1, <1>2, <1>3, <1>4, <1>5 DEF Against, Wanted
  <1>9. \A c, t : ~Against(Upsert(c, t), c) => t = target[c]
    BY <1>1, <1>4 DEF Against
  <1>10. \A c, d, t : Begun(c) # Remove(d) /\ Begun(c) # NoIntent
                      /\ Begun(c) # Upsert(d, t)
    BY <1>1
  <1> QED
    BY <1>2, <1>3, <1>4, <1>5, <1>6, <1>7, <1>8, <1>9, <1>10

\* Steps that shift the items in flight, learn the target of a start, or add a
\* right intent anywhere, leave what is said of them true.
LEMMA FlightMoves ==
    ASSUME UNCHANGED containerVars,
           \A d, t : Serves(d, t)' <=> Serves(d, t),
           RunningApart,
           NEW f, f = Flight, NEW g, g = Flight', NEW s \in [Int -> Int],
           \A n \in Int : \A d : f[n] = Remove(d) => g[s[n]] = Remove(d),
           \A n \in Int : \A c \in Running :
              Answers(f[n], c) => Answers(g[s[n]], c),
           \A n, k \in Int : n < k /\ f[n] # NoIntent /\ f[k] # NoIntent
                                => s[n] < s[k],
           \A k \in Int : \/ g[k] = NoIntent \/ g[k] \in Right
                          \/ \E n \in Int :
                                /\ s[n] = k /\ f[n] # NoIntent
                                /\ \/ g[k] = f[n]
                                   \/ \E c : f[n] = Begun(c) /\ g[k] = Wanted(c)
    PROVE  /\ GoneCleared => GoneCleared'
           /\ RunningServed => RunningServed'
  <1>1. /\ Running' = Running /\ target' = target
        /\ \A i, c : Answers(i, c)' <=> Answers(i, c)
        /\ \A i, c : Against(i, c)' <=> Against(i, c)
        /\ \A i, c : Asks(i, c)' <=> Asks(i, c)
    BY DEF containerVars, Running, Answers, Against, Asks, Wanted
  <1>2. /\ \A d : Owns(d)' <=> Owns(d)
        /\ \A c : Fine(c)' <=> Fine(c)
    BY <1>1 DEF Owns, Fine, Foreign
  <1>3. \A k \in Int : \A d : d \notin Running /\ Asks(g[k], d) =>
           \E n \in Int : s[n] = k /\ Asks(f[n], d) /\ f[n] # NoIntent
    <2> SUFFICES ASSUME NEW k \in Int, NEW d, d \notin Running, Asks(g[k], d)
                 PROVE  \E n \in Int :
                           s[n] = k /\ Asks(f[n], d) /\ f[n] # NoIntent
      OBVIOUS
    <2>1. g[k] # NoIntent /\ g[k] \notin Right
      BY ItemsMean DEF Right, Upserts, Wanted
    <2> QED  BY <2>1, ItemsMean DEF Wanted
  <1>4. \A k \in Int, c \in Running : Against(g[k], c) =>
           \E n \in Int : s[n] = k /\ Against(f[n], c) /\ f[n] # NoIntent
    <2> SUFFICES ASSUME NEW k \in Int, NEW c \in Running, Against(g[k], c)
                 PROVE  \E n \in Int :
                           s[n] = k /\ Against(f[n], c) /\ f[n] # NoIntent
      OBVIOUS
    <2>1. g[k] # NoIntent /\ g[k] \notin Right
      BY ItemsMean DEF Right, Upserts
    <2>2. \A d : g[k] # Wanted(d)
      BY ItemsMean
    <2> QED  BY <2>1, <2>2
  <1>5. ASSUME NEW d, d \notin Running, NEW m \in Int, Cleared(f, d, m)
        PROVE  /\ f[m] # NoIntent => Cleared(g, d, s[m])'
               /\ \E p \in Int : Cleared(g, d, p)'
    <2>1. CASE Owns(d) \/ \E n \in Int : Asks(f[n], d)
      <3>1. PICK n \in Int : /\ n < m /\ f[n] = Remove(d)
                             /\ \A k \in Int : k > n => ~Asks(f[k], d)
        BY <1>5, <2>1 DEF Cleared
      <3>2. f[n] # NoIntent /\ ~Asks(f[n], d)
        BY <3>1, ItemsMean, IntentsDiffer
      <3>3. g[s[n]] = Remove(d) /\ s[n] \in Int
        BY <3>1
      <3>4. ASSUME NEW k \in Int, k > s[n], Asks(g[k], d) PROVE FALSE
        <4>1. PICK j \in Int : s[j] = k /\ Asks(f[j], d) /\ f[j] # NoIntent
          BY <1>3, <1>5, <3>4
        <4>2. j <= n
          BY <3>1, <4>1
        <4>3. j # n
          BY <3>2, <4>1
        <4>4. s[j] < s[n]
          BY <3>2, <4>1, <4>2, <4>3
        <4> QED  BY <3>3, <3>4, <4>1, <4>4
      <3>5. f[m] # NoIntent => s[n] < s[m]
        BY <3>1, <3>2
      <3>6. ASSUME NEW p \in Int, s[n] < p PROVE Cleared(g, d, p)'
        BY <1>1, <3>3, <3>4, <3>6 DEF Cleared
      <3>7. s[n] + 1 \in Int /\ s[n] < s[n] + 1 /\ s[m] \in Int
        BY <3>3
      <3> QED  BY <3>5, <3>6, <3>7
    <2>2. CASE ~(Owns(d) \/ \E n \in Int : Asks(f[n], d))
      <3>1. ~Owns(d)' /\ \A k \in Int : ~Asks(g[k], d)
        BY <1>2, <1>3, <1>5, <2>2
      <3>2. \A p \in Int : Cleared(g, d, p)'
        BY <1>1, <3>1 DEF Cleared
      <3> QED  BY <3>2
    <2> QED  BY <2>1, <2>2
  <1>6. ASSUME GoneCleared PROVE GoneCleared'
    BY <1>1, <1>5, <1>6 DEF GoneCleared
  <1>7. ASSUME RunningServed, NEW c \in Running
        PROVE  \/ Fine(c)' /\ \A n \in Int : ~Against(g[n], c)
               \/ \E m \in Int : Coming(g, c, m)'
    <2>1. CASE Fine(c) /\ \A n \in Int : ~Against(f[n], c)
      BY <1>2, <1>4, <2>1
    <2>2. CASE \E m \in Int : Coming(f, c, m)
      <3>1. PICK m \in Int : Coming(f, c, m)
        BY <2>2
      <3>2. Answers(f[m], c) /\ f[m] # NoIntent
        BY <3>1, ItemsMean DEF Coming
      <3>3. Answers(g[s[m]], c) /\ s[m] \in Int
        BY <3>2
      <3>4. ASSUME NEW k \in Int, k > s[m], Against(g[k], c) PROVE FALSE
        <4>1. PICK j \in Int : /\ s[j] = k /\ Against(f[j], c)
                               /\ f[j] # NoIntent
          BY <1>4, <3>4
        <4>2. ~(j > m)
          BY <3>1, <4>1 DEF Coming
        <4>3. j = m \/ s[j] < s[m]
          BY <3>2, <4>1, <4>2
        <4> QED  BY <3>3, <3>4, <4>1, <4>3
      <3>5. ASSUME CleanupOnRemove, NEW d \in Containers \ {c},
                   UrlOf[d] = UrlOf[c]
            PROVE  Cleared(g, d, s[m])'
        <4>1. d \notin Running
          BY <3>5 DEF RunningApart
        <4> QED  BY <1>5, <3>1, <3>2, <3>5, <4>1 DEF Coming
      <3> QED  BY <1>1, <3>3, <3>4, <3>5 DEF Coming
    <2> QED  BY <1>7, <2>1, <2>2 DEF RunningServed
  <1>8. ASSUME RunningServed PROVE RunningServed'
    BY <1>1, <1>7, <1>8 DEF RunningServed
  <1> QED  BY <1>6, <1>8

-----------------------------------------------------------------------------
(* Containers start and end                                                   *)

\* The place at which the next event will come.
Behind == Len(queue) + 2 + Len(events)

\* Nothing is in flight from there on, nor before the writer's hand.
LEMMA NothingBehind ==
    ASSUME ChannelTypeOK, DockerTypeOK
    PROVE  /\ Behind \in Int
           /\ \A n \in Int : n < 0 \/ n >= Behind => Flight[n] = NoIntent
  <1>1. Len(queue) \in Nat /\ Len(events) \in Nat
    BY DEF ChannelTypeOK, DockerTypeOK
  <1> QED  BY <1>1 DEF Flight, Behind

\* An event takes that place.
LEMMA FlightGrows ==
    ASSUME ChannelTypeOK, DockerTypeOK, subscribed,
           NEW kind, NEW c \in Containers, Report(kind, c),
           UNCHANGED <<phase, intent, queue, watchVars>>
    PROVE  /\ Flight'[Behind] = EventItem([kind |-> kind, container |-> c])
           /\ \A n \in Int : n # Behind => Flight'[n] = Flight[n]
  <1> DEFINE e == [kind |-> kind, container |-> c]
  <1>1. /\ Len(queue) \in Nat /\ Len(events) \in Nat
        /\ events \in Seq(Event)
    BY DEF ChannelTypeOK, DockerTypeOK
  <1>2. events' = Append(events, e)
    BY DEF Report
  <1>3. /\ Len(events') = Len(events) + 1
        /\ \A n \in 1 .. Len(events) : events'[n] = events[n]
        /\ events'[Len(events) + 1] = e
    BY <1>1, <1>2
  <1>4. Hand' = Hand /\ Held' = Held /\ queue' = queue
    BY DEF Hand, Held, watchVars, EventItem
  <1>5. \A i : EventItem(i)' = EventItem(i)
    BY DEF EventItem
  <1>6. Flight'[Behind] = EventItem(e)
    BY <1>1, <1>3, <1>4, <1>5 DEF Flight, Behind
  <1>7. ASSUME NEW n \in Int, n # Behind PROVE Flight'[n] = Flight[n]
    BY <1>1, <1>3, <1>4, <1>5, <1>7 DEF Flight, Behind
  <1> QED  BY <1>6, <1>7

\* A container that ends, while no other running one wants its url: its Remove
\* comes last of all.
LEMMA FlightCloses ==
    ASSUME ChannelTypeOK, DockerTypeOK, NEW f, f = Flight, NEW g, g = Flight',
           NEW b, b = Behind,
           NEW c \in Containers, g[b] = Remove(c),
           \A n \in Int : n # b => g[n] = f[n],
           UNCHANGED <<hosts, target>>, Running' = Running \ {c},
           \A d \in Running \ {c} : UrlOf[d] # UrlOf[c],
           GoneCleared, RunningServed
    PROVE  GoneCleared' /\ RunningServed'
  <1>1. /\ \A d, t : Serves(d, t)' <=> Serves(d, t)
        /\ \A d : Owns(d)' <=> Owns(d)
        /\ \A d : Fine(d)' <=> Fine(d)
        /\ \A i, d : Answers(i, d)' <=> Answers(i, d)
        /\ \A i, d : Against(i, d)' <=> Against(i, d)
    BY DEF Serves, OwnedBy, Owns, Fine, Foreign, Answers, Against, Wanted
  <1>2. /\ b \in Int
        /\ \A n \in Int : n >= b => f[n] = NoIntent
    BY NothingBehind
  <1>3. \A n \in Int : \A d : Asks(g[n], d) => Asks(f[n], d)
    BY ItemsMean
  <1>4. \A n \in Int : \A d : f[n] = Remove(d) => g[n] = Remove(d)
    BY <1>2, IntentsDiffer
  <1>5. ASSUME NEW d, NEW m \in Int, Cleared(f, d, m)
        PROVE  Cleared(g, d, m)'
    BY <1>1, <1>3, <1>4, <1>5 DEF Cleared
  <1>6. b + 1 \in Int /\ Cleared(g, c, b + 1)'
    <2>1. ASSUME NEW k \in Int, k > b PROVE ~Asks(g[k], c)
      BY <1>2, <2>1, ItemsMean
    <2> QED  BY <1>2, <2>1 DEF Cleared
  <1>7. GoneCleared'
    BY <1>5, <1>6 DEF GoneCleared
  <1>8. ASSUME NEW d \in Running \ {c}
        PROVE  \/ Fine(d)' /\ \A n \in Int : ~Against(g[n], d)
               \/ \E m \in Int : Coming(g, d, m)'
    <2>1. \A n \in Int : Against(g[n], d) => Against(f[n], d)
      BY <1>8, ItemsMean
    <2>2. \A n \in Int : Answers(f[n], d) => Answers(g[n], d)
      BY <1>2, ItemsMean
    <2>3. CASE Fine(d) /\ \A n \in Int : ~Against(f[n], d)
      BY <1>1, <2>1, <2>3
    <2>4. CASE \E m \in Int : Coming(f, d, m)
      <3>1. PICK m \in Int : Coming(f, d, m)
        BY <2>4
      <3> QED  BY <1>1, <1>5, <2>1, <2>2, <3>1 DEF Coming
    <2> QED  BY <1>8, <2>3, <2>4 DEF RunningServed
  <1>9. RunningServed'
    BY <1>1, <1>8 DEF RunningServed
  <1> QED  BY <1>7, <1>9

\* A container that starts: whoever had its url has been cleared away before
\* its start is seen to, since everything in flight comes before.
LEMMA FlightOpens ==
    ASSUME ChannelTypeOK, DockerTypeOK, NEW f, f = Flight, NEW g, g = Flight',
           NEW b, b = Behind,
           NEW c \in Containers, g[b] = Begun(c), c \notin Running,
           \A n \in Int : n # b => g[n] = f[n],
           UNCHANGED hosts, \A d \in Running : target'[d] = target[d],
           Running' = Running \cup {c},
           \A d \in Running : UrlOf[d] # UrlOf[c],
           GoneCleared, RunningServed
    PROVE  GoneCleared' /\ RunningServed'
  <1>1. /\ \A d, t : Serves(d, t)' <=> Serves(d, t)
        /\ \A d : Owns(d)' <=> Owns(d)
        /\ \A d \in Running : Fine(d)' <=> Fine(d)
        /\ \A i, d : d \in Running => (Answers(i, d)' <=> Answers(i, d))
        /\ \A i, d : d \in Running => (Against(i, d)' <=> Against(i, d))
    BY DEF Serves, OwnedBy, Owns, Fine, Foreign, Answers, Against, Wanted
  <1>2. /\ b \in Int
        /\ \A n \in Int : n >= b => f[n] = NoIntent
    BY NothingBehind
  <1>3. \A n \in Int : \A d : Asks(g[n], d) => Asks(f[n], d) \/ d = c
    BY ItemsMean
  <1>4. \A n \in Int : \A d : f[n] = Remove(d) => n < b /\ g[n] = Remove(d)
    BY <1>2, IntentsDiffer
  <1>5. ASSUME NEW d, d # c, NEW m \in Int, Cleared(f, d, m)
        PROVE  Cleared(g, d, m)' /\ Cleared(g, d, b)'
    BY <1>1, <1>3, <1>4, <1>5 DEF Cleared
  <1>6. GoneCleared'
    BY <1>5 DEF GoneCleared
  <1>7. ASSUME NEW d \in Running
        PROVE  \/ Fine(d)' /\ \A n \in Int : ~Against(g[n], d)'
               \/ \E m \in Int : Coming(g, d, m)'
    <2>1. \A n \in Int : Against(g[n], d) => Against(f[n], d)
      BY <1>7, ItemsMean
    <2>2. \A n \in Int : Answers(f[n], d) => Answers(g[n], d)
      BY <1>2, ItemsMean
    <2>3. CASE Fine(d) /\ \A n \in Int : ~Against(f[n], d)
      BY <1>1, <2>1, <2>3
    <2>4. CASE \E m \in Int : Coming(f, d, m)
      <3>1. PICK m \in Int : Coming(f, d, m)
        BY <2>4
      <3>2. \A e \in Containers \ {d} : UrlOf[e] = UrlOf[d] => e # c
        BY <1>7
      <3> QED  BY <1>1, <1>5, <2>1, <2>2, <3>1, <3>2 DEF Coming
    <2> QED  BY <1>7, <2>3, <2>4 DEF RunningServed
  <1>8. Coming(g, c, b)'
    <2>1. Answers(Begun(c), c)'
      BY DEF Answers
    <2>2. \A k \in Int : k > b => ~Against(g[k], c)'
      <3>1. ~Against(NoIntent, c)'
        BY DEF Against, NoIntent
      <3> QED  BY <1>2, <3>1
    <2>3. ASSUME CleanupOnRemove, NEW d \in Containers \ {c},
                 UrlOf[d] = UrlOf[c]
          PROVE  Cleared(g, d, b)'
      <3>1. d \notin Running
        BY <2>3
      <3> QED  BY <1>5, <2>3, <3>1 DEF GoneCleared
    <2> QED  BY <2>1, <2>2, <2>3 DEF Coming
  <1>9. RunningServed'
    BY <1>2, <1>7, <1>8 DEF RunningServed
  <1> QED  BY <1>6, <1>9

-----------------------------------------------------------------------------
(* Items move                                                                 *)

\* What a step of a task may do to the flight: nothing that is said of it
\* becomes false.
FlightKept == /\ GoneCleared => GoneCleared'
              /\ RunningServed => RunningServed'

\* A place that holds nothing is closed up.
LEMMA FlightShifts ==
    ASSUME UNCHANGED containerVars,
           \A d, t : Serves(d, t)' <=> Serves(d, t),
           RunningApart,
           NEW p \in Int, Flight[p] = NoIntent,
           \A n \in Int : n < p => Flight'[n] = Flight[n],
           \A n \in Int : n >= p => Flight'[n] = Flight[n + 1]
    PROVE  FlightKept
  <1> DEFINE f == Flight
             g == Flight'
             s == [n \in Int |-> IF n < p THEN n ELSE n - 1]
  <1>1. s \in [Int -> Int]
    OBVIOUS
  <1>2. \A n \in Int : f[n] # NoIntent => g[s[n]] = f[n]
    <2> SUFFICES ASSUME NEW n \in Int, f[n] # NoIntent PROVE g[s[n]] = f[n]
      OBVIOUS
    <2>1. CASE n < p
      BY <2>1
    <2>2. CASE n > p
      <3>1. s[n] = n - 1 /\ n - 1 \in Int /\ n - 1 >= p
        BY <2>2
      <3>2. g[n - 1] = f[(n - 1) + 1]
        BY <3>1
      <3> QED  BY <3>1, <3>2
    <2> QED  BY <2>1, <2>2
  <1>3. \A n, k \in Int : n < k /\ f[n] # NoIntent /\ f[k] # NoIntent
                             => s[n] < s[k]
    <2> SUFFICES ASSUME NEW n \in Int, NEW k \in Int, n < k,
                        n # p, k # p
                 PROVE  s[n] < s[k]
      OBVIOUS
    <2> QED  OBVIOUS
  <1>4. \A k \in Int : g[k] = NoIntent
                       \/ \E n \in Int : s[n] = k /\ f[n] # NoIntent
                                                  /\ g[k] = f[n]
    <2> SUFFICES ASSUME NEW k \in Int, g[k] # NoIntent
                 PROVE  \E n \in Int : s[n] = k /\ f[n] # NoIntent
                                                /\ g[k] = f[n]
      OBVIOUS
    <2>1. CASE k < p
      BY <2>1
    <2>2. CASE k >= p
      <3>1. k + 1 \in Int /\ s[k + 1] = k /\ g[k] = f[k + 1]
        BY <2>2
      <3> QED  BY <3>1
    <2> QED  BY <2>1, <2>2
  <1>5. /\ \A n \in Int : \A d : f[n] = Remove(d) => g[s[n]] = Remove(d)
        /\ \A n \in Int : \A c \in Running :
              Answers(f[n], c) => Answers(g[s[n]], c)
    BY <1>2, ItemsMean, IntentsDiffer
  <1> HIDE DEF f, g, s
  <1> QED
    BY <1>1, <1>3, <1>4, <1>5, FlightMoves DEF f, g, FlightKept

\* A place is made for a right intent, or for nothing.
LEMMA FlightInserts ==
    ASSUME UNCHANGED containerVars,
           \A d, t : Serves(d, t)' <=> Serves(d, t),
           RunningApart,
           NEW p \in Int, Flight'[p] \in Right \cup {NoIntent},
           \A n \in Int : n < p => Flight'[n] = Flight[n],
           \A n \in Int : n >= p => Flight'[n + 1] = Flight[n]
    PROVE  FlightKept
  <1> DEFINE f == Flight
             g == Flight'
             s == [n \in Int |-> IF n < p THEN n ELSE n + 1]
  <1>1. s \in [Int -> Int]
    OBVIOUS
  <1>2. \A n \in Int : g[s[n]] = f[n]
    <2> TAKE n \in Int
    <2>1. CASE n < p
      BY <2>1
    <2>2. CASE n >= p
      <3>1. s[n] = n + 1 /\ g[n + 1] = f[n]
        BY <2>2
      <3> QED  BY <3>1
    <2> QED  BY <2>1, <2>2
  <1>3. \A n, k \in Int : n < k => s[n] < s[k]
    OBVIOUS
  <1>4. \A k \in Int : g[k] \in Right \cup {NoIntent}
                       \/ \E n \in Int : s[n] = k /\ g[k] = f[n]
    <2> TAKE k \in Int
    <2>1. CASE k < p
      BY <2>1
    <2>2. CASE k > p
      <3>1. k - 1 \in Int /\ k - 1 >= p /\ s[k - 1] = k
        BY <2>2
      <3>2. g[(k - 1) + 1] = f[k - 1]
        BY <3>1
      <3> QED  BY <3>1, <3>2
    <2> QED  BY <2>1, <2>2
  <1>5. /\ \A n \in Int : \A d : f[n] = Remove(d) => g[s[n]] = Remove(d)
        /\ \A n \in Int : \A c \in Running :
              Answers(f[n], c) => Answers(g[s[n]], c)
    BY <1>2
  <1> HIDE DEF f, g, s
  <1>6. \A k \in Int : \/ g[k] = NoIntent \/ g[k] \in Right
                       \/ \E n \in Int : /\ s[n] = k /\ f[n] # NoIntent
                                         /\ g[k] = f[n]
    BY <1>4
  <1> QED
    BY <1>1, <1>3, <1>5, <1>6, FlightMoves DEF f, g, FlightKept

\* Nothing moves; at most a start is inspected.
LEMMA FlightStays ==
    ASSUME UNCHANGED containerVars,
           \A d, t : Serves(d, t)' <=> Serves(d, t),
           RunningApart,
           \A n \in Int :
              \/ Flight'[n] = Flight[n]
              \/ \E c : /\ Flight[n] = Begun(c)
                        /\ \/ Flight'[n] = Wanted(c)
                           \/ Flight'[n] = NoIntent /\ c \notin Running
    PROVE  FlightKept
  <1> DEFINE f == Flight
             g == Flight'
             s == [n \in Int |-> n]
  <1>1. s \in [Int -> Int] /\ \A n \in Int : s[n] = n
    OBVIOUS
  <1>2. \A n \in Int : \/ g[n] = f[n]
                       \/ \E c : /\ f[n] = Begun(c)
                                 /\ \/ g[n] = Wanted(c)
                                    \/ g[n] = NoIntent /\ c \notin Running
    OBVIOUS
  <1> HIDE DEF f, g, s
  <1>3. \A n \in Int : \A d : f[n] = Remove(d) => g[s[n]] = Remove(d)
    BY <1>1, <1>2, ItemsMean
  <1>4. \A n \in Int : \A c \in Running :
              Answers(f[n], c) => Answers(g[s[n]], c)
    <2> SUFFICES ASSUME NEW n \in Int, NEW c \in Running, Answers(f[n], c),
                        g[n] # f[n]
                 PROVE  Answers(g[n], c)
      BY <1>1
    <2>1. PICK d : /\ f[n] = Begun(d)
                   /\ \/ g[n] = Wanted(d)
                      \/ g[n] = NoIntent /\ d \notin Running
      BY <1>2
    <2>2. d = c
      BY <2>1, ItemsMean
    <2> QED  BY <2>1, <2>2 DEF Answers
  <1>5. \A k \in Int : \/ g[k] = NoIntent \/ g[k] \in Right
                       \/ \E n \in Int :
                             /\ s[n] = k /\ f[n] # NoIntent
                             /\ \/ g[k] = f[n]
                                \/ \E c : f[n] = Begun(c) /\ g[k] = Wanted(c)
    BY <1>1, <1>2, ItemsMean
  <1> QED
    BY <1>1, <1>3, <1>4, <1>5, FlightMoves DEF f, g, FlightKept

-----------------------------------------------------------------------------
(* The tasks move items                                                       *)

\* Who is served is said of the table alone.
LEMMA SameServes ==
    UNCHANGED hosts => \A d, t : Serves(d, t)' <=> Serves(d, t)
  BY DEF Serves, OwnedBy

\* The writer receives: the flight closes up on its empty hand.
LEMMA TakeMoves ==
    ASSUME SyncInv, RunningApart, Take
    PROVE  FlightKept
  <1>1. /\ queue \in Seq(Intent) /\ Len(queue) \in Nat /\ Len(queue) > 0
        /\ events \in Seq(Event) /\ Len(events) \in Nat
        /\ Head(queue) \in Intent
    BY ReceiveTyped
    DEF SyncInv, SyncTypeOK, ChannelTypeOK, DockerTypeOK, Take, Receive
  <1>2. /\ phase = "idle" /\ intent = NoIntent
        /\ intent' = Head(queue) /\ phase' = Head(queue).kind
        /\ UNCHANGED <<hosts, containerVars, events, watchVars>>
    BY DEF Take, Accept, SyncInv, WriterInv, WriterTypeOK, dockerVars,
           streamVars, NoEffect, npmVars
  <1>3. phase' \in {"upsert", "remove"}
    BY <1>1, <1>2, IntentFields
  <1>4. Hand = NoIntent /\ Hand' = queue[1]
    BY <1>1, <1>2, <1>3 DEF Hand
  <1>5. Held' = Held /\ \A e : EventItem(e)' = EventItem(e)
    BY <1>2 DEF Held, watchVars, EventItem
  <1>6. /\ Len(queue') = Len(queue) - 1
        /\ \A n \in 1 .. Len(queue) - 1 : queue'[n] = queue[n + 1]
    BY <1>1 DEF Take, Receive
  <1>7. Flight[0] = NoIntent
    BY <1>4 DEF Flight
  <1>8. \A n \in Int : n < 0 => Flight'[n] = Flight[n]
    BY <1>1, <1>6 DEF Flight
  <1>9. ASSUME NEW n \in Int, n >= 0 PROVE Flight'[n] = Flight[n + 1]
    <2>1. CASE n = 0
      BY <1>1, <1>4, <2>1 DEF Flight
    <2>2. CASE n \in 1 .. Len(queue) - 1
      BY <1>1, <1>6, <2>2 DEF Flight
    <2>3. CASE n = Len(queue)
      BY <1>1, <1>5, <1>6, <2>3 DEF Flight
    <2>4. CASE n > Len(queue)
      <3>1. (n + 1) - Len(queue) - 1 = n - Len(queue') - 1
        BY <1>1, <1>6
      <3> QED  BY <1>1, <1>2, <1>5, <1>6, <2>4, <3>1 DEF Flight
    <2> QED  BY <1>1, <1>9, <2>1, <2>2, <2>3, <2>4
  <1> QED
    BY <1>2, <1>7, <1>8, <1>9, FlightShifts, SameServes

\* The watcher, none of whose calls fails.
LEMMA WatchMoves ==
    ASSUME SyncInv, RunningApart, StreamOpen, Watch, ~CallFailed
    PROVE  FlightKept /\ StreamOpen'
  <1>1. /\ queue \in Seq(Intent) /\ Len(queue) \in Nat
        /\ events \in Seq(Event) /\ Len(events) \in Nat
        /\ ChannelTypeOK /\ DockerTypeOK /\ WatcherTypeOK
    BY DEF SyncInv, SyncTypeOK, ChannelTypeOK, DockerTypeOK
  <1>2. ~DockerFault /\ UNCHANGED writerVars
    BY <1>1 DEF CallFailed, DockerFault, DockerTypeOK, Watch
  <1>3. Hand' = Hand /\ \A d, t : Serves(d, t)' <=> Serves(d, t)
    BY <1>2, SameServes DEF Hand, writerVars, taskVars, npmVars
  <1>4. \A e : EventItem(e)' = EventItem(e)
    BY DEF EventItem
  <1>5. CASE WatchConnect
    <2>1. /\ watch = "connect" /\ Subscribe /\ Goto("next", NoIntent)
          /\ UNCHANGED queue
      BY <1>2, <1>5 DEF WatchConnect
    <2>2. /\ events = << >> /\ events' = events /\ subscribed' = TRUE
          /\ watch' = "next" /\ UNCHANGED containerVars
      BY <2>1 DEF StreamOpen, Subscribe, Goto, DockerTypeOK
    <2>3. Held' = Held
      BY <2>1, <2>2 DEF Held
    <2>4. \A n \in Int : Flight'[n] = Flight[n]
      BY <1>3, <1>4, <2>1, <2>2, <2>3 DEF Flight
    <2> QED  BY <1>3, <2>2, <2>4, FlightStays DEF StreamOpen
  <1>6. CASE WatchNext
    <2> DEFINE e == Head(events)
    <2>1. /\ watch = "next" /\ UNCHANGED <<queue, containerVars, subscribed>>
          /\ Len(events) > 0 /\ events' = Tail(events)
          /\ IF e.kind = "start" THEN Goto("inspect", e)
             ELSE Goto("send", Remove(e.container))
      BY <1>1, <1>6 DEF WatchNext, TakeEvent
    <2>2. /\ Len(events') = Len(events) - 1 /\ e = events[1]
          /\ \A n \in 1 .. Len(events) - 1 : events'[n] = events[n + 1]
      BY <1>1, <2>1
    <2>3. Held = NoIntent /\ Held' = EventItem(events[1])
      BY <2>1, <2>2 DEF Held, Goto, EventItem
    <2> DEFINE p == Len(queue) + 1
    <2>4. p \in Int /\ Flight[p] = NoIntent
      BY <1>1, <2>3 DEF Flight
    <2>5. \A n \in Int : n < p => Flight'[n] = Flight[n]
      BY <1>1, <1>3, <2>1 DEF Flight
    <2>6. ASSUME NEW n \in Int, n >= p PROVE Flight'[n] = Flight[n + 1]
      <3>1. CASE n = p
        BY <1>1, <2>1, <2>3, <3>1 DEF Flight
      <3>2. CASE n > p
        <4>1. /\ (n + 1) - Len(queue) - 1 = (n - Len(queue) - 1) + 1
              /\ n - Len(queue) - 1 \in Int /\ n - Len(queue) - 1 > 0
          BY <1>1, <3>2
        <4> DEFINE j == n - Len(queue) - 1
        <4>2. Flight'[n] = IF j \in 1 .. Len(events) - 1
                           THEN EventItem(events'[j]) ELSE NoIntent
          BY <1>1, <1>4, <2>1, <2>2, <3>2 DEF Flight
        <4>3. Flight[n + 1] = IF j + 1 \in 1 .. Len(events)
                              THEN EventItem(events[j + 1]) ELSE NoIntent
          BY <1>1, <3>2, <4>1 DEF Flight
        <4>4. j \in 1 .. Len(events) - 1 <=> j + 1 \in 1 .. Len(events)
          BY <1>1, <4>1
        <4> QED  BY <2>2, <4>2, <4>3, <4>4
      <3> QED  BY <1>1, <2>6, <3>1, <3>2
    <2>7. StreamOpen'
      BY <2>1 DEF StreamOpen, Goto
    <2> HIDE DEF p
    <2> QED  BY <1>3, <2>1, <2>4, <2>5, <2>6, <2>7, FlightShifts
  <1>7. CASE WatchInspect
    <2> DEFINE c == inHand.container
    <2>1. /\ watch = "inspect" /\ UNCHANGED <<queue, dockerVars>>
          /\ \/ /\ Exists(c) /\ c \in Labeled
                /\ Goto("send", Upsert(c, target[c]))
             \/ ~(Exists(c) /\ c \in Labeled) /\ Goto("next", NoIntent)
      BY <1>2, <1>7 DEF WatchInspect
    <2>2. inHand = Begun(c) /\ inHand.kind = "start"
      BY <1>1, <2>1 DEF WatcherTypeOK, StreamOpen, Event, Begun
    <2>3. Held = IF c \in Labeled THEN Begun(c) ELSE NoIntent
      BY <2>1, <2>2 DEF Held, EventItem
    <2>4. \/ Held' = Held
          \/ Held = Begun(c) /\ Held' = Wanted(c)
          \/ Held = Begun(c) /\ Held' = NoIntent /\ c \notin Running
      BY <2>1, <2>3 DEF Held, Goto, Wanted, Running, Exists
    <2>5. /\ UNCHANGED <<events, containerVars, subscribed>>
          /\ watch' \in {"send", "next"}
      BY <2>1 DEF dockerVars, streamVars, Goto
    <2>6. ASSUME NEW n \in Int, n # Len(queue) + 1
          PROVE  Flight'[n] = Flight[n]
      BY <1>1, <1>3, <1>4, <2>1, <2>5, <2>6 DEF Flight
    <2>7. /\ Len(queue) + 1 \in Int
          /\ Flight'[Len(queue) + 1] = Held' /\ Flight[Len(queue) + 1] = Held
      BY <1>1, <2>1 DEF Flight
    <2>8. \A n \in Int :
              \/ Flight'[n] = Flight[n]
              \/ \E d : /\ Flight[n] = Begun(d)
                        /\ \/ Flight'[n] = Wanted(d)
                           \/ Flight'[n] = NoIntent /\ d \notin Running
      BY <2>4, <2>6, <2>7
    <2>9. StreamOpen'
      BY <2>1, <2>5 DEF StreamOpen
    <2> QED  BY <1>3, <2>5, <2>8, <2>9, FlightStays
  <1>8. CASE WatchSend
    <2>1. /\ watch = "send" /\ queue' = Append(queue, inHand)
          /\ watch' = "next" /\ UNCHANGED dockerVars
          /\ inHand \in Intent
      BY <1>1, <1>8 DEF WatchSend, Send, Goto, WatcherTypeOK
    <2>2. /\ Len(queue') = Len(queue) + 1
          /\ \A n \in 1 .. Len(queue) : queue'[n] = queue[n]
          /\ queue'[Len(queue) + 1] = inHand
      BY <1>1, <2>1
    <2>3. /\ UNCHANGED <<events, containerVars, subscribed>>
          /\ Held = inHand /\ Held' = NoIntent
      BY <2>1 DEF dockerVars, streamVars, Held
    <2> DEFINE p == Len(queue) + 2
    <2>4. p \in Int /\ Flight'[p] = NoIntent
      BY <1>1, <2>2, <2>3 DEF Flight
    <2>5. \A n \in Int : n < p => Flight'[n] = Flight[n]
      BY <1>1, <1>3, <2>2, <2>3 DEF Flight
    <2>6. ASSUME NEW n \in Int, n >= p PROVE Flight'[n + 1] = Flight[n]
      <3>1. (n + 1) - Len(queue') - 1 = n - Len(queue) - 1
        BY <1>1, <2>2
      <3> QED  BY <1>1, <1>4, <2>2, <2>3, <2>6, <3>1 DEF Flight
    <2>7. StreamOpen'
      BY <2>1, <2>3 DEF StreamOpen
    <2> HIDE DEF p
    <2> QED  BY <1>3, <2>3, <2>4, <2>5, <2>6, <2>7, FlightInserts
  <1>9. ~WatchStreamEnd /\ ~WatchBackoff
    BY <1>1 DEF WatchStreamEnd, WatchBackoff, StreamOpen, DockerTypeOK
  <1> QED
    BY <1>5, <1>6, <1>7, <1>8, <1>9 DEF Watch, WatcherTask

\* A sweep during which no container changes: what it sends is right.
LEMMA SweepMoves ==
    ASSUME SyncInv, SweepStages, RunningApart, SweepRight, Reconcile,
           ~CallFailed
    PROVE  FlightKept /\ SweepRight'
  <1>1. /\ queue \in Seq(Intent) /\ Len(queue) \in Nat
        /\ NpmTypeOK /\ ChannelTypeOK /\ DockerTypeOK
    BY DEF SyncInv, SyncTypeOK, WriterTypeOK, ChannelTypeOK
  <1>2. /\ UNCHANGED <<writerVars, containerVars, events, watchVars>>
        /\ Starts \/ Learns \/ Plans \/ Tells
    <2>1. todo \subseteq Running /\ UNCHANGED <<faults, dockerFaults>>
      BY DEF SweepRight, CallFailed
    <2> QED  BY <1>1, <2>1, SweepSteps DEF Reconcile
  <1>3. /\ Hand' = Hand /\ Held' = Held
        /\ \A e : EventItem(e)' = EventItem(e)
        /\ \A d, t : Serves(d, t)' <=> Serves(d, t)
        /\ Running' = Running /\ Upserts' = Upserts
    BY <1>2, SameServes, SameContainers
    DEF Hand, Held, EventItem, writerVars, taskVars, npmVars, watchVars
  <1>4. ASSUME UNCHANGED queue PROVE FlightKept
    <2>1. \A n \in Int : Flight'[n] = Flight[n]
      BY <1>2, <1>3, <1>4 DEF Flight
    <2> QED  BY <1>2, <1>3, <2>1, FlightStays
  <1>5. CASE Starts
    BY <1>3, <1>4, <1>5 DEF Starts, SweepRight, SweepStages
  <1>6. CASE Learns
    <2>1. PICK c \in todo : /\ todo' = todo \ {c}
                            /\ specs' = specs \cup {Wanted(c)}
      BY <1>6 DEF Learns
    <2>2. Wanted(c) \in Upserts /\ Wanted(c).container = c
      BY <2>1, IntentsDiffer DEF SweepRight, Upserts, Wanted
    <2>3. Alive' = Alive \cup {c}
      BY <2>1, <2>2 DEF Alive
    <2> QED
      BY <1>3, <1>4, <1>6, <2>1, <2>2, <2>3 DEF Learns, SweepRight
  <1>7. CASE Plans
    <2>1. Running \subseteq Alive
      BY <1>7 DEF Plans, SweepRight
    <2>2. \A o \in orphans' : o[2] \in Containers \ Running
      BY <1>1, <1>7, <2>1, PlanTyped DEF Plans, Unlisted
    <2> QED  BY <1>3, <1>4, <1>7, <2>2 DEF Plans, SweepRight
  <1>8. CASE Tells
    <2>1. PICK i \in Planned : Send(i)
      BY <1>8 DEF Tells
    <2>2. i \in Right
      BY <2>1 DEF SweepRight, Planned, Right
    <2>3. /\ Len(queue') = Len(queue) + 1
          /\ \A n \in 1 .. Len(queue) : queue'[n] = queue[n]
          /\ queue'[Len(queue) + 1] = i
      BY <1>1, <2>1 DEF Send
    <2> DEFINE p == Len(queue) + 1
    <2>4. p \in Int /\ Flight'[p] \in Right \cup {NoIntent}
      BY <1>1, <2>2, <2>3 DEF Flight
    <2>5. \A n \in Int : n < p => Flight'[n] = Flight[n]
      BY <1>1, <1>3, <2>3 DEF Flight
    <2>6. ASSUME NEW n \in Int, n >= p PROVE Flight'[n + 1] = Flight[n]
      <3>1. (n + 1) - Len(queue') - 1 = n - Len(queue) - 1
        BY <1>1, <2>3
      <3> QED  BY <1>1, <1>2, <1>3, <2>3, <2>6, <3>1 DEF Flight
    <2>7. SweepRight'
      BY <1>3, <1>8 DEF Tells, SweepRight
    <2> HIDE DEF p
    <2> QED  BY <1>2, <1>3, <2>4, <2>5, <2>6, <2>7, FlightInserts
  <1> QED  BY <1>2, <1>5, <1>6, <1>7, <1>8

\* What happens to containers, if the stream is open, no sweep is under way
\* and the url is no other running container's.
LEMMA ContainerMoves ==
    ASSUME SyncInv, SweepStages, RunningApart, GoneCleared, RunningServed,
           NEW c \in Containers, Start(c) \/ Die(c) \/ Destroy(c),
           Excuses(c) = {},
           UNCHANGED <<writerVars, queue, watchVars, sweepVars>>
    PROVE  /\ subscribed /\ subscribed' = subscribed
           /\ RunningApart' /\ GoneCleared' /\ RunningServed' /\ SweepRight'
  <1>1. /\ ChannelTypeOK /\ DockerTypeOK
        /\ UNCHANGED <<phase, intent, hosts>>
    BY DEF SyncInv, SyncTypeOK, writerVars, taskVars, npmVars
  <1>2. /\ subscribed /\ sweep = "sleep"
        /\ \A d \in Running \ {c} : UrlOf[d] # UrlOf[c]
    BY DEF Excuses
  <1>3. subscribed' = subscribed
    BY DEF Start, Die, Destroy, DockerOp
  <1>4. SweepRight'
    BY <1>2 DEF SweepStages, SweepRight, sweepVars
  <1>5. status \in [Containers -> {"created", "up", "exited", "removed"}]
        /\ target \in [Containers -> Targets]
    BY <1>1 DEF DockerTypeOK
  <1>6. CASE Start(c)
    <2>1. /\ status[c] # "up" /\ status' = [status EXCEPT ![c] = "up"]
          /\ \E t \in Targets : target' = [target EXCEPT ![c] = t]
          /\ Report("start", c)
      BY <1>6 DEF Start
    <2>2. /\ c \notin Running /\ \A d \in Running : target'[d] = target[d]
          /\ Running' = IF c \in Labeled THEN Running \cup {c} ELSE Running
      BY <1>5, <2>1, SyncConstants DEF Running
    <2>3. RunningApart'
      BY <1>2, <2>2 DEF RunningApart
    <2>4. /\ Flight'[Behind] = EventItem(Begun(c))
          /\ \A n \in Int : n # Behind => Flight'[n] = Flight[n]
      BY <1>1, <1>2, <2>1, FlightGrows DEF Begun
    <2>5. EventItem(Begun(c)) = IF c \in Labeled THEN Begun(c) ELSE NoIntent
      BY DEF EventItem, Begun
    <2>6. CASE c \in Labeled
      <3>1. \A d \in Running : UrlOf[d] # UrlOf[c]
        BY <1>2, <2>2
      <3> QED
        BY <1>1, <1>2, <1>3, <1>4, <2>2, <2>3, <2>4, <2>5, <2>6, <3>1,
           FlightOpens
    <2>7. CASE c \notin Labeled
      <3>1. \A n \in Int : Flight'[n] = Flight[n]
        BY <1>1, <2>4, <2>5, <2>7, NothingBehind
      <3>2. Flight' = Flight
        BY <3>1 DEF Flight
      <3>3. /\ \A d, t : Serves(d, t)' <=> Serves(d, t)
            /\ \A d : Owns(d)' <=> Owns(d)
        BY <1>1, SameServes DEF Owns
      <3>4. \A f, d, m : Cleared(f, d, m)' <=> Cleared(f, d, m)
        BY <3>3 DEF Cleared, Asks
      <3>5. GoneCleared'
        BY <2>2, <2>7, <3>2, <3>4 DEF GoneCleared
      <3>6. \A d \in Running : Fine(d)' <=> Fine(d)
        BY <2>2, <3>3 DEF Fine, Foreign
      <3>7. \A i, d : d \in Running => /\ Against(i, d)' <=> Against(i, d)
                                       /\ Answers(i, d)' <=> Answers(i, d)
        BY <2>2 DEF Against, Answers, Wanted
      <3>8. \A f, m, d : d \in Running => (Coming(f, d, m)' <=> Coming(f, d, m))
        BY <3>4, <3>7 DEF Coming
      <3>9. RunningServed'
        BY <2>2, <2>7, <3>2, <3>6, <3>7, <3>8 DEF RunningServed
      <3> QED  BY <1>2, <1>3, <1>4, <2>3, <3>5, <3>9
    <2> QED  BY <2>6, <2>7
  <1>7. CASE Die(c) \/ Destroy(c)
    <2>1. PICK kind \in {"die", "destroy"} : Report(kind, c)
      BY <1>7 DEF Die, Destroy
    <2>2. target' = target /\ Running' = Running \ {c}
      <3>1. /\ target' = target /\ status'[c] # "up"
            /\ \A d \in Containers : d # c => status'[d] = status[d]
        BY <1>5, <1>7 DEF Die, Destroy
      <3> QED  BY <3>1, SyncConstants DEF Running
    <2>3. RunningApart'
      BY <2>2 DEF RunningApart
    <2>4. EventItem([kind |-> kind, container |-> c]) = Remove(c)
      BY <2>1 DEF EventItem
    <2>5. /\ Flight'[Behind] = Remove(c)
          /\ \A n \in Int : n # Behind => Flight'[n] = Flight[n]
      BY <1>1, <1>2, <2>1, <2>4, FlightGrows
    <2> QED
      BY <1>1, <1>2, <1>3, <1>4, <2>2, <2>3, <2>5, FlightCloses
  <1> QED  BY <1>6, <1>7

-----------------------------------------------------------------------------
(* The writer changes hosts                                                   *)

\* The hosts look the same and are remembered.
LEMMA RowsLook ==
    ASSUME Rows, SameLook,
           \A id \in DOMAIN hosts : /\ hosts[id].owner \in DOMAIN cache'
                                    /\ cache'[hosts[id].owner] = id
    PROVE  Rows' /\ \A d, t : Serves(d, t)' <=> Serves(d, t)
  BY DEF Rows, SameLook, Serves, OwnedBy

\* The host of a container is made or changed, and remembered.
LEMMA RowsMade ==
    ASSUME Rows, NEW c \in Containers, NEW n, NEW t, Remember(c, n),
           DOMAIN hosts' = DOMAIN hosts \cup {n},
           hosts'[n].owner = c, hosts'[n].domains = {UrlOf[c]},
           hosts'[n].target = t,
           n \in DOMAIN hosts => hosts[n].owner = c,
           \A id \in DOMAIN hosts \ {n} :
              /\ hosts'[id] = hosts[id]
              /\ UrlOf[hosts[id].owner] # UrlOf[c]
    PROVE  /\ Rows' /\ Serves(c, t)'
           /\ \A d, s : d # c => (Serves(d, s)' <=> Serves(d, s))
  <1>1. /\ c \in DOMAIN cache' /\ cache'[c] = n
        /\ \A d \in DOMAIN cache :
              d # c => d \in DOMAIN cache' /\ cache'[d] = cache[d]
    BY DEF Remember
  <1>2. ASSUME NEW id \in DOMAIN hosts'
        PROVE  /\ hosts'[id].owner \in Containers
               /\ hosts'[id].domains = {UrlOf[hosts'[id].owner]}
               /\ hosts'[id].owner \in DOMAIN cache'
               /\ cache'[hosts'[id].owner] = id
    <2>1. CASE id = n
      BY <1>1, <2>1
    <2>2. CASE id # n
      BY <1>1, <2>2 DEF Rows
    <2> QED  BY <2>1, <2>2
  <1>3. ASSUME NEW i \in DOMAIN hosts', NEW j \in DOMAIN hosts',
               UrlOf[hosts'[i].owner] = UrlOf[hosts'[j].owner]
        PROVE  i = j
    BY <1>3 DEF Rows
  <1>4. Rows'
    BY <1>2, <1>3 DEF Rows
  <1>5. Serves(c, t)'
    BY DEF Serves, OwnedBy
  <1>6. \A d, s : d # c => (Serves(d, s)' <=> Serves(d, s))
    BY DEF Serves, OwnedBy
  <1> QED  BY <1>4, <1>5, <1>6

\* The host of a container is deleted and forgotten.
LEMMA RowsLost ==
    ASSUME Rows, NEW c, NEW id, hosts[id].owner = c,
           DeleteApplied(id), Forget(c)
    PROVE  /\ Rows' /\ ~Owns(c)'
           /\ \A d, s : d # c => (Serves(d, s)' <=> Serves(d, s))
  <1>1. /\ DOMAIN hosts' = DOMAIN hosts \ {id}
        /\ \A i \in DOMAIN hosts' : hosts'[i] = hosts[i]
        /\ id \in DOMAIN hosts
    BY DEF DeleteApplied, Restrict
  <1>2. /\ DOMAIN cache' = DOMAIN cache \ {c}
        /\ \A d \in DOMAIN cache' : cache'[d] = cache[d]
    BY DEF Forget, Restrict
  <1>3. \A i \in DOMAIN hosts' : hosts'[i].owner # c
    BY <1>1 DEF Rows
  <1>4. Rows'
    BY <1>1, <1>2, <1>3 DEF Rows
  <1>5. ~Owns(c)'
    BY <1>3 DEF Owns, Serves, OwnedBy
  <1>6. \A d, s : d # c => (Serves(d, s)' <=> Serves(d, s))
    BY <1>1 DEF Serves, OwnedBy
  <1> QED  BY <1>4, <1>5, <1>6

\* What becomes of the intent in hand: it stays there, or it is dropped with
\* the url someone else's, carried out, or found to be carried out.
Stays == Hand' = Hand /\ \A d, t : Serves(d, t)' <=> Serves(d, t)

Ends(c) ==
    /\ Hand' = NoIntent
    /\ \A d, t : d # c => (Serves(d, t)' <=> Serves(d, t))
    /\ \/ \E t : /\ Hand = Upsert(c, t) /\ Foreign(c)
                 /\ \A s : Serves(c, s)' <=> Serves(c, s)
       \/ \E t : Hand = Upsert(c, t) /\ Serves(c, t)'
       \/ /\ Hand = Remove(c)
          /\ IF CleanupOnRemove THEN ~Owns(c)'
             ELSE \A s : Serves(c, s)' <=> Serves(c, s)

Progress == Stays \/ \E c \in Containers : Ends(c)

\* A handler that returns has nothing in hand.
LEMMA DoneHand ==
    Done => Hand' = NoIntent /\ Seen' /\ phase' = "idle"
  BY DEF Done, Hand, Seen, Aims, DeleteAims

\* An intent that is carried out is in hand, with its container and target.
LEMMA InHandIs ==
    ASSUME WriterTypeOK
    PROVE  /\ phase \in {"upsert", "create", "update"} =>
                 /\ Hand = Upsert(intent.container, intent.target)
                 /\ intent.container \in Containers
                 /\ intent.target \in Targets
           /\ phase \in {"remove", "delete"} =>
                 /\ Hand = Remove(intent.container)
                 /\ intent.container \in Containers
  <1>1. ASSUME phase \in {"upsert", "create", "update", "remove", "delete"}
        PROVE  intent \in Intent /\ Hand = intent
    BY <1>1 DEF WriterTypeOK, Hand
  <1>2. ASSUME phase \in {"upsert", "create", "update"}
        PROVE  \E c \in Containers, t \in Targets : intent = Upsert(c, t)
    <2>1. intent \in Intent /\ intent.kind = "upsert"
      BY <1>1, <1>2 DEF WriterTypeOK
    <2> QED  BY <2>1, IntentsDiffer DEF Intent
  <1>3. ASSUME phase \in {"remove", "delete"}
        PROVE  \E c \in Containers : intent = Remove(c)
    <2>1. intent \in Intent /\ intent.kind = "remove"
      BY <1>1, <1>3 DEF WriterTypeOK
    <2> QED  BY <2>1, IntentsDiffer DEF Intent
  <1> QED  BY <1>1, <1>2, <1>3, IntentsDiffer

\* upsert(): the list, and what is decided on it.
LEMMA UpsertLists ==
    ASSUME WriterTypeOK, Rows, Seen,
           UpsertConflict \/ UpsertInSync \/ UpsertDrifted \/ UpsertMissing
    PROVE  Rows' /\ Progress /\ ("create" = phase' => Seen')
  <1>0. PICK c \in Containers, t \in Targets :
           c = intent.container /\ t = intent.target
    BY InHandIs
    DEF UpsertConflict, UpsertInSync, UpsertDrifted, UpsertMissing
  <1>1. /\ Hand = Upsert(c, t)
        /\ phase = "upsert" /\ SameLook /\ hosts' = hosts
    BY <1>0, InHandIs
    DEF UpsertConflict, UpsertInSync, UpsertDrifted, UpsertMissing, NoEffect,
        npmVars, SameLook
  <1>2. ASSUME NEW id \in Matching
        PROVE  id \in DOMAIN hosts /\ UrlOf[hosts[id].owner] = UrlOf[c]
               /\ hosts[id].owner \in Containers
               /\ hosts[id].owner \in DOMAIN cache
               /\ cache[hosts[id].owner] = id
               /\ Serves(hosts[id].owner, hosts[id].target)
    BY <1>0 DEF Matching, HavingUrl, Rows, Serves, OwnedBy
  <1>3. UNCHANGED cache => Rows' /\ \A d, s : Serves(d, s)' <=> Serves(d, s)
    BY <1>1, RowsLook DEF Rows
  <1>4. CASE UpsertConflict
    <2>1. Foreign(c)
      BY <1>0, <1>2, <1>4 DEF UpsertConflict, Foreign, Owns
    <2>2. Hand' = NoIntent /\ phase' = "idle"
      BY <1>4, DoneHand DEF UpsertConflict
    <2>3. Ends(c)
      BY <1>1, <1>3, <1>4, <2>1, <2>2 DEF Ends, UpsertConflict
    <2> QED  BY <1>1, <1>3, <1>4, <2>2, <2>3 DEF UpsertConflict, Progress
  <1>5. CASE UpsertInSync
    <2>1. PICK id \in Matching :
             hosts[id].owner = c /\ Diff(hosts[id]) = {} /\ Remember(c, id)
      BY <1>0, <1>5 DEF UpsertInSync
    <2>2. hosts[id].target = t
      BY <1>0, <2>1 DEF Diff
    <2>3. cache' = [d \in DOMAIN cache |-> cache[d]]
      BY <1>2, <2>1 DEF Remember
    <2>4. Rows' /\ \A d, s : Serves(d, s)' <=> Serves(d, s)
      BY <1>1, <2>3, RowsLook DEF Rows
    <2>5. Serves(c, t)
      BY <1>2, <2>1, <2>2
    <2>6. Hand' = NoIntent /\ phase' = "idle"
      BY <1>5, DoneHand DEF UpsertInSync
    <2>7. Ends(c)
      BY <1>1, <2>4, <2>5, <2>6 DEF Ends
    <2> QED  BY <1>1, <2>4, <2>6, <2>7 DEF Progress
  <1>6. CASE UpsertDrifted \/ UpsertMissing
    <2>1. /\ UNCHANGED <<cache, intent>> /\ phase' \in {"update", "create"}
      BY <1>6 DEF UpsertDrifted, UpsertMissing, Commit
    <2>2. Hand' = Hand
      BY <1>1, <2>1 DEF Hand
    <2>3. ASSUME phase' = "create" PROVE Seen'
      <3>1. Matching = {}
        BY <1>6, <2>3 DEF UpsertDrifted, UpsertMissing, Commit
      <3>2. ASSUME NEW id \in DOMAIN hosts
            PROVE  UrlOf[hosts[id].owner] # UrlOf[intent.container]
        BY <3>1 DEF Matching, HavingUrl, Rows
      <3> QED
        BY <1>1, <2>1, <2>3, <3>2 DEF Seen, Aims, DeleteAims
    <2> QED  BY <1>3, <2>1, <2>2, <2>3 DEF Progress, Stays
  <1> QED  BY <1>4, <1>5, <1>6

\* upsert(): the update that the drift asks for is not refused, since all
\* hosts have exactly their own url, and makes the target right.
LEMMA UpdateServes ==
    ASSUME WriterTypeOK, NpmTypeOK, Rows, Seen, Update, ~CallFailed
    PROVE  Rows' /\ Progress
  <1>0. PICK c \in Containers, t \in Targets :
           c = intent.container /\ t = intent.target
    BY InHandIs DEF Update
  <1> DEFINE h == hosts[hostId]
  <1>1. /\ Hand = Upsert(c, t)
        /\ phase = "update" /\ patch \in Patch
    BY <1>0, InHandIs DEF Update, WriterTypeOK
  <1>2. /\ hostId \in DOMAIN hosts /\ h.owner = c /\ patch = UpdateOf(h)
        /\ h \in Host /\ h.domains = {UrlOf[c]}
    BY <1>0, <1>1 DEF Seen, Aims, NpmTypeOK, Rows
  <1>3. "domains" \notin patch.fields
    BY <1>0, <1>2 DEF UpdateOf, Diff
  <1>4. ~PutRefused(hostId, patch, c)
    BY <1>2, <1>3 DEF PutRefused
  <1>5. ~Fault
    BY NpmConstants DEF Fault, CallFailed, NpmTypeOK
  <1>6. PutApplied(hostId, patch, c, t) /\ Remember(c, hostId) /\ Done
    BY <1>0, <1>4, <1>5 DEF Update, PutErr, PutOk
  <1>7. PICK outcome \in Outcomes(h, patch, t) :
           hosts' = [hosts EXCEPT ![hostId] = Patched(h, patch, c, outcome)]
    BY <1>6 DEF PutApplied
  <1>8. outcome = t
    BY <1>0, <1>2, <1>7 DEF Outcomes, UpdateOf, Diff
  <1>9. /\ Patched(h, patch, c, outcome).domains = {UrlOf[c]}
        /\ Patched(h, patch, c, outcome).target = t
        /\ Patched(h, patch, c, outcome).owner = c
    BY <1>2, <1>3, <1>8 DEF Patched
  <1>10. /\ DOMAIN hosts' = DOMAIN hosts
         /\ hosts'[hostId] = Patched(h, patch, c, outcome)
         /\ \A id \in DOMAIN hosts \ {hostId} : hosts'[id] = hosts[id]
    BY <1>2, <1>7 DEF NpmTypeOK
  <1>11. \A id \in DOMAIN hosts \ {hostId} : UrlOf[hosts[id].owner] # UrlOf[c]
    BY <1>2 DEF Rows
  <1>12. /\ Rows' /\ Serves(c, t)'
         /\ \A d, s : d # c => (Serves(d, s)' <=> Serves(d, s))
    <2>1. /\ DOMAIN hosts' = DOMAIN hosts \cup {hostId}
          /\ hosts'[hostId].owner = c /\ hosts'[hostId].domains = {UrlOf[c]}
          /\ hosts'[hostId].target = t
          /\ hosts[hostId].owner = c
      BY <1>2, <1>9, <1>10
    <2> QED  BY <1>1, <1>6, <1>10, <1>11, <2>1, RowsMade
  <1>13. Ends(c)
    BY <1>1, <1>6, <1>12, DoneHand DEF Ends
  <1> QED  BY <1>1, <1>12, <1>13 DEF Progress

\* upsert(): the POST is executed once, and gives the container its host.
LEMMA CreateServes ==
    ASSUME ~LostResponses \/ UniqueDomains,
           WriterTypeOK, NpmTypeOK, Rows, Seen, Create
    PROVE  Rows' /\ Progress /\ (phase' = "cert" => Seen')
  <1>0. PICK c \in Containers, t \in Targets :
           c = intent.container /\ t = intent.target
    BY InHandIs DEF Create
  <1>1. Hand = Upsert(c, t) /\ phase = "create"
    BY <1>0, InHandIs DEF Create
  <1>2. PICK k \in 1 .. MaxAttempts : PostApplied(NewHost, k)
    BY DEF Create, PostOk
  <1>3. k = 1 /\ nextId \in Nat
    BY <1>2, NpmConstants DEF PostApplied, NpmTypeOK
  <1>4. NewHost \in Host
    BY NewHostTyped DEF Create
  <1>5. /\ nextId' = nextId + 1
        /\ DOMAIN hosts' = DOMAIN hosts \cup nextId .. nextId + 1 - 1
        /\ \A i \in DOMAIN hosts : hosts'[i] = hosts[i]
        /\ \A i \in nextId .. nextId + 1 - 1 : hosts'[i] = NewHost
    <2>1. PostApplied(NewHost, 1) /\ 1 \in Nat
      BY <1>2, <1>3
    <2> QED  BY <1>4, <2>1, PostAppliedKeeps
  <1>6. nextId .. nextId + 1 - 1 = {nextId} /\ nextId' - 1 = nextId
    BY <1>3, <1>5
  <1>7. nextId \notin DOMAIN hosts
    BY <1>3 DEF NpmTypeOK
  <1>8. \A id \in DOMAIN hosts : UrlOf[hosts[id].owner] # UrlOf[c]
    BY <1>0, <1>1 DEF Seen
  <1>9. /\ NewHost.owner = c /\ NewHost.domains = {UrlOf[c]}
        /\ NewHost.target = t
    BY <1>0 DEF NewHost
  <1>10. /\ Hand' = NoIntent /\ (phase' = "cert" => Seen')
    <2>1. CASE Done
      BY <2>1, DoneHand
    <2>2. CASE Commit("cert", nextId' - 1, NoPatch)
      BY <2>2 DEF Commit, Hand, Seen, Aims, DeleteAims
    <2> QED  BY <2>1, <2>2 DEF Create
  <1>11. Remember(c, nextId)
    BY <1>0, <1>6 DEF Create
  <1>12. /\ Rows' /\ Serves(c, t)'
         /\ \A d, s : d # c => (Serves(d, s)' <=> Serves(d, s))
    BY <1>1, <1>5, <1>6, <1>7, <1>8, <1>9, <1>11, RowsMade
  <1>13. Ends(c)
    BY <1>1, <1>10, <1>12 DEF Ends
  <1> QED  BY <1>1, <1>10, <1>12, <1>13 DEF Progress

\* remove(): the list, and what is decided on it.
LEMMA RemoveLists ==
    ASSUME WriterTypeOK, Rows,
           \/ RemoveSkipped \/ RemoveAlreadyGone \/ RemoveRefused
           \/ RemoveFound
    PROVE  Rows' /\ Progress
  <1>1. PICK c \in Containers : c = intent.container
    BY InHandIs
    DEF RemoveSkipped, RemoveAlreadyGone, RemoveRefused, RemoveFound,
        RemoveListed
  <1>2. Hand = Remove(c) /\ phase = "remove" /\ SameLook /\ hosts' = hosts
    BY <1>1, InHandIs
    DEF RemoveSkipped, RemoveAlreadyGone, RemoveRefused, RemoveFound,
        RemoveListed, NoEffect, npmVars, SameLook
  <1>3. UNCHANGED cache => Rows'
    BY <1>2, RowsLook DEF Rows
  <1>4. \A d, s : Serves(d, s)' <=> Serves(d, s)
    BY <1>2, SameServes
  <1>5. (\A id \in DOMAIN hosts : hosts[id].owner # c) => ~Owns(c)'
    BY <1>2 DEF Owns, Serves, OwnedBy
  <1>6. CASE RemoveSkipped
    <2>1. CleanupOnRemove => ~Owns(c)'
      BY <1>1, <1>5, <1>6 DEF RemoveSkipped, Rows
    <2>2. Ends(c)
      BY <1>2, <1>4, <1>6, <2>1, DoneHand DEF RemoveSkipped, Ends
    <2> QED  BY <1>3, <1>6, <2>2 DEF RemoveSkipped, Progress
  <1>7. CASE RemoveAlreadyGone
    <2>1. CleanupOnRemove /\ Forget(c) /\ Done /\ cache[c] \notin DOMAIN hosts
      BY <1>1, <1>7 DEF RemoveAlreadyGone, RemoveListed
    <2>2. \A id \in DOMAIN hosts : hosts[id].owner # c
      BY <2>1 DEF Rows
    <2>3. /\ DOMAIN cache' = DOMAIN cache \ {c}
          /\ \A d \in DOMAIN cache' : cache'[d] = cache[d]
      BY <2>1 DEF Forget, Restrict
    <2>4. Rows'
      BY <1>2, <2>2, <2>3, RowsLook DEF Rows
    <2>5. Ends(c)
      BY <1>2, <1>4, <1>5, <2>1, <2>2, DoneHand DEF Ends
    <2> QED  BY <2>4, <2>5 DEF Progress
  <1>8. CASE RemoveRefused
    <2>1. /\ CleanupOnRemove /\ Done /\ UNCHANGED cache
          /\ hosts[cache[c]].owner # c
      BY <1>1, <1>8 DEF RemoveRefused, RemoveListed
    <2>2. \A id \in DOMAIN hosts : hosts[id].owner # c
      BY <2>1 DEF Rows
    <2>3. Ends(c)
      BY <1>2, <1>4, <1>5, <2>1, <2>2, DoneHand DEF Ends
    <2> QED  BY <1>3, <2>1, <2>3 DEF Progress
  <1>9. CASE RemoveFound
    <2>1. Hand' = Hand /\ UNCHANGED cache
      BY <1>2, <1>9 DEF RemoveFound, Commit, Hand
    <2> QED  BY <1>3, <1>4, <2>1 DEF Progress, Stays
  <1> QED  BY <1>6, <1>7, <1>8, <1>9

\* remove(): the delete.
LEMMA DeleteServes ==
    ASSUME WriterTypeOK, NpmTypeOK, Rows, Seen, Delete, ~CallFailed
    PROVE  Rows' /\ Progress
  <1>1. PICK c \in Containers : c = intent.container
    BY InHandIs DEF Delete
  <1>2. Hand = Remove(c) /\ phase = "delete"
    BY <1>1, InHandIs DEF Delete
  <1>3. CleanupOnRemove /\ hostId \in DOMAIN hosts /\ hosts[hostId].owner = c
    BY <1>1, <1>2 DEF Seen, Aims, DeleteAims
  <1>4. ~Fault
    BY NpmConstants DEF Fault, CallFailed, NpmTypeOK
  <1>5. DeleteApplied(hostId) /\ Forget(c) /\ Done
    BY <1>1, <1>3, <1>4 DEF Delete, DeleteOk, DeleteErr
  <1>6. /\ Rows' /\ ~Owns(c)'
        /\ \A d, s : d # c => (Serves(d, s)' <=> Serves(d, s))
    BY <1>3, <1>5, RowsLost
  <1>7. Ends(c)
    BY <1>2, <1>3, <1>5, <1>6, DoneHand DEF Ends
  <1> QED  BY <1>6, <1>7 DEF Progress

\* The certificate does not show.
LEMMA CertServes ==
    ASSUME WriterTypeOK, NpmTypeOK, Rows, Seen, ~CallFailed,
           (RequestCert /\ NoEffect) \/ AttachCert
    PROVE  Rows' /\ Progress
  <1>1. Hand = NoIntent /\ Hand' = NoIntent /\ UNCHANGED cache
    BY DoneHand DEF RequestCert, AttachCert, Commit, Hand
  <1>2. SameLook
    <2>1. CASE hosts' = hosts
      BY <2>1 DEF SameLook
    <2>2. CASE hosts' # hosts
      <3>1. phase = "attach" /\ patch \in Patch /\ patch.fields = {"tls"}
        BY <2>2
        DEF RequestCert, NoEffect, npmVars, AttachCert, Seen, Aims,
            WriterTypeOK
      <3>2. /\ intent.container \in Containers /\ intent.target \in Targets
        BY <3>1, Busy
      <3>3. PutApplied(hostId, patch, intent.container, intent.target)
        BY <2>2 DEF RequestCert, NoEffect, npmVars, AttachCert, PutOk, PutErr
      <3>4. /\ hostId \in DOMAIN hosts /\ DOMAIN hosts' = DOMAIN hosts
            /\ \A i \in DOMAIN hosts : i # hostId => hosts'[i] = hosts[i]
        BY <3>1, <3>2, <3>3, PutAppliedKeeps
      <3>5. PICK outcome \in Outcomes(hosts[hostId], patch, intent.target) :
               hosts'[hostId] = Patched(hosts[hostId], patch,
                                        intent.container, outcome)
        BY <3>3, <3>4 DEF PutApplied, NpmTypeOK
      <3>6. /\ hosts'[hostId].owner = hosts[hostId].owner
            /\ hosts'[hostId].domains = hosts[hostId].domains
            /\ hosts'[hostId].target = hosts[hostId].target
        BY <3>1, <3>5 DEF Patched, Outcomes
      <3> QED  BY <3>4, <3>6 DEF SameLook
    <2> QED  BY <2>1, <2>2
  <1>3. Rows' /\ \A d, t : Serves(d, t)' <=> Serves(d, t)
    BY <1>1, <1>2, RowsLook DEF Rows
  <1> QED  BY <1>1, <1>3 DEF Progress, Stays

\* Every step of the writer.
LEMMA WriterServes ==
    ASSUME ~LostResponses \/ UniqueDomains, WriterInv, TableInv,
           WriterTask, ~CallFailed
    PROVE  TableInv' /\ Progress
  <1>1. WriterTypeOK /\ NpmTypeOK /\ Rows /\ Seen
    BY DEF WriterInv, WriterTypeOK, TableInv
  <1>2. ~Fault
    BY <1>1, NpmConstants DEF Fault, CallFailed, NpmTypeOK
  <1>3. DeleteAims'
    BY <1>1, DeleteAimsKept DEF WriterNext, Seen
  <1>4. CASE Seed
    <2>1. /\ DOMAIN hosts = {} /\ hosts' = hosts /\ phase = "seed"
          /\ phase' = "idle" /\ intent' = intent /\ intent = NoIntent
      BY <1>1, <1>4 DEF Seed, Seen, NoEffect, npmVars, WriterTypeOK
    <2>2. Rows' /\ Seen'
      BY <2>1 DEF Rows, Seen, Aims, DeleteAims
    <2>3. Stays
      BY <2>1, SameServes DEF Stays, Hand
    <2> QED  BY <2>2, <2>3 DEF TableInv, Progress
  <1>5. CASE Handle
    <2>1. Rows' /\ Progress /\ (phase' \in {"create", "cert"} => Seen')
      <3>1. \/ UpsertConflict \/ UpsertInSync \/ UpsertDrifted
            \/ UpsertMissing \/ Update \/ Create
            \/ (RequestCert /\ NoEffect) \/ AttachCert
            \/ RemoveSkipped \/ RemoveAlreadyGone \/ RemoveRefused
            \/ RemoveFound \/ Delete
        BY <1>1, <1>5, PhaseActions
      <3>2. CASE UpsertConflict \/ UpsertInSync \/ UpsertDrifted
                 \/ UpsertMissing
        <4>1. phase' # "cert"
          BY <3>2
          DEF UpsertConflict, UpsertInSync, UpsertDrifted, UpsertMissing,
              Done, Commit
        <4> QED  BY <1>1, <3>2, <4>1, UpsertLists
      <3>3. CASE Update
        BY <1>1, <3>3, UpdateServes, DoneHand DEF Update
      <3>4. CASE Create
        <4>1. phase' # "create"
          BY <3>4 DEF Create, Done, Commit
        <4> QED  BY <1>1, <3>4, <4>1, CreateServes
      <3>5. CASE (RequestCert /\ NoEffect) \/ AttachCert
        <4>1. phase' \notin {"create", "cert"}
          BY <3>5 DEF RequestCert, AttachCert, Done, Commit
        <4> QED  BY <1>1, <3>5, <4>1, CertServes
      <3>6. CASE RemoveSkipped \/ RemoveAlreadyGone \/ RemoveRefused
                 \/ RemoveFound
        <4>1. phase' \notin {"create", "cert"}
          BY <3>6
          DEF RemoveSkipped, RemoveAlreadyGone, RemoveRefused, RemoveFound,
              Done, Commit
        <4> QED  BY <1>1, <3>6, <4>1, RemoveLists
      <3>7. CASE Delete
        <4>1. phase' \notin {"create", "cert"}
          BY <3>7 DEF Delete, Done
        <4> QED  BY <1>1, <3>7, <4>1, DeleteServes
      <3> QED  BY <3>1, <3>2, <3>3, <3>4, <3>5, <3>6, <3>7
    <2>2. Aims' /\ phase' # "seed"
      <3>1. phase # "seed"
        BY <1>1, <1>5, PhaseActions DEF UpsertPhases, RemovePhases
      <3> QED  BY <1>1, <1>5, <3>1, WorkAims, WorkIntent
    <2>3. Seen'
      BY <1>3, <2>1, <2>2 DEF Seen
    <2> QED  BY <2>1, <2>3 DEF TableInv
  <1>6. ~SeedFailed
    BY <1>2 DEF SeedFailed, FaultyNoEffect
  <1> QED  BY <1>4, <1>5, <1>6 DEF WriterTask

\* What has ended leaves the flight: a Remove that comes later is still there,
\* and an Upsert that was to come last has had its effect.
LEMMA FlightLands ==
    ASSUME UNCHANGED containerVars, NEW f, f = Flight, NEW g, g = Flight',
           f[0] = Hand, g[0] = Hand', \A n \in Int : n # 0 => g[n] = f[n],
           \A n \in Int : n < 0 => f[n] = NoIntent,
           NEW c \in Containers, Ends(c), GoneCleared, RunningServed
    PROVE  GoneCleared' /\ RunningServed'
  <1>1. /\ Running' = Running /\ target' = target
        /\ \A i, d : Answers(i, d)' <=> Answers(i, d)
        /\ \A i, d : Against(i, d)' <=> Against(i, d)
        /\ \A i, d : Asks(i, d)' <=> Asks(i, d)
    BY DEF containerVars, Running, Answers, Against, Asks, Wanted
  <1>2. \A d : d # c => (Owns(d)' <=> Owns(d))
    BY DEF Owns, Ends
  <1>3. /\ \A n \in Int : \A d : Asks(g[n], d) => n > 0 /\ Asks(f[n], d)
        /\ \A n \in Int : \A d : Against(g[n], d) => Against(f[n], d)
        /\ \A n \in Int : \A d : f[n] = Remove(d) /\ n # 0 => g[n] = Remove(d)
    BY ItemsMean DEF Ends
  <1>4. \/ \E t : /\ Hand = Upsert(c, t) /\ Foreign(c)
                  /\ \A s : Serves(c, s)' <=> Serves(c, s)
        \/ \E t : Hand = Upsert(c, t) /\ Serves(c, t)'
        \/ /\ Hand = Remove(c)
           /\ IF CleanupOnRemove THEN ~Owns(c)'
              ELSE \A s : Serves(c, s)' <=> Serves(c, s)
    BY DEF Ends
  <1>5. ASSUME CleanupOnRemove, NEW d, NEW m \in Int, Cleared(f, d, m)
        PROVE  Cleared(g, d, m)'
    <2>1. CASE d # c
      <3>1. f[0] # Remove(d)
        BY <1>4, <2>1, IntentsDiffer
      <3> QED  BY <1>1, <1>2, <1>3, <1>5, <2>1, <3>1 DEF Cleared
    <2>2. CASE d = c /\ \E t : Hand = Upsert(c, t)
      <3>1. Asks(f[0], c) /\ 0 \in Int
        BY <2>2, ItemsMean
      <3>2. PICK n \in Int : /\ n < m /\ f[n] = Remove(c)
                             /\ \A k \in Int : k > n => ~Asks(f[k], c)
        BY <1>5, <2>2, <3>1 DEF Cleared
      <3>3. n > 0
        BY <2>2, <3>1, <3>2, IntentsDiffer
      <3> QED  BY <1>1, <1>3, <2>2, <3>2, <3>3 DEF Cleared
    <2>3. CASE d = c /\ Hand = Remove(c)
      <3>1. ~Owns(c)'
        BY <1>4, <1>5, <2>3, IntentsDiffer
      <3>2. CASE \E n \in Int : Asks(g[n], c)
        <4>1. PICK n \in Int : n > 0 /\ Asks(f[n], c)
          BY <1>3, <3>2
        <4>2. PICK j \in Int : /\ j < m /\ f[j] = Remove(c)
                               /\ \A k \in Int : k > j => ~Asks(f[k], c)
          BY <1>5, <2>3, <4>1 DEF Cleared
        <4>3. j > 0
          BY <4>1, <4>2
        <4> QED  BY <1>1, <1>3, <2>3, <4>2, <4>3 DEF Cleared
      <3>3. CASE ~\E n \in Int : Asks(g[n], c)
        BY <1>1, <2>3, <3>1, <3>3 DEF Cleared
      <3> QED  BY <3>2, <3>3
    <2> QED  BY <1>4, <2>1, <2>2, <2>3
  <1>6. GoneCleared'
    BY <1>1, <1>5 DEF GoneCleared
  <1>7. ASSUME NEW x, ~CleanupOnRemove, Foreign(x) PROVE Foreign(x)'
    <2>1. PICK d : d # x /\ d \in Containers /\ UrlOf[d] = UrlOf[x] /\ Owns(d)
      BY <1>7 DEF Foreign
    <2>2. Owns(d)'
      BY <1>2, <1>4, <1>7, <2>1 DEF Owns
    <2> QED  BY <2>1, <2>2 DEF Foreign
  <1>8. ASSUME NEW x \in Running
        PROVE  \/ Fine(x)' /\ \A n \in Int : ~Against(g[n], x)
               \/ \E m \in Int : Coming(g, x, m)'
    <2>1. CASE Fine(x) /\ \A n \in Int : ~Against(f[n], x)
      <3>1. CASE x # c
        <4>1. \A t : Serves(x, t)' <=> Serves(x, t)
          BY <3>1 DEF Ends
        <4>2. Serves(x, target[x]) => Serves(x, target[x])'
          BY <1>1, <4>1
        <4> QED  BY <1>3, <1>7, <2>1, <4>2 DEF Fine
      <3>2. CASE x = c
        <4>1. ~Against(f[0], c)
          BY <2>1, <3>2
        <4>2. PICK t : /\ Hand = Upsert(c, t)
                       /\ \/ \A s : Serves(c, s)' <=> Serves(c, s)
                          \/ Serves(c, t)'
          BY <1>4, <4>1, ItemsMean
        <4>3. t = target[c] /\ target[c]' = t
          BY <1>1, <4>1, <4>2, ItemsMean
        <4>4. Fine(c)'
          BY <1>7, <2>1, <3>2, <4>2, <4>3 DEF Fine
        <4> QED  BY <1>3, <2>1, <3>2, <4>4
      <3> QED  BY <3>1, <3>2
    <2>2. CASE \E m \in Int : Coming(f, x, m)
      <3>1. PICK m \in Int : Coming(f, x, m)
        BY <2>2
      <3>2. CASE m = 0
        <4>1. Answers(Hand, x) /\ \A k \in Int : k > 0 => ~Against(f[k], x)
          BY <3>1, <3>2 DEF Coming
        <4>2. PICK t : /\ Hand = Upsert(c, t)
                       /\ Foreign(c) \/ Serves(c, t)'
          BY <1>4, <4>1, ItemsMean
        <4>3. x = c /\ t = target[c] /\ target[c]' = t
          BY <1>1, <4>1, <4>2, ItemsMean
        <4>4. ASSUME Foreign(c), CleanupOnRemove PROVE FALSE
          <5>1. PICK d : /\ d # c /\ d \in Containers
                         /\ UrlOf[d] = UrlOf[c] /\ Owns(d)
            BY <4>4 DEF Foreign
          <5>2. Cleared(f, d, 0)
            BY <3>1, <3>2, <4>3, <4>4, <5>1 DEF Coming
          <5>3. PICK n \in Int : n < 0 /\ f[n] = Remove(d)
            BY <5>1, <5>2 DEF Cleared
          <5> QED  BY <5>3, IntentsDiffer
        <4>5. Fine(c)'
          BY <1>7, <4>2, <4>3, <4>4 DEF Fine
        <4>6. ASSUME NEW n \in Int PROVE ~Against(g[n], x)
          <5>1. CASE n > 0
            BY <1>3, <4>1, <5>1
          <5>2. CASE n <= 0
            BY <5>2, ItemsMean DEF Ends
          <5> QED  BY <5>1, <5>2
        <4> QED  BY <4>3, <4>5, <4>6
      <3>3. CASE m # 0
        <4>1. Answers(g[m], x)' /\ \A k \in Int : k > m => ~Against(g[k], x)'
          BY <1>1, <1>3, <3>1, <3>3 DEF Coming
        <4>2. ASSUME CleanupOnRemove, NEW d \in Containers \ {x},
                     UrlOf[d] = UrlOf[x]
              PROVE  Cleared(g, d, m)'
          BY <1>5, <3>1, <4>2 DEF Coming
        <4> QED  BY <4>1, <4>2 DEF Coming
      <3> QED  BY <3>2, <3>3
    <2> QED  BY <1>8, <2>1, <2>2 DEF RunningServed
  <1>9. RunningServed'
    BY <1>1, <1>8 DEF RunningServed
  <1> QED  BY <1>6, <1>9

\* The writer: the intent in hand stays, or ends.
LEMMA WorkMoves ==
    ASSUME SyncInv, RunningApart, GoneCleared, RunningServed, Progress, Work
    PROVE  GoneCleared' /\ RunningServed'
  <1>1. /\ UNCHANGED <<queue, events, containerVars, watchVars>>
        /\ Len(queue) \in Nat /\ Len(events) \in Nat
    BY DEF Work, dockerVars, streamVars, SyncInv, SyncTypeOK, ChannelTypeOK,
           DockerTypeOK
  <1>2. Held' = Held /\ \A e : EventItem(e)' = EventItem(e)
    BY <1>1 DEF Held, watchVars, EventItem
  <1>3. /\ Flight[0] = Hand /\ Flight'[0] = Hand'
        /\ \A n \in Int : n # 0 => Flight'[n] = Flight[n]
        /\ \A n \in Int : n < 0 => Flight[n] = NoIntent
    BY <1>1, <1>2 DEF Flight
  <1>4. CASE Stays
    <2>1. \A n \in Int : Flight'[n] = Flight[n]
      BY <1>3, <1>4 DEF Stays
    <2> QED  BY <1>1, <1>4, <2>1, FlightStays DEF Stays, FlightKept
  <1>5. CASE \E c \in Containers : Ends(c)
    BY <1>1, <1>3, <1>5, FlightLands
  <1> QED  BY <1>4, <1>5 DEF Progress

-----------------------------------------------------------------------------
(* The invariant                                                              *)

\* While nothing excuses the events, every step is one of these.
Excused ==
    \/ Work \/ Take \/ Watch \/ Reconcile
    \/ \E c \in Containers : /\ Start(c) \/ Die(c) \/ Destroy(c)
                             /\ Excuses(c) = {}
                             /\ UNCHANGED <<writerVars, queue, watchVars,
                                            sweepVars>>
    \/ UNCHANGED syncVars

\* A step that leaves nothing to excuse had nothing to excuse before it.
LEMMA NoExcuse ==
    ASSUME SyncInv, [SyncNext]_syncVars, excuse' = {}
    PROVE  excuse = {} /\ ~CallFailed /\ Excused
  <1>1. \A r : Disturb(r) => excuse = {} /\ r = {}
    BY DEF Disturb
  <1>2. ~(Silent \/ Meddle \/ Reboot)
    BY <1>1 DEF Silent, Meddle, Reboot
  <1>3. CASE Work \/ Take \/ Watch \/ Reconcile
    <2>1. Observe
      BY <1>3 DEF Work, Take, Watch, Reconcile
    <2> QED  BY <1>1, <1>3, <2>1 DEF Observe, Excused
  <1>4. CASE ContainerEvent
    <2>1. PICK c \in Containers : /\ Start(c) \/ Die(c) \/ Destroy(c)
                                  /\ Disturb(Excuses(c))
      BY <1>4 DEF ContainerEvent
    <2>2. ~CallFailed
      <3>1. UNCHANGED dockerFaults
        BY <2>1 DEF Start, Die, Destroy, DockerOp
      <3> QED
        BY <1>4, <3>1
        DEF ContainerEvent, CallFailed, writerVars, npmVars, taskVars
    <2> QED  BY <1>1, <1>4, <2>1, <2>2 DEF ContainerEvent, Excused
  <1>5. CASE UNCHANGED syncVars
    <2>1. ~CallFailed
      BY <1>5
      DEF syncVars, writerVars, npmVars, taskVars, dockerVars, CallFailed
    <2> QED  BY <1>5, <2>1 DEF syncVars, history, Excused
  <1> QED  BY <1>2, <1>3, <1>4, <1>5 DEF SyncNext

\* Who leaves the writer and its table alone.
LEMMA TableStays ==
    TableInv /\ UNCHANGED writerVars => TableInv'
  BY DEF TableInv, Rows, Seen, Aims, DeleteAims, UpdateOf, Diff, writerVars,
         npmVars, taskVars

\* The initial states.
LEMMA EventsInit ==
    SyncInit => EventsInv
  <1> SUFFICES ASSUME SyncInit PROVE EventsInv
    OBVIOUS
  <1>1. /\ hosts = << >> /\ phase = "seed" /\ intent = NoIntent
        /\ queue = << >> /\ events = << >> /\ ~subscribed
        /\ watch = "connect" /\ todo = {} /\ specs = {} /\ orphans = {}
        /\ sweep = "sleep"
    BY DEF SyncInit, WriterInit, NpmInit, ChannelInit, DockerInit,
           WatcherInit, ReconcilerInit
  <1>2. DOMAIN hosts = {}
    BY <1>1
  <1>3. Running = {}
    BY SyncConstants DEF SyncInit, DockerInit, Running
  <1>4. TableInv
    BY <1>1, <1>2 DEF TableInv, Rows, Seen, Aims, DeleteAims
  <1>5. SweepRight /\ StreamOpen /\ RunningApart /\ RunningServed
    BY <1>1, <1>3 DEF SweepRight, StreamOpen, RunningApart, RunningServed
  <1>6. \A n \in Int : Flight[n] = NoIntent
    BY <1>1 DEF Flight, Hand, Held
  <1>7. \A d : ~Owns(d)
    BY <1>2 DEF Owns, Serves, OwnedBy
  <1>8. \A d : Cleared(Flight, d, 0)
    BY <1>6, <1>7, ItemsMean DEF Cleared
  <1>9. GoneCleared
    BY <1>8 DEF GoneCleared
  <1> QED  BY <1>4, <1>5, <1>9 DEF EventsInv

\* The steps.
LEMMA EventsKept ==
    ASSUME ~LostResponses \/ UniqueDomains
    PROVE  SyncInv /\ SweepStages /\ EventsInv /\ [SyncNext]_syncVars
              => EventsInv'
  <1> SUFFICES ASSUME SyncInv, SweepStages, EventsInv, [SyncNext]_syncVars,
                      excuse' = {}
               PROVE  /\ TableInv' /\ SweepRight' /\ StreamOpen'
                      /\ RunningApart' /\ GoneCleared' /\ RunningServed'
    BY DEF EventsInv
  <1>1. /\ TableInv /\ SweepRight /\ StreamOpen /\ RunningApart
        /\ GoneCleared /\ RunningServed
    BY NoExcuse DEF EventsInv
  <1>2. ~CallFailed /\ Excused
    BY NoExcuse
  <1>3. UNCHANGED containerVars => RunningApart'
    BY <1>1 DEF containerVars, RunningApart, Running
  <1>4. UNCHANGED <<containerVars, sweepVars>> => SweepRight'
    BY <1>1, SameContainers DEF SweepRight, sweepVars, Alive
  <1>5. UNCHANGED <<streamVars, watchVars>> => StreamOpen'
    BY <1>1 DEF StreamOpen, streamVars, watchVars
  <1>6. CASE Work
    <2>1. TableInv' /\ Progress
      BY <1>1, <1>2, <1>6, WriterServes DEF Work, SyncInv
    <2>2. UNCHANGED <<containerVars, sweepVars, streamVars, watchVars>>
      BY <1>6 DEF Work, dockerVars
    <2> QED  BY <1>1, <1>3, <1>4, <1>5, <1>6, <2>1, <2>2, WorkMoves
  <1>7. CASE Take
    <2>1. UNCHANGED <<containerVars, sweepVars, streamVars, watchVars>>
      BY <1>7 DEF Take, dockerVars
    <2>2. phase' \in {"upsert", "remove"} /\ UNCHANGED <<hosts, cache>>
      BY <1>7, ReceiveTyped, IntentFields
      DEF Take, Accept, SyncInv, SyncTypeOK, NoEffect, npmVars
    <2>3. TableInv'
      BY <1>1, <2>2 DEF TableInv, Rows, Seen, Aims, DeleteAims
    <2>4. FlightKept
      BY <1>1, <1>7, TakeMoves
    <2> QED  BY <1>1, <1>3, <1>4, <1>5, <2>1, <2>3, <2>4 DEF FlightKept
  <1>8. CASE Watch
    <2>1. UNCHANGED <<writerVars, sweepVars, containerVars>>
      BY <1>8
      DEF Watch, WatcherTask, WatchConnect, WatchNext, WatchStreamEnd,
          WatchBackoff, WatchInspect, WatchSend, Subscribe, TakeEvent,
          dockerVars
    <2>2. FlightKept /\ StreamOpen'
      BY <1>1, <1>2, <1>8, WatchMoves
    <2> QED
      BY <1>1, <1>3, <1>4, <2>1, <2>2, TableStays DEF FlightKept
  <1>9. CASE Reconcile
    <2>1. FlightKept /\ SweepRight'
      BY <1>1, <1>2, <1>9, SweepMoves
    <2>2. UNCHANGED <<writerVars, containerVars, streamVars, watchVars>>
      <3>1. UNCHANGED <<writerVars, containerVars>>
        <4>1. NpmTypeOK /\ DockerTypeOK /\ todo \subseteq Running
          BY <1>1 DEF SyncInv, SyncTypeOK, WriterTypeOK, SweepRight
        <4>2. UNCHANGED <<faults, dockerFaults>>
          BY <1>2 DEF CallFailed
        <4> QED  BY <1>2, <1>9, <4>1, <4>2, SweepSteps
      <3>2. UNCHANGED streamVars
        BY <1>9
        DEF Reconcile, ReconcilerTask, SweepStart, SweepInspect, SweepPlan,
            SweepSend, dockerVars
      <3> QED  BY <1>9, <3>1, <3>2 DEF Reconcile
    <2> QED
      BY <1>1, <1>3, <1>5, <2>1, <2>2, TableStays DEF FlightKept
  <1>10. CASE \E c \in Containers :
                 /\ Start(c) \/ Die(c) \/ Destroy(c)
                 /\ Excuses(c) = {}
                 /\ UNCHANGED <<writerVars, queue, watchVars, sweepVars>>
    <2>1. /\ subscribed /\ subscribed' = subscribed
          /\ RunningApart' /\ GoneCleared' /\ RunningServed' /\ SweepRight'
      BY <1>1, <1>10, ContainerMoves
    <2>2. StreamOpen'
      BY <1>1, <1>10, <2>1 DEF StreamOpen, watchVars
    <2> QED  BY <1>1, <1>10, <2>1, <2>2, TableStays
  <1>11. CASE UNCHANGED syncVars
    <2>1. UNCHANGED <<writerVars, containerVars, sweepVars, streamVars,
                      watchVars, queue, events, hosts, phase, intent>>
      BY <1>11
      DEF syncVars, dockerVars, streamVars, writerVars, npmVars, taskVars
    <2>2. \A n \in Int : Flight'[n] = Flight[n]
      BY <2>1 DEF Flight, Hand, Held, EventItem, watchVars
    <2>3. FlightKept
      BY <1>1, <2>1, <2>2, SameServes, FlightStays
    <2> QED
      BY <1>1, <1>3, <1>4, <1>5, <2>1, <2>3, TableStays DEF FlightKept
  <1> QED
    BY <1>2, <1>6, <1>7, <1>8, <1>9, <1>10, <1>11 DEF Excused

\* So the invariant holds throughout.
LEMMA EventsInvariance ==
    ASSUME ~LostResponses \/ UniqueDomains
    PROVE  SyncSpec => [](SyncInv /\ EventsInv)
  <1>1. SyncInv /\ FlowInv /\ EventsInv /\ [SyncNext]_syncVars => EventsInv'
    BY EventsKept DEF FlowInv
  <1> QED
    BY <1>1, EventsInit, SyncInvariance, FlowInvariance, PTL DEF SyncSpec

\* The event stream alone keeps NPM in step, as long as every event is
\* delivered, no call fails and no container changes during a sweep, with any
\* interleaving of the two producers (main.rs:61-91).  A POST that is
\* repeated behind a lost answer makes copies although the call succeeds, so
\* either no answer of a POST is lost or NPM refuses the second one.
THEOREM EventsAlone ==
    ASSUME ~LostResponses \/ UniqueDomains
    PROVE  SyncSpec => []EventsSuffice
  <1>1. SyncInv /\ EventsInv => EventsSuffice
    <2> SUFFICES ASSUME SyncInv, EventsInv, AtRest, excuse = {}
                 PROVE  Synced
      BY DEF EventsSuffice
    <2>1. Rows /\ GoneCleared /\ RunningServed
      BY DEF EventsInv, TableInv
    <2>2. /\ intent = NoIntent /\ queue = << >> /\ events = << >>
          /\ watch \notin {"inspect", "send"} /\ phase = "idle"
      BY DEF AtRest, Drained, SyncInv, WriterInv, WriterTypeOK
    <2>3. \A n \in Int : Flight[n] = NoIntent
      BY <2>2 DEF Flight, Hand, Held
    <2>4. ASSUME CleanupOnRemove, NEW d \in Containers \ Running
          PROVE  ~Owns(d)
      <3>1. PICK m \in Int : Cleared(Flight, d, m)
        BY <2>1, <2>4 DEF GoneCleared
      <3> QED  BY <2>3, <3>1, IntentsDiffer DEF Cleared
    <2>5. CleanupOnRemove => NoOrphan
      BY <2>1, <2>4 DEF NoOrphan, Rows, Owns, Serves, OwnedBy
    <2>6. ASSUME NEW c \in Running PROVE Served(c) \/ Blocked(c)
      <3>1. Fine(c)
        BY <2>1, <2>3, ItemsMean DEF RunningServed, Coming
      <3>2. CASE Serves(c, target[c])
        BY <2>1, <3>2 DEF Serves, OwnedBy, Served, Rows
      <3>3. CASE ~CleanupOnRemove /\ Foreign(c)
        <4>1. PICK d : /\ d # c /\ d \in Containers /\ UrlOf[d] = UrlOf[c]
                       /\ Owns(d)
          BY <3>3 DEF Foreign
        <4>2. PICK id \in DOMAIN hosts : hosts[id].owner = d
          BY <4>1 DEF Owns, Serves, OwnedBy
        <4>3. UrlOf[c] \in hosts[id].domains
          BY <2>1, <4>1, <4>2 DEF Rows
        <4> QED  BY <3>3, <4>1, <4>2, <4>3 DEF Blocked, HavingUrl
      <3> QED  BY <3>1, <3>2, <3>3 DEF Fine
    <2> QED  BY <2>5, <2>6 DEF Synced, AllServed
  <1> QED  BY <1>1, EventsInvariance, PTL
=============================================================================
