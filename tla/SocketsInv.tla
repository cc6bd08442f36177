----------------------------- MODULE SocketsInv -----------------------------
(***************************************************************************)
(* The inductive invariant of Sockets, one definition per subject.         *)
(***************************************************************************)
EXTENDS Sockets

-----------------------------------------------------------------------------
(* The local variables of an activity.                                     *)

Local == [pc : Phase, next : Phase \cup {NULL},
          own : Desc \cup {NULL}, peer : Desc \cup {NULL}, drop : Desc \cup {NULL},
          ref : Task \cup {NULL}, msg : Message \cup {NULL}]

\* Where an activity is, or goes on when it has given a descriptor back
Stage(l) == IF l.drop = NULL THEN l.pc ELSE l.next

UserStage == {"idle", "have", "remote", "remotetask", "insert", "greet", "abort",
              "push", "wake", "scan", "wild"}
AsyncStage == {"idle", "async", "have", "push", "wake", "scan", "wild"}
HangupStage == {"idle", "hangup", "push", "wake", "scan", "unhook", "free", "freeboth",
                "freesock", "wild"}
KillStage == {"idle", "pick", "close", "await", "spin", "freetask"}

\* Each kind of activity has its own stages.
InStage(a, l) ==
  /\ a \in User => Stage(l) \in UserStage
  /\ a \in Async => Stage(l) \in AsyncStage
  /\ a \in Desc => Stage(l) \in HangupStage
  /\ a \in Task => Stage(l) \in KillStage

\* What is being given back
Gives(a, l) ==
  /\ l.drop = NULL <=> l.next = NULL
  /\ l.drop # NULL <=> l.pc \in {"deref", "delete"}
  /\ l.drop # NULL =>
       /\ l.next \in {"idle", "have", "remotetask", "greet", "wake", "scan", "unhook", "await"}
       /\ l.next = "scan" => l.drop = l.peer
       /\ l.next = "await" => l.drop = l.own
       /\ a \in Desc => l.drop = OtherEnd(a) /\ l.next \in {"scan", "unhook"}
       /\ a \in Task => l.next = "await"

\* Which variables are set at which stage
Keeps(a, l) ==
  /\ l.own # NULL <=>
       \/ Stage(l) \in {"have", "async", "remote", "remotetask", "insert", "greet", "abort",
                        "close", "await"}
       \/ Stage(l) = "push" /\ a \notin Desc
  /\ l.peer # NULL <=> Stage(l) \in {"remote", "insert", "push", "wake", "scan"}
  /\ l.ref # NULL => Stage(l) \in {"remotetask", "insert", "scan"}
  /\ Stage(l) \in {"insert", "scan"} => l.ref # NULL
  /\ l.msg # NULL <=> Stage(l) = "push"

\* What they are set to
Fits(a, l) ==
  /\ Stage(l) \in {"remote", "push", "insert"} /\ l.own # NULL => l.peer = OtherEnd(l.own)
  /\ a \in Desc /\ l.peer # NULL => l.peer = OtherEnd(a)
  /\ l.msg = "close" <=> a \in Desc /\ l.msg # NULL
  /\ l.msg = "connect" => a \in User
  /\ Stage(l) \in {"insert", "greet", "abort"} \/ l.msg = "connect" =>
       l.own = Connector(l.own[1])

Shape(a, l) == InStage(a, l) /\ Gives(a, l) /\ Keeps(a, l) /\ Fits(a, l)

Shapes == \A a \in Activity : Shape(a, act[a])

-----------------------------------------------------------------------------
(* Sockets and their two ends.                                             *)

\* The end d has been taken off and its thread is to free the socket.
Frees(d) == act[d].pc \in {"freeboth", "freesock"}

\* The end e has told the other one that it hangs up.
Sent(e) == act[e].pc \in {"wake", "deref", "delete", "scan", "unhook", "wild"}

Life ==
  /\ \A d \in ends : d \in descs /\ d[1] \in socks \ lost
  /\ \A d \in Desc : d \in descs /\ d \notin ends <=> act[d].pc \in {"free", "freeboth"}
  /\ \A d \in Desc : act[d].pc \notin {"idle", "free", "freeboth", "freesock"} => d \in ends
  /\ \A d \in Desc : Frees(d) => /\ d[1] \in socks \ lost
                                 /\ d \notin ends /\ OtherEnd(d) \notin ends
                                 /\ ~Frees(OtherEnd(d))
  /\ \A s \in socks \ lost : \E d \in Desc : d[1] = s /\ (d \in ends \/ Frees(d))
  /\ lost \subseteq socks /\ hasBeenConnected \subseteq socks \ lost
  /\ \A s \in socks \ lost : Receiver(s) \in descs => s \in hasBeenConnected

Told ==
  /\ told \subseteq descs
  /\ \A d \in told : OtherEnd(d) \in ends => Sent(OtherEnd(d))
  /\ \A d \in ends : d \notin isClosed /\ (OtherEnd(d) \notin ends \/ Sent(OtherEnd(d)))
                       => d \in told

-----------------------------------------------------------------------------
(* References to descriptors and to tasks.                                 *)

Refs ==
  /\ RefsExact
  /\ \A a \in Activity, d \in Desc :
       OwnRef(a, d) \/ PeerRef(a, d) \/ act[a].drop = d => d \in ends
  /\ \A d \in descs : ~At(d, "idle") => d \in isClosed /\ refCount[d] = 0
  /\ \A a \in Activity : At(a, "delete") =>
       act[a].drop \in isClosed /\ refCount[act[a].drop] = 0 /\ At(act[a].drop, "idle")
  /\ \A a, b \in Activity :
       At(a, "delete") /\ At(b, "delete") /\ act[a].drop = act[b].drop => a = b

Tasks ==
  /\ \A d \in descs : task[d] \in Task
  /\ \A a \in Activity : act[a].ref # NULL => state[act[a].ref] \in {"live", "killed"}
  /\ \A t \in Task : ~At(t, "idle") => state[t] = "reaping"
  /\ \A u \in User : ~At(u, "idle") => state[Home[u]] \in {"live", "killed"}
  /\ \A u \in asleep : state[Home[u]] # "free"

-----------------------------------------------------------------------------
(* The lists of a task.                                                    *)

Listed(d) == \E t \in Task : d \in ToSet(table[t])

Lists ==
  /\ \A d \in pending : d \in ends /\ At(d, "idle")
  /\ \A t \in Task : \A d \in ToSet(table[t]) : d \in ends /\ At(d, "idle") /\ task[d] = t
  /\ \A t \in Task : IsInjective(table[t])
  /\ \A u \in User : At(u, "insert") => task[act[u].peer] = act[u].ref /\ ~Listed(act[u].peer)

-----------------------------------------------------------------------------
(* The lists of messages.                                                  *)

\* The thread has made the other end of its socket and not yet greeted it.
Greets(l) == Stage(l) \in {"insert", "greet"} \/ l.msg = "connect"
Greeting(u) == Greets(act[u])

\* The control messages that d may have been sent
Extra(d) ==
  (IF OtherEnd(d) \in ends /\ ~Sent(OtherEnd(d)) THEN 0 ELSE 1)
    + (IF d = Receiver(d[1]) /\ ~ \E u \in User : Greeting(u) /\ act[u].own = OtherEnd(d)
         THEN 1 ELSE 0)

Counts ==
  /\ \A u, v \in User : Greeting(u) /\ Greeting(v) /\ act[u].own = act[v].own => u = v
  /\ \A u \in User : Greeting(u) => act[u].own[1] \in hasBeenConnected
  /\ \A d \in Desc : d[1] \notin hasBeenConnected => count[d] = 0
  /\ \A d \in Desc : count[d] <= MsgMax + Extra(d)

\* The kernel aborted because the other end is closed.
Aborts == \A u \in User : At(u, "abort") => ~Reachable(Receiver(act[u].own[1]))

IInv ==
  /\ Types /\ Shapes /\ Life /\ Told /\ Refs /\ Tasks /\ Lists /\ Counts /\ Aborts
  /\ NoLostWakeup

-----------------------------------------------------------------------------
(* The references of one activity.                                         *)

\* How many references to d activity a has when its variables are l
Weight(a, l, d) ==
  (IF l.own = d /\ (a \in Task => l.pc = "close") THEN 1 ELSE 0)
    + (IF l.peer = d /\ l.pc # "scan" /\ l.next # "scan" THEN 1 ELSE 0)
    + (IF l.drop = d /\ l.pc = "deref" THEN 1 ELSE 0)
=============================================================================
