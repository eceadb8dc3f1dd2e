------------------------- MODULE CallerTransactions -------------------------
(***************************************************************************)
(* Transactions opened as a caller (store/identity/user.py,                *)
(* store/engine.py, store/backend.py).  `async with user` opens a session  *)
(* and pushes its scope on a stack held in a context variable, which a     *)
(* task inherits from the task that spawns it; leaving pops the innermost  *)
(* scope of the task's own stack.  One user object is shared by any number *)
(* of tasks.  The first statement of a scope takes a pooled connection,    *)
(* begins, and binds the caller's standing to the transaction.             *)
(*                                                                         *)
(* Blocks nest properly within a task: block[t] is the stack of scopes     *)
(* that the program text of t has open.  A task that waits for a           *)
(* connection gives up when the pool's timeout passes, and the exception   *)
(* unwinds its blocks.                                                     *)
(***************************************************************************)
EXTENDS Naturals, Sequences, FiniteSets

CONSTANTS Tasks, Connections, Callers,
          MaxDepth,  \* bound: the blocks a task opens
          Null

\* The n-th block that a task opens.
BlockScope == [task : Tasks, n : 1 .. MaxDepth]

CallersAssumption ==
  /\ Null \notin Callers /\ Null \notin BlockScope
  /\ MaxDepth \in Nat \ {0}

VARIABLES
  doing,    \* doing[t]: "new", "running", "waiting", "unwinding" or "done"
  wants,    \* wants[t]: the scope a waiting task needs a connection for
  opened,   \* opened[t]: how many blocks t has opened so far
  openedAs, \* openedAs[s]: the caller scope s was opened as
  stack,    \* stack[t]: the context variable as task t sees it
  block,    \* block[t]: the scopes t's own blocks have open
  holder,   \* holder[c]: Null, or the scope a connection works for
  standing  \* standing[c]: whose standing is bound to the connection

txVars == <<doing, wants, opened, openedAs, stack, block, holder, standing>>

Stacks == UNION {[1 .. n -> BlockScope] : n \in 0 .. MaxDepth * Cardinality(Tasks)}

TxInit ==
  /\ \E first \in Tasks : doing = [t \in Tasks |-> IF t = first THEN "running" ELSE "new"]
  /\ wants = [t \in Tasks |-> Null]
  /\ opened = [t \in Tasks |-> 0]
  /\ openedAs = [s \in BlockScope |-> Null]
  /\ stack = [t \in Tasks |-> <<>>]
  /\ block = [t \in Tasks |-> <<>>]
  /\ holder = [c \in Connections |-> Null]
  /\ standing = [c \in Connections |-> Null]

Unused(c) == holder[c] = Null

\* A task starts another, which runs in a copy of its context.
Spawn(t, new) ==
  /\ doing[t] = "running" /\ doing[new] = "new"
  /\ doing' = [doing EXCEPT ![new] = "running"]
  /\ stack' = [stack EXCEPT ![new] = stack[t]]
  /\ UNCHANGED <<wants, opened, openedAs, block, holder, standing>>

Push(t, s) == stack' = [stack EXCEPT ![t] = Append(@, s)]

\* __aenter__ opens the session, whose transaction has no connection yet, and
\* pushes its scope.
Enter(t, u) ==
  LET s == [task |-> t, n |-> opened[t] + 1] IN
  /\ doing[t] = "running" /\ opened[t] < MaxDepth
  /\ opened' = [opened EXCEPT ![t] = @ + 1]
  /\ openedAs' = [openedAs EXCEPT ![s] = u]
  /\ Push(t, s)
  /\ block' = [block EXCEPT ![t] = Append(@, s)]
  /\ UNCHANGED <<doing, wants, holder, standing>>

\* The first statement in an open block asks the pool for a connection.
Ask(t, i) ==
  /\ doing[t] = "running" /\ i \in 1 .. Len(block[t])
  /\ \A c \in Connections : holder[c] # block[t][i]
  /\ doing' = [doing EXCEPT ![t] = "waiting"]
  /\ wants' = [wants EXCEPT ![t] = block[t][i]]
  /\ UNCHANGED <<opened, openedAs, stack, block, holder, standing>>

\* The transaction begins on it, and the listener binds the standing.
Connect(t, c) ==
  /\ doing[t] = "waiting" /\ Unused(c)
  /\ doing' = [doing EXCEPT ![t] = "running"]
  /\ wants' = [wants EXCEPT ![t] = Null]
  /\ holder' = [holder EXCEPT ![c] = wants[t]]
  /\ standing' = [standing EXCEPT ![c] = openedAs[wants[t]]]
  /\ UNCHANGED <<opened, openedAs, stack, block>>

\* Beginning or binding fails: the connection goes back, and the statement
\* raises.
ConnectFails(t, c) ==
  /\ doing[t] = "waiting" /\ Unused(c)
  /\ doing' = [doing EXCEPT ![t] = "unwinding"]
  /\ wants' = [wants EXCEPT ![t] = Null]
  /\ UNCHANGED <<opened, openedAs, stack, block, holder, standing>>

PoolTimeout(t) ==
  /\ doing[t] = "waiting" /\ ~ \E c \in Connections : Unused(c)
  /\ doing' = [doing EXCEPT ![t] = "unwinding"]
  /\ wants' = [wants EXCEPT ![t] = Null]
  /\ UNCHANGED <<opened, openedAs, stack, block, holder, standing>>

\* The end of a scope returns its connection, if it has one.  The settings are
\* local to the transaction: its end discards them.
MutRelease(s) ==
  /\ holder' = [c \in Connections |-> IF holder[c] = s THEN Null ELSE holder[c]]
  /\ UNCHANGED standing
MutReleaseLatest(s) ==   \* mutant: one slot for the latest scope of a task
  LET latest == [task |-> s.task, n |-> opened[s.task]] IN
  /\ holder' = [c \in Connections |-> IF holder[c] = latest THEN Null ELSE holder[c]]
  /\ standing' = [c \in Connections |-> IF holder[c] = latest THEN Null ELSE standing[c]]
ReleaseConnection(s) ==
  /\ holder' = [c \in Connections |-> IF holder[c] = s THEN Null ELSE holder[c]]
  /\ standing' = [c \in Connections |-> IF holder[c] = s THEN Null ELSE standing[c]]

\* __aexit__ pops the innermost scope of this task's stack and ends it, by a
\* commit or by the rollback of an exception.
Exit(t) ==
  /\ doing[t] \in {"running", "unwinding"} /\ block[t] # <<>>
  /\ LET s == stack[t][Len(stack[t])]
     IN ReleaseConnection(s)
  /\ stack' = [stack EXCEPT ![t] = SubSeq(@, 1, Len(@) - 1)]
  /\ block' = [block EXCEPT ![t] = SubSeq(@, 1, Len(@) - 1)]
  /\ UNCHANGED <<doing, wants, opened, openedAs>>

\* An exception or a cancellation reaches a block.
Raise(t) ==
  /\ doing[t] \in {"running", "waiting"}
  /\ doing' = [doing EXCEPT ![t] = "unwinding"]
  /\ wants' = [wants EXCEPT ![t] = Null]
  /\ UNCHANGED <<opened, openedAs, stack, block, holder, standing>>

Ends(t) ==
  /\ doing[t] \in {"running", "unwinding"} /\ block[t] = <<>>
  /\ doing' = [doing EXCEPT ![t] = "done"]
  /\ UNCHANGED <<wants, opened, openedAs, stack, block, holder, standing>>

TxNext ==
  \E t \in Tasks :
    \/ \E new \in Tasks : Spawn(t, new)
    \/ \E u \in Callers : Enter(t, u)
    \/ \E i \in 1 .. Len(block[t]) : Ask(t, i)
    \/ \E c \in Connections : Connect(t, c) \/ ConnectFails(t, c)
    \/ PoolTimeout(t) \/ Exit(t) \/ Raise(t) \/ Ends(t)

TxSpec == TxInit /\ [][TxNext]_txVars

-----------------------------------------------------------------------------
TxTypeOK ==
  /\ doing \in [Tasks -> {"new", "running", "waiting", "unwinding", "done"}]
  /\ wants \in [Tasks -> BlockScope \cup {Null}]
  /\ \A t \in Tasks : (wants[t] # Null) <=> (doing[t] = "waiting")
  /\ opened \in [Tasks -> 0 .. MaxDepth]
  /\ openedAs \in [BlockScope -> Callers \cup {Null}]
  /\ \A t \in Tasks : stack[t] \in Stacks /\ block[t] \in Stacks
  /\ holder \in [Connections -> BlockScope \cup {Null}]
  /\ standing \in [Connections -> Callers \cup {Null}]

\* What a task pops is the scope its own innermost block opened, though tasks
\* share user objects, run interleaved and inherit the stacks of one another.
PopsOwnScope ==
  \A t \in Tasks :
    /\ Len(block[t]) <= Len(stack[t])
    /\ block[t] = SubSeq(stack[t], Len(stack[t]) - Len(block[t]) + 1, Len(stack[t]))
    /\ \A i \in DOMAIN block[t] : block[t][i].task = t

\* A transaction runs with the standing of the caller its scope was opened as,
\* and a connection in the pool carries nobody's into the next request.
StandingIsCallers ==
  \A c \in Connections :
    standing[c] = IF Unused(c) THEN Null ELSE openedAs[holder[c]]

\* Every connection in use belongs to an open block of the task that took it:
\* whatever fails, none is lost to the pool.
NoConnectionLost ==
  \A c \in Connections : ~ Unused(c) =>
    \E i \in DOMAIN block[holder[c].task] : block[holder[c].task][i] = holder[c]

\* A task that holds connections or none and asks for another one.
Waits(t) == doing[t] = "waiting"
=============================================================================
