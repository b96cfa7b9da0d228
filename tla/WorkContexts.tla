----------------------------- MODULE WorkContexts -----------------------------
(***************************************************************************)
(* Under which identifiers a process works and logs.                       *)
(*                                                                         *)
(* The middleware sets the identifiers of a request for the time of the    *)
(* request; a message to a worker carries those of the work that sends it; *)
(* the worker sets them for the time of the task.  Whoever sets the        *)
(* identifiers keeps what they were before and puts that back.             *)
(*                                                                         *)
(* Abstractions.  An identifier is a number, NoId what is absent or not    *)
(* valid.  The parent of the workers runs no tasks: it forks the workers   *)
(* and reports the tasks of those that die.  What Celery shows a task of   *)
(* the headers of its message is outside of the code: it may keep the      *)
(* correlation id, a name it also uses itself, to itself.                  *)
(***************************************************************************)
EXTENDS Integers, Sequences, SequencesExt, FiniteSets, FiniteSetsExt

CONSTANTS
  Web, Workers, \* threads that serve requests, processes that run tasks
  Parent,       \* the process that forks the workers
  Given,        \* identifiers that clients send
  MaxIds,       \* bound: the last identifier made
  MaxMessages,  \* bound: messages in the queue
  MaxDepth      \* bound: tasks run within tasks

VARIABLES
  context, \* _REQUEST_ID and _CORRELATION_ID of each process
  states,  \* _TASK_CONTEXT: the states of the tasks it is within, the innermost last
  running, \* what it really runs, the innermost last
  queued,  \* messages of the broker
  lastId,  \* the last identifier made: uuid4
  leaked   \* correlation ids of failures that were reported outside of a task

contextVars == <<context, states, running, queued, lastId, leaked>>

NoId == 0
Ids(request, correlation) == [request |-> request, correlation |-> correlation]
NoContext == Ids(NoId, NoId)
Processes == Web \cup Workers \cup {Parent}

\* The `or' of the code.
Either(first, second) == IF first # NoId THEN first ELSE second

Fresh == lastId + 1
CanMakeId == lastId < MaxIds

\* set_observability_context.
Context(request, correlation) == Ids(request, Either(correlation, request))

Innermost(p) == Last(running[p])
Working(p) == running[p] # <<>>
InTask(p) == Working(p) /\ Innermost(p).kind = "task"

\* What a log record of the process carries: the record factory and the filter ...
RecordIds(p) == Ids(context[p].request, Either(context[p].correlation, context[p].request))

\* ... and what the formatter writes of it.
Written(p) ==
  Ids(Either(RecordIds(p).request, context[p].request),
      Either(RecordIds(p).correlation, Either(context[p].correlation, RecordIds(p).request)))

-----------------------------------------------------------------------------
\* request_identifiers.
RequestIdentifiers(request, correlation) ==
  LET id == Either(request, Fresh) IN Ids(id, Either(correlation, id))

\* RequestCorrelationMiddleware, up to get_response.
Receive(p, request, correlation) ==
  LET ids == RequestIdentifiers(request, correlation)
  IN /\ p \in Web /\ ~Working(p) /\ CanMakeId
     /\ context' = [context EXCEPT ![p] = Context(ids.request, ids.correlation)]
     /\ running' = [running EXCEPT ![p] =
                      <<[kind |-> "request", before |-> context[p],
                         request |-> ids.request, correlations |-> {ids.correlation}]>>]
     /\ lastId' = IF request = NoId THEN Fresh ELSE lastId
     /\ UNCHANGED <<states, queued, leaked>>

\* Its finally, whether the view has answered or raised.
Respond(p) ==
  /\ Working(p) /\ Innermost(p).kind = "request"
  /\ context' = [context EXCEPT ![p] = Innermost(p).before]
  /\ running' = [running EXCEPT ![p] = <<>>]
  /\ UNCHANGED <<states, queued, lastId, leaked>>

-----------------------------------------------------------------------------
\* The headers that before_task_publish adds.
Headers(p) == Ids(context[p].request, Either(context[p].correlation, context[p].request))

\* Celery's root_id: the first task of a chain of tasks.
RootOf(p, task) == IF InTask(p) THEN Innermost(p).root ELSE task

\* A message of the work of p, and by which identifiers that work is known.
Message(p, task) ==
  [task |-> task, headers |-> Headers(p), root |-> RootOf(p, task),
   request |-> Innermost(p).request,
   correlations |-> Innermost(p).correlations \cup {RootOf(p, task)}]

\* delay(), from a request or a task.
Publish(p) ==
  /\ Working(p) /\ CanMakeId /\ Cardinality(queued) < MaxMessages
  /\ queued' = queued \cup {Message(p, Fresh)}
  /\ lastId' = Fresh
  /\ UNCHANGED <<context, states, running, leaked>>

\* The beat process, which works for nobody.
PublishPeriodic ==
  /\ CanMakeId /\ Cardinality(queued) < MaxMessages
  /\ queued' = queued \cup {[task |-> Fresh, headers |-> NoContext, root |-> Fresh,
                             request |-> NoId, correlations |-> {Fresh}]}
  /\ lastId' = Fresh
  /\ UNCHANGED <<context, states, running, leaked>>

-----------------------------------------------------------------------------
\* _parent_identifiers: of the message, else of the context, else of Celery.
ParentIdentifiers(p, headers, root) ==
  LET request == Either(headers.request, context[p].request)
  IN Ids(request, Either(headers.correlation,
                         Either(context[p].correlation, Either(root, Either(request, Fresh)))))

\* _new_task_context: the state keeps the context it replaces.
NewState(p, task) == Append(states[p], [task |-> task, before |-> context[p]])

\* A hook finds the state of its task, or makes one.
IsCurrent(p, task) == states[p] # <<>> /\ Last(states[p]).task = task
CurrentOrNew(p, task) == IF IsCurrent(p, task) THEN states[p] ELSE NewState(p, task)

\* Mutant: the context is cleared and not put back.
CleanupClears(held) == [states |-> Front(held), context |-> NoContext]

\* _cleanup_task_context: the innermost state, and the context as it was before.
Cleanup(held) == [states |-> Front(held), context |-> Last(held).before]

\* on_task_prerun.
Begin(p, task, headers, root, request, correlations) ==
  LET ids == ParentIdentifiers(p, headers, root)
  IN /\ states' = [states EXCEPT ![p] = NewState(p, task)]
     /\ context' = [context EXCEPT ![p] = Context(ids.request, ids.correlation)]
     /\ running' = [running EXCEPT ![p] = Append(@,
                      [kind |-> "task", task |-> task, root |-> root,
                       request |-> request, correlations |-> correlations])]

\* A worker takes a message; `shown' is the correlation header as Celery shows it.
Start(p, message, shown) ==
  /\ p \in Workers /\ ~Working(p)
  /\ queued' = queued \ {message}
  /\ Begin(p, message.task, Ids(message.headers.request, shown), message.root,
           message.request, message.correlations)
  /\ UNCHANGED <<lastId, leaked>>

\* A task called eagerly, in the process and the context of the caller.
RunEagerly(p) ==
  /\ Working(p) /\ CanMakeId /\ Len(running[p]) < MaxDepth
  /\ Begin(p, Fresh, NoContext, Fresh, Innermost(p).request, Innermost(p).correlations)
  /\ lastId' = Fresh
  /\ UNCHANGED <<queued, leaked>>

\* on_task_success, on_task_failure or on_task_retry, and then on_task_postrun.
End(p) ==
  LET ended == Cleanup(CurrentOrNew(p, Innermost(p).task))
  IN /\ states' = [states EXCEPT ![p] = ended.states]
     /\ context' = [context EXCEPT ![p] = ended.context]
     /\ running' = [running EXCEPT ![p] = Front(@)]

Finish(p) == InTask(p) /\ End(p) /\ UNCHANGED <<queued, lastId, leaked>>

\* retry(): the same task is sent again before it ends.
Retry(p) ==
  /\ InTask(p) /\ Len(running[p]) = 1 /\ Cardinality(queued) < MaxMessages
  /\ queued' = queued \cup {Message(p, Innermost(p).task)}
  /\ End(p)
  /\ UNCHANGED <<lastId, leaked>>

-----------------------------------------------------------------------------
\* A worker is killed within a task.  The parent reports the failure, of a task
\* it does not run, and forks another worker, before that or after.
Die(p) ==
  LET ids == ParentIdentifiers(Parent, NoContext, NoId)
      reported == [context |-> Context(ids.request, ids.correlation),
                   states |-> CurrentOrNew(Parent, running[p][1].task)]
  IN /\ p \in Workers /\ Working(p) /\ CanMakeId
     /\ \E forked \in {[context |-> context[Parent], states |-> states[Parent]], reported} :
          /\ context' = [context EXCEPT ![p] = forked.context, ![Parent] = reported.context]
          /\ states' = [states EXCEPT ![p] = forked.states, ![Parent] = reported.states]
     /\ running' = [running EXCEPT ![p] = <<>>]
     /\ lastId' = Fresh /\ leaked' = leaked \cup {reported.context.correlation}
     /\ UNCHANGED queued

\* A new release: every process is replaced, the queue stays.
Restart ==
  /\ context' = [p \in Processes |-> NoContext]
  /\ states' = [p \in Processes |-> <<>>]
  /\ running' = [p \in Processes |-> <<>>]
  /\ UNCHANGED <<queued, lastId, leaked>>

-----------------------------------------------------------------------------
Init ==
  /\ context = [p \in Processes |-> NoContext]
  /\ states = [p \in Processes |-> <<>>]
  /\ running = [p \in Processes |-> <<>>]
  /\ queued = {} /\ lastId = Max(Given) /\ leaked = {}

Next ==
  \/ \E p \in Web, request, correlation \in Given \cup {NoId} : Receive(p, request, correlation)
  \/ \E p \in Processes :
       Respond(p) \/ Publish(p) \/ RunEagerly(p) \/ Finish(p) \/ Retry(p) \/ Die(p)
  \/ \E p \in Workers, message \in queued :
       \E shown \in {message.headers.correlation, NoId} : Start(p, message, shown)
  \/ PublishPeriodic
  \/ Restart

Spec == Init /\ [][Next]_contextVars

-----------------------------------------------------------------------------
\* What a process writes while it works is written under the request that the
\* work stems from, however many tasks, retries and nested calls lie between;
\* and under its correlation id, or the first task's where Celery has hidden
\* that.  A process that does nothing has no identifiers.  Only where a worker
\* has died, and its parent has reported that outside of any task, do the next
\* workers inherit the correlation id of the report (celery_observability).
IdsFollowWork ==
  \A p \in Web \cup Workers :
    LET excused == IF p \in Workers THEN leaked ELSE {}
        tasks == {i \in DOMAIN running[p] : running[p][i].kind = "task"}
    IN /\ excused = {} => Len(states[p]) = Cardinality(tasks)
       /\ IF Working(p)
            THEN /\ Written(p).request = Innermost(p).request
                 /\ Written(p).correlation \in Innermost(p).correlations \cup excused
            ELSE /\ Written(p).request = NoId
                 /\ Written(p).correlation \in {NoId} \cup excused
=============================================================================
