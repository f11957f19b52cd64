---------------------------- MODULE ProviderGraph ----------------------------
(***************************************************************************)
(* ExecutableApp::from_plugin_with_overrides of                            *)
(* crates/blazingly-executor/src/lib.rs: plugins are collected into        *)
(* registrations, the graph is validated, singletons are built and the     *)
(* plan of an operation is compiled for InvocationPipeline to run.         *)
(*                                                                         *)
(* An application is a record                                              *)
(*   parent     of each scope, 0 for the root; a parent comes first        *)
(*   providers  of each scope, a sequence of [type, life, deps, inputs,    *)
(*              ...]: an input is [name, type], the rest is ProviderChain's *)
(*   scope, wants  of the one operation: where it is, what it asks for     *)
(*   override   <<>> or <<[scope, type]>>: a TestOverrides entry whose     *)
(*              provider is a request provider without dependencies; scope *)
(*              0 stands for a global one                                  *)
(* A type, an input and a scope are numbers or names; slots begin at 1.    *)
(***************************************************************************)
EXTENDS Integers, Sequences, FiniteSets, SequencesExt

CONSTANT Applications

VARIABLES app,      \* the plugins, as registered
          compiled, \* how far the build is
          regs,     \* registrations: [p, scope]
          ran,      \* the singleton factories run, in order: built
          decoders, \* OperationInputPlan::decoders: the inputs, in slot order
          plan,     \* request_providers: [id, args]
          handler,  \* handler_slots
          problem   \* why the build failed, or "none"

graphVars == <<app, compiled, regs, ran, decoders, plan, handler, problem>>

TypeOK ==
  /\ app \in Applications
  /\ compiled \in {"no", "collected", "valid", "singletons", "planned"}
  /\ problem \in {"none", "duplicate", "inputs", "override", "missing", "lifetime",
                  "cycle", "factory", "conflict"}
  /\ Range(ran) \subseteq DOMAIN regs

Init ==
  /\ app \in Applications
  /\ compiled = "no" /\ regs = <<>> /\ ran = <<>> /\ decoders = <<>>
  /\ plan = <<>> /\ handler = <<>> /\ problem = "none"

Reject(why) == problem' = why /\ UNCHANGED <<app, compiled, regs, ran, decoders, plan, handler>>

------------------------------------------------------------------------------
(* TestOverrides::apply and collect_plugin. *)

Mock(t) == [type |-> t, life |-> "request", deps |-> <<>>, inputs |-> <<>>,
            from |-> "factory", async |-> FALSE, fails |-> FALSE, tear |-> "none"]

\* Whether the entry is for scope s: its own, or any scope.
Applies(e, s) == e.scope \in {0, s}

\* The providers of a scope: replaced by type, and a scoped entry is added
\* where there is none to replace.
Overridden(s) ==
  LET ps == app.providers[s]
      types == {ps[i].type : i \in DOMAIN ps}
  IN IF app.override = <<>> \/ ~Applies(app.override[1], s) THEN ps
     ELSE LET e == app.override[1]
              replaced == [i \in DOMAIN ps |-> IF ps[i].type = e.type THEN Mock(e.type) ELSE ps[i]]
          IN IF e.scope = s /\ e.type \notin types
             THEN Append(replaced, Mock(e.type)) ELSE replaced

OverrideApplied ==
  \A i \in DOMAIN app.override : LET e == app.override[i] IN
    \E s \in DOMAIN app.parent :
      Applies(e, s) /\ (e.scope = s \/ \E j \in DOMAIN app.providers[s] : app.providers[s][j].type = e.type)

Collect ==
  /\ compiled = "no" /\ problem = "none"
  /\ LET all == FlattenSeq([s \in DOMAIN app.parent |->
                  [i \in DOMAIN Overridden(s) |-> [p |-> Overridden(s)[i], scope |-> s]]])
     IN IF \E i, j \in DOMAIN all : i < j /\ all[i].scope = all[j].scope
                                          /\ all[i].p.type = all[j].p.type
        THEN Reject("duplicate")
        ELSE IF \E i \in DOMAIN all : all[i].p.life = "singleton" /\ all[i].p.inputs # <<>>
        THEN Reject("inputs")
        ELSE IF ~OverrideApplied THEN Reject("override")
        ELSE /\ regs' = all /\ compiled' = "collected"
             /\ UNCHANGED <<app, ran, decoders, plan, handler, problem>>

\* The map `visible` of a scope: its own registrations over its parent's.
Visible ==
  LET visible[s \in 0 .. Len(app.parent)] ==
        IF s = 0 THEN <<>>
        ELSE LET own == {i \in DOMAIN regs : regs[i].scope = s}
                 up == visible[app.parent[s]]
             IN [t \in DOMAIN up \cup {regs[i].p.type : i \in own} |->
                   IF \E i \in own : regs[i].p.type = t
                   THEN CHOOSE i \in own : regs[i].p.type = t ELSE up[t]]
  IN visible

Life(id) == regs[id].p.life
Deps(id) == regs[id].p.deps
Sees(id) == Visible[regs[id].scope]

------------------------------------------------------------------------------
(* validate_provider_graph: depth first, 1 while on the stack, 2 when done. *)

RECURSIVE Visit(_, _)

Visit(id, st) ==
  IF st.error # "none" \/ st.state[id] = 2 THEN st
  ELSE IF st.state[id] = 1 THEN [st EXCEPT !.error = "cycle"]
  ELSE LET step(s, t) ==
             IF s.error # "none" THEN s
             ELSE IF t \notin DOMAIN Sees(id) THEN [s EXCEPT !.error = "missing"]
             ELSE IF Life(id) = "singleton" /\ Life(Sees(id)[t]) # "singleton"
             THEN [s EXCEPT !.error = "lifetime"] ELSE Visit(Sees(id)[t], s)
           after == FoldLeft(step, [st EXCEPT !.state[id] = 1], Deps(id))
       IN IF after.error = "none" THEN [after EXCEPT !.state[id] = 2] ELSE after

Ids == [i \in DOMAIN regs |-> i]

Validate ==
  /\ compiled = "collected" /\ problem = "none"
  /\ LET st == FoldLeft(LAMBDA s, id : Visit(id, s),
                        [state |-> [i \in DOMAIN regs |-> 0], error |-> "none"], Ids)
     IN IF st.error # "none" THEN Reject(st.error)
        ELSE /\ compiled' = "valid"
             /\ UNCHANGED <<app, regs, ran, decoders, plan, handler, problem>>

------------------------------------------------------------------------------
(* compile_singletons: each factory once, its dependencies before it. *)

RECURSIVE Build(_, _)
Build(built, id) ==
  IF id \in Range(built) THEN built
  ELSE Append(FoldLeft(LAMBDA b, t : Build(b, Sees(id)[t]), built, Deps(id)), id)

SingletonOrder == FoldLeft(Build, <<>>, SelectSeq(Ids, LAMBDA id : Life(id) = "singleton"))

CompileSingletons ==
  /\ compiled = "valid" /\ problem = "none"
  /\ ran' = SingletonOrder
  /\ compiled' = "singletons"
  /\ UNCHANGED <<app, regs, decoders, plan, handler, problem>>

\* run_sync of a fallible factory fails: SingletonProviderFailed.
SingletonFails ==
  /\ compiled = "valid" /\ problem = "none"
  /\ \E n \in DOMAIN SingletonOrder :
       /\ regs[SingletonOrder[n]].p.fails
       /\ ran' = SubSeq(SingletonOrder, 1, n)
  /\ problem' = "factory"
  /\ UNCHANGED <<app, compiled, regs, decoders, plan, handler>>

------------------------------------------------------------------------------
(* The plan of the operation. *)

\* plan_operation_inputs: the inputs of what the operation reaches without
\* passing a singleton, each once.
Edges(id) == IF Life(id) = "singleton" THEN {} ELSE {Sees(id)[t] : t \in Range(Deps(id))}

Reached ==
  LET visible == Visible[app.scope]
      wave[n \in 0 .. Len(regs)] ==
        IF n = 0 THEN {visible[t] : t \in Range(app.wants) \cap DOMAIN visible}
        ELSE wave[n - 1] \cup UNION {Edges(id) : id \in wave[n - 1]}
  IN {id \in wave[Len(regs)] : Life(id) # "singleton"}

\* What their providers declare: a name has one type, and one decoder.
Declared == UNION {Range(regs[id].p.inputs) : id \in Reached}

Slot(kind, at) == [kind |-> kind, at |-> at]

RECURSIVE CompileProvider(_, _, _)

\* compile_request_provider: the dependencies first, a request provider once.
CompileProvider(id, acc, inputs) ==
  IF Life(id) = "singleton" THEN [acc EXCEPT !.slot = Slot("singleton", id)]
  ELSE IF Life(id) = "request" /\ id \in DOMAIN acc.once
  THEN [acc EXCEPT !.slot = Slot("request", acc.once[id])]
  ELSE LET step(a, t) == LET c == CompileProvider(Sees(id)[t], a.acc, inputs)
                         IN [acc |-> c, args |-> Append(a.args, c.slot)]
           done == FoldLeft(step, [acc |-> acc, args |-> <<>>], Deps(id))
           own == [i \in DOMAIN regs[id].p.inputs |->
                     Slot("request", CHOOSE j \in DOMAIN inputs : inputs[j] = regs[id].p.inputs[i])]
           at == Len(inputs) + Len(done.acc.plan) + 1
           seen == IF Life(id) = "request" THEN {id} ELSE {}
       IN [plan |-> Append(done.acc.plan, [id |-> id, args |-> done.args \o own]),
           once |-> [i \in DOMAIN done.acc.once \cup seen |->
                       IF i \in seen THEN at ELSE done.acc.once[i]],
           slot |-> Slot("request", at)]

\* compile_operation_dependencies.
CompileOperation ==
  /\ compiled = "singletons" /\ problem = "none"
  /\ LET inputs == SetToSeq(Declared)
         ask(a, t) == LET c == CompileProvider(Visible[app.scope][t], a.acc, inputs)
                      IN [acc |-> c, args |-> Append(a.args, c.slot)]
         none == [plan |-> <<>>, once |-> <<>>, slot |-> Slot("none", 0)]
         done == FoldLeft(ask, [acc |-> none, args |-> <<>>], app.wants)
     IN IF \E i, j \in Declared : i # j /\ i.name = j.name THEN Reject("conflict")
        ELSE IF ~(Range(app.wants) \subseteq DOMAIN Visible[app.scope]) THEN Reject("missing")
        ELSE /\ decoders' = inputs /\ plan' = done.acc.plan /\ handler' = done.args
             /\ compiled' = "planned"
             /\ UNCHANGED <<app, regs, ran, problem>>

Next == Collect \/ Validate \/ CompileSingletons \/ SingletonFails \/ CompileOperation

Spec == Init /\ [][Next]_graphVars

------------------------------------------------------------------------------
(* Properties. *)

\* The scopes from s to the root, and the provider of type t nearest to s.
Above(s) ==
  LET up[n \in 0 .. Len(app.parent)] ==
        IF n = 0 THEN {s} ELSE up[n - 1] \cup {app.parent[i] : i \in up[n - 1] \ {0}}
  IN up[Len(app.parent)] \ {0}
Nearest(s, t) ==
  {i \in DOMAIN regs : /\ regs[i].p.type = t /\ regs[i].scope \in Above(s)
                       /\ \A j \in DOMAIN regs :
                            regs[j].p.type = t /\ regs[j].scope \in Above(s)
                              => regs[j].scope <= regs[i].scope}
NeededBy(id) == UNION {Nearest(regs[id].scope, t) : t \in Range(Deps(id))}

\* What a provider needs, and what that needs, at any distance.
Needs(id) ==
  LET far[n \in 1 .. Len(regs)] ==
        IF n = 1 THEN NeededBy(id) ELSE far[n - 1] \cup UNION {NeededBy(i) : i \in far[n - 1]}
  IN far[Len(regs)]

Sound ==
  \A id \in DOMAIN regs :
    /\ \A t \in Range(Deps(id)) : Nearest(regs[id].scope, t) # {}
    /\ Life(id) = "singleton" => \A i \in Needs(id) : Life(i) = "singleton"
    /\ id \notin Needs(id)

\* The depth-first validation, with the memory of what it has seen, accepts
\* exactly the graphs in which every dependency of every provider is there,
\* nothing needs itself and no singleton needs what lives shorter; mocks of
\* TestOverrides included.  What it rejects never runs a factory.
ValidatesExactly ==
  /\ compiled \in {"valid", "singletons", "planned"} => Sound
  /\ compiled = "collected" /\ problem # "none" => ~Sound
  /\ problem # "none" /\ compiled \in {"no", "collected"} => ran = <<>>

\* The slot of an argument is filled when its consumer runs, by the provider
\* of that type nearest to the consumer's own scope.
FilledBy(slot, before, i) ==
  \/ slot.kind = "singleton" /\ slot.at = i /\ i \in Range(ran)
  \/ /\ slot.kind = "request" /\ slot.at \in Len(decoders) + 1 .. Len(decoders) + before
     /\ plan[slot.at - Len(decoders)].id = i

\* Who reads the slot of the n-th provider: the handler is consumer 0.
Readers(n) ==
  LET slot == Slot("request", Len(decoders) + n)
  IN {<<0, a>> : a \in {b \in DOMAIN handler : handler[b] = slot}}
     \cup UNION {{<<m, a>> : a \in {b \in DOMAIN plan[m].args : plan[m].args[b] = slot}} : m \in DOMAIN plan}

\* The compiled plan can be run from first to last: each argument is in a slot
\* that is filled by then, with the value the scopes say; a request provider
\* runs once in an invocation, a transient one for each of its consumers, a
\* singleton once for the application and after what it needs.
PlanIsExecutable ==
  /\ \A i, j \in DOMAIN ran : i < j => ran[i] # ran[j] /\ ran[j] \notin Needs(ran[i])
  /\ compiled = "planned" =>
       /\ \A n \in DOMAIN plan : LET c == plan[n] IN
            /\ \A a \in DOMAIN Deps(c.id) : \E i \in Nearest(regs[c.id].scope, Deps(c.id)[a]) :
                 FilledBy(c.args[a], n - 1, i)
            /\ Len(c.args) = Len(Deps(c.id)) + Len(regs[c.id].p.inputs)
       /\ \A n \in DOMAIN handler : \E i \in Nearest(app.scope, app.wants[n]) :
            FilledBy(handler[n], Len(plan), i)
       /\ \A m, n \in DOMAIN plan : m # n /\ plan[m].id = plan[n].id => Life(plan[m].id) = "transient"
       /\ \A n \in DOMAIN plan : Life(plan[n].id) = "transient" => Cardinality(Readers(n)) = 1

\* Both: what is accepted is sound, and what is compiled from it runs.
BuildIsSound == ValidatesExactly /\ PlanIsExecutable
==============================================================================
