----------------------------- MODULE PlanCompiler -----------------------------
(***************************************************************************)
(* How a draft that a model proposes becomes a plan that a person may      *)
(* review: the part of the catalog the request leaves (orchestrator.py,    *)
(* _create_compiled_plan), the drafts the planner may return               *)
(* (agent_runtime.py, llm_planner.py), the steps the compiler adds or      *)
(* marks, and the checks each candidate has to pass.                       *)
(*                                                                         *)
(* Data.  A prompt is the record of what the code's patterns find in it.   *)
(* An argument is known by what it refers to: the results of other steps,  *)
(* the inputs of the run, or a name that means neither.                    *)
(***************************************************************************)
EXTENDS Naturals, FiniteSets, Sequences, SequencesExt

CONSTANTS
  Catalog,    \* the calls the released connectors offer
  Family,     \* the app family of a tool, and of an operation
  Scope,      \* the scope an operation's contract declares
  NamedScope, \* the scope its name suggests (operation_scope)
  Kinds,      \* the kinds of effect it can have
  Provides,   \* the evidence its result carries
  Plugins,    \* WordPress bridges
  Builtin,    \* tools that need no account
  MaxSteps    \* MAX_WORKFLOW_STEPS

Tools == {c.tool : c \in Catalog}
Ops   == {c.op : c \in Catalog}

ASSUME CatalogAssumption ==
  /\ Scope \in [Ops -> {"read", "write", "destructive"}]
  /\ NamedScope \in [Ops -> {"read", "write", "destructive"}]
  /\ Tools \cup Ops \subseteq DOMAIN Family /\ DOMAIN Kinds = Ops /\ DOMAIN Provides = Ops
  /\ Plugins \subseteq Tools \ {"canva"} /\ Builtin \subseteq Tools /\ MaxSteps \in Nat
  /\ Catalog \subseteq [tool : STRING, op : STRING]
  /\ "docs.get" \in Ops => Scope["docs.get"] = "read"

Call(t, o) == [tool |-> t, op |-> o]
NoCall     == Call("none", "none")

PlanStep ==
  [key : Nat, tool : STRING, op : STRING, fallback : [tool : STRING, op : STRING],
   optional : BOOLEAN, consequential : BOOLEAN, depends_on : SUBSET Nat, uses : SUBSET Nat,
   names : SUBSET Nat, inputs : SUBSET STRING, vague : BOOLEAN, narrative : BOOLEAN,
   required_evidence : SUBSET STRING]

Primary(s) == Call(s.tool, s.op)
CallsOf(s) == {Primary(s), s.fallback} \ {NoCall}
Steps(p)   == {p[i] : i \in DOMAIN p}
Uses(p, o) == \E s \in Steps(p) : s.op = o
IsWrite(o) == Scope[o] \in {"write", "destructive"}
Routed(c, q) == q.family \in {Family[c.tool], Family[c.op]} => c.tool = q.tool
-------------------------------------------------------------------------------
\* What the request leaves of the catalog

\* requested_effects: the writes that answer each thing the request asks for.
\* A workbook that exists already is updated instead of created.
Targets(w, inv) ==
  {c \in inv : IsWrite(c.op) /\ Family[c.op] = w.family /\ w.kind \in Kinds[c.op]}

Effects(r, inv) ==
  LET new == [family |-> "sheets", kind |-> "create"]
      upd == [family |-> "sheets", kind |-> "update"]
      want == IF r.reuse /\ new \in r.wants /\ Targets(new, inv) # {} /\ Targets(upd, inv) # {}
              THEN (r.wants \ {new}) \cup {upd} ELSE r.wants
  IN {e \in {[family |-> w.family, targets |-> Targets(w, inv)] : w \in want} : e.targets # {}}

\* route_bounded_inventory
RouteBound(inv, routes) == {c \in inv : \A q \in routes : Routed(c, q)}

\* prefer_connected_app_routes: the one connected route of an app that can do
\* all the request asks of the app, unless it names an operation of another one.
Ready(r, inv, granted, f) ==
  LET required == {e \in Effects(r, inv) : e.family = f}
      mine(t)  == {c \in inv \cap granted : c.tool = t /\ Family[c.op] = f}
  IN {t \in Tools : /\ mine(t) # {}
                    /\ required # {} => \E c \in mine(t) : Scope[c.op] = "read"
                    /\ \A e \in required : e.targets \cap mine(t) # {}}

\* Mutant: every route stays open.
PreferredNone(r, inv, granted) == {}

Preferred(r, inv, granted) ==
  {q \in [family : {"sheets", "docs"}, tool : Tools] :
     /\ Ready(r, inv, granted, q.family) = {q.tool}
     /\ \A c \in inv : c.op \in r.exact /\ Family[c.op] = q.family => c.tool = q.tool}

\* An app the person asked to leave out is gone.
WithoutExcluded(r, inv) == {c \in inv : {Family[c.tool], Family[c.op]} \cap r.excluded = {}}

\* A request about mail alone gets the mail of the shared account, and a request
\* for drafts only its reads.
MailReads == {"gmail.list", "gmail.get", "gmail.threads.read"}
MailOnly(r, inv) ==
  IF r.mailOnly
  THEN {c \in inv : c.tool = "google" =>
                      Family[c.op] = "gmail" /\ (r.draftOnly => c.op \in MailReads)}
  ELSE inv

\* Where both routes to Docs, or to mail, can do the work, the one that is not
\* connected is left out.
NativeDocs   == {Call("google", "docs.create"), Call("google", "docs.get")}
SeparateDocs == {Call("google-docs", "google-docs.create-document"),
                 Call("google-docs", "google-docs.get-document")}
NativeMail   == {Call("google", "gmail.send"), Call("google", "gmail.get")}

WithoutDuplicates(r, inv, granted) ==
  {c \in inv :
     /\ ~ /\ c.tool = "gmail" /\ NativeMail \subseteq granted
          /\ [family |-> "gmail", kind |-> "send"] \in r.wants
          /\ \A g \in granted : g.tool # "gmail"
     /\ ~ /\ r.writesDoc /\ c \in NativeDocs
          /\ SeparateDocs \subseteq granted /\ ~ NativeDocs \subseteq granted
     /\ ~ /\ r.writesDoc /\ c.tool = "google-docs"
          /\ NativeDocs \subseteq granted /\ ~ SeparateDocs \subseteq granted}

\* The inventory that the compiler checks every candidate against.
Bounded(r, granted) ==
  LET routed == RouteBound(Catalog, r.routes)
      named  == RouteBound(routed, Preferred(r, routed, granted))
  IN WithoutDuplicates(r, MailOnly(r, WithoutExcluded(r, named)), granted)

\* intent_bounded_tool_inventory: the tools of the apps the prompt speaks of, or
\* all of them.  It bounds what the model sees, not what is checked.
Relevant(r, inv, granted) ==
  LET spoken  == {c.tool : c \in {d \in inv : {Family[d.tool], Family[d.op]} \cap r.apps # {}}}
      docs    == IF r.writesDoc
                 THEN spoken \cup ({"google-docs"} \cap {c.tool : c \in inv})
                             \cup {t \in {"google"} : NativeDocs \subseteq inv}
                 ELSE spoken
      writer  == SeparateDocs \subseteq inv \cap granted
      native  == NativeDocs \subseteq inv
      kept    == IF native /\ ~writer /\ r.writesDoc THEN docs \ {"google-docs"} ELSE docs
      bounded == IF kept = {} THEN inv ELSE {c \in inv : c.tool \in kept}
  IN IF writer /\ r.writesDoc THEN bounded \ NativeDocs ELSE bounded

\* selected_tool_targets: the calls that use an app chosen in the composer.
ChosenCalls(inv, app) == {c \in inv : app \in {Family[c.tool], Family[c.op]}}

\* The choices of the request can be met at all: otherwise it fails at once.
Satisfiable(r, inv) ==
  /\ \A q \in r.routes : q.tool \in Tools
  /\ \A app \in r.selected : ChosenCalls(inv, app) # {}
-------------------------------------------------------------------------------
\* What the model may return

Earlier(p, i) == {p[j].key : j \in 1..(i - 1)}

\* WorkflowPlan.validate_execution_graph
WellFormed(p) ==
  /\ Len(p) \in 1..MaxSteps
  /\ \A i, j \in DOMAIN p : p[i].key = p[j].key => i = j
  /\ \A i \in DOMAIN p : p[i].depends_on \subseteq Earlier(p, i)

\* An operation that only one tool offers brings its tool.
AssignTools(p, inv) ==
  [i \in DOMAIN p |->
     LET offers == {c.tool : c \in {d \in inv : d.op = p[i].op}} IN
     IF p[i].tool \notin {c.tool : c \in inv} /\ Cardinality(offers) = 1
     THEN [p[i] EXCEPT !.tool = CHOOSE t \in offers : TRUE] ELSE p[i]]

\* normalize_plan_graph: a bare name of an earlier step refers to it, a reference
\* is a dependency, and what is not called a read is consequential.
NormalizeGraph(p) ==
  [i \in DOMAIN p |->
     LET s == p[i]
         used == s.uses \cup (s.names \cap Earlier(p, i))
     IN [s EXCEPT !.uses = used, !.names = @ \ Earlier(p, i),
                  !.depends_on = @ \cup (used \cap Earlier(p, i)),
                  !.consequential = @ \/ (s.op \in Ops => NamedScope[s.op] # "read")]]

\* is_governed_derivative_step: the export of a design that is itself reviewed.
Derivative(p, s) ==
  /\ Primary(s) = Call("canva", "canva.export.create")
  /\ \E source \in Steps(p) :
       /\ s.uses = {source.key} /\ s.uses \subseteq s.depends_on /\ source.consequential
       /\ Primary(source) = Call("canva", "canva.presentation.create")

\* deterministic_plan_fixes finds nothing to correct.
Authorized(p, inv, inputs) ==
  \A s \in Steps(p) :
    /\ Primary(s) \in inv /\ s.fallback \in inv \cup {NoCall}
    /\ s.key \notin s.uses /\ s.uses \subseteq s.depends_on
    /\ s.names = {} /\ s.inputs \subseteq inputs /\ ~s.narrative
    /\ NamedScope[s.op] # "read" => s.consequential \/ Derivative(p, s)

\* create_llm_plan: one answer, in a format that holds nothing but the calls shown.
DirectPlans(r, drafts, shown) ==
  {NormalizeGraph(p) : p \in {d \in drafts : /\ WellFormed(d)
                                             /\ \A s \in Steps(d) :
                                                  Primary(s) \in shown /\ s.fallback = NoCall}}

\* create_plan: the first answer, of the combined or the staged planner, that
\* needs no fix after at most two corrections.
AgentPlans(r, drafts, shown) ==
  {p \in {AssignTools(NormalizeGraph(d), shown) : d \in {e \in drafts : WellFormed(e)}} :
     Authorized(p, shown, r.inputs)}
-------------------------------------------------------------------------------
\* What the compiler does with a candidate

\* Mutant: a step is consequential when its name or the model says so.
NormalizeStepsNamed(p) ==
  [i \in DOMAIN p |->
     [p[i] EXCEPT !.depends_on =
        IF p[i].vague THEN @ \cup {p[j].key : j \in {k \in 1..(i - 1) : ~p[k].consequential}}
        ELSE @]]

\* _normalize_planned_steps: the contract outranks the model.  A step that is to
\* write prose about what was read waits for the reads.
NormalizeSteps(p) ==
  LET marked == [i \in DOMAIN p |->
                   [p[i] EXCEPT !.consequential =
                      @ \/ (IsWrite(p[i].op) /\ p[i].op # "canva.export.create")]]
      reads(i) == {p[j].key : j \in {k \in 1..(i - 1) : NamedScope[p[k].op] = "read"}}
  IN [i \in DOMAIN p |->
        LET s == marked[i] IN
        [s EXCEPT !.consequential =
           CASE s.tool \in Plugins /\ ~IsWrite(s.op) -> FALSE
             [] IsWrite(s.op) /\ ~Derivative(marked, s) -> TRUE
             [] OTHER -> @,
                  !.depends_on = IF s.vague THEN @ \cup reads(i) ELSE @]]

\* add_intelligence_backups
Chat   == Call("anthropic", "anthropic.chat")
Backup == Call("aura", "intelligence.claude_backup")
AddBackups(r, inv, p) ==
  IF Backup \notin inv \/ r.providerOnly \/ {"aura", "openai"} \cap r.excluded # {} THEN p
  ELSE [i \in DOMAIN p |-> IF Primary(p[i]) = Chat /\ p[i].fallback = NoCall
                           THEN [p[i] EXCEPT !.fallback = Backup] ELSE p[i]]

\* _ensure_document_body_readback: the body of a new document is evidence only
\* once it is read back, and what quotes it waits for that.
ReadbackKey(k)     == 100 + k
IsReadback(s, doc) == s.op = "docs.get" /\ doc.key \in s.depends_on
NeedsBody(s)       == s.op = "docs.create" /\ "document_body" \in s.required_evidence
Reader(p, doc)     == {i \in DOMAIN p : /\ IsReadback(p[i], doc)
                                        /\ \A j \in 1..(i - 1) : ~IsReadback(p[j], doc)}

Readback(doc) ==
  [doc EXCEPT !.key = ReadbackKey(doc.key), !.op = "docs.get", !.uses = {doc.key},
              !.depends_on = {doc.key}, !.names = {}, !.inputs = {}, !.optional = FALSE,
              !.vague = FALSE, !.narrative = FALSE, !.consequential = FALSE, !.fallback = NoCall,
              !.required_evidence = {"document_body"}]

\* The documents whose body no step reads yet, and the first readers of the others.
Unread(p)  == {i \in DOMAIN p : NeedsBody(p[i]) /\ Reader(p, p[i]) = {}}
Readers(p) == UNION {Reader(p, p[i]) : i \in {d \in DOMAIN p : NeedsBody(p[d])}}

CanReadBack(p, inv) ==
  /\ \A s \in Steps(p) : NeedsBody(s) => Call(s.tool, "docs.get") \in inv
  /\ Unread(p) # {} => Len(p) + Cardinality(Unread(p)) <= MaxSteps
  /\ \A i \in Unread(p), s \in Steps(p) : s.key # ReadbackKey(p[i].key)

\* The keys of the reads that come before step i, of a new document each.
BodiesRead(p, i) == {ReadbackKey(p[d].key) : d \in {u \in Unread(p) : u < i}}
                    \cup {p[j].key : j \in {k \in Readers(p) : k < i}}

WithBody(p, i) ==
  [p[i] EXCEPT
     !.required_evidence = CASE NeedsBody(p[i]) -> (@ \ {"document_body"}) \cup {"write_receipt"}
                             [] i \in Readers(p) -> @ \cup {"document_body"}
                             [] OTHER -> @,
     !.depends_on = IF p[i].op \in {"canva.presentation.create", "gmail.send"}
                    THEN @ \cup BodiesRead(p, i) ELSE @]

EnsureReadback(p) ==
  FlattenSeq([i \in DOMAIN p |-> IF i \in Unread(p) THEN <<WithBody(p, i), Readback(p[i])>>
                                                     ELSE <<WithBody(p, i)>>])

CompiledRecipe(r, inv, p) == AddBackups(r, inv, NormalizeSteps(p))
Compiled(r, inv, p)       == EnsureReadback(CompiledRecipe(r, inv, p))
-------------------------------------------------------------------------------
\* What a candidate has to pass

\* reject_excluded_steps
KeepsRoutes(r, p) ==
  \A s \in Steps(p) : \A c \in CallsOf(s) :
    /\ \A q \in r.routes : Routed(c, q)
    /\ {Family[c.tool], Family[c.op]} \cap r.excluded = {}

\* Mutant: an optional step counts.
RequiredOrNot(p) == {Primary(s) : s \in Steps(p)}

\* validate_selected_tools: a backup or an optional step does not count.
Required(p) == {Primary(s) : s \in {t \in Steps(p) : ~t.optional}}
UsesSelected(r, inv, p) == \A app \in r.selected : ChosenCalls(inv, app) \cap Required(p) # {}

\* A public forecast comes from the forecast service, a populated design is no
\* blank one, and a requested attachment is attached.
RightSources(r, inv, p) ==
  /\ \A o \in r.musts : (\E c \in inv : c.op = o) => Uses(p, o)
  /\ \A s \in Steps(p) : s.op \notin r.bans

\* The steps a step waits for, directly or not.
Ancestors(p) ==
  LET up[i \in 0..Len(p)] ==
        IF i = 0 THEN {}
        ELSE p[i].depends_on \cup
               UNION {up[j] : j \in {h \in 1..(i - 1) : p[h].key \in p[i].depends_on}}
  IN [i \in DOMAIN p |-> up[i]]

WaitsFor(p, i, ops) == \E j \in DOMAIN p : p[j].key \in Ancestors(p)[i] /\ p[j].op \in ops

\* is_gmail_delivery_step
Delivers(s) == \E c \in CallsOf(s) : Family[c.op] = "gmail" /\ "send" \in Kinds[c.op]

\* validate_revision_write_scope: a revision keeps reviewed writes and adds those
\* it asks for; on a chosen route the same kind of write may take their place.
RevisionScope(r, inv, p) ==
  r.revises =>
    \A s \in Steps(p) : \A c \in IF r.routes = {} THEN {Primary(s)} ELSE CallsOf(s) :
      IsWrite(c.op) =>
        \/ c \in r.reviewed \cup UNION {e.targets : e \in Effects(r, inv)}
        \/ /\ \E q \in r.routes : q.family = Family[c.op] /\ q.tool = c.tool
           /\ Scope[c.op] = "write" /\ Kinds[c.op] \cap {"delete", "share", "send"} = {}
           /\ \E w \in {v \in r.reviewed : Family[v.op] = Family[c.op]} :
                \/ w.op = "docs.create" /\ Kinds[c.op] \cap {"create", "update"} # {}
                \/ w.op = "sheets.append" /\ "update" \in Kinds[c.op]

\* validate_requested_operations
Validated(r, inv, p) ==
  /\ r.reuse => \A i \in DOMAIN p :
       /\ ~ (Family[p[i].op] = "sheets" /\ "create" \in Kinds[p[i].op])
       /\ p[i].consequential /\ Family[p[i].op] = "sheets" =>
            WaitsFor(p, i, {"sheets.workbook.get"}) /\ WaitsFor(p, i, {"sheets.read"})
  /\ r.draftOnly => \A s \in Steps(p) : ~Delivers(s)
  /\ RevisionScope(r, inv, p)
  /\ r.draftOnly /\ r.customers => Uses(p, "gmail.threads.read")
  /\ \A e \in Effects(r, inv) : e.targets \cap Required(p) # {}
  /\ Uses(p, "gmail.list") /\ r.quotesMail => Uses(p, "gmail.get")
  /\ Uses(p, "gmail.list") /\ r.personal =>
       \A i \in DOMAIN p : p[i].op = "gmail.send" => WaitsFor(p, i, {"gmail.get"})

\* preflight_plan: the fixes once more, against the whole inventory, and the
\* evidence that each step declares (compile_contracts).
Preflight(r, inv, p) ==
  /\ Authorized(p, inv, r.inputs)
  /\ \A s \in Steps(p) : s.required_evidence \subseteq Provides[s.op]

\* One candidate, from the first check to the last.
Accepted(r, inv, p) ==
  /\ KeepsRoutes(r, p) /\ UsesSelected(r, inv, p) /\ RightSources(r, inv, p)
  /\ r.draftOnly => Validated(r, inv, p)
  /\ CanReadBack(CompiledRecipe(r, inv, p), inv)
  /\ Validated(r, inv, Compiled(r, inv, p)) /\ Preflight(r, inv, Compiled(r, inv, p))

\* An audited recipe is compiled like a candidate, without the body readback.
AcceptedRecipe(r, inv, p) ==
  /\ KeepsRoutes(r, p) /\ Validated(r, inv, CompiledRecipe(r, inv, p))
  /\ Preflight(r, inv, CompiledRecipe(r, inv, p))

\* reuse_saved_plan: the plan of an earlier, verified run of the same workflow and
\* request, when all of it is connected now.
Reusable(r, granted, p) ==
  /\ r.routes = {} /\ Preflight(r, granted, NormalizeGraph(p))
  /\ UsesSelected(r, Catalog, p) /\ Validated(r, Catalog, p)

\* missing_plan_operations: what a plan needs of the accounts, a backup included.
NeededTools(p) == UNION {{c.tool : c \in CallsOf(s)} : s \in Steps(p)} \ Builtin
===============================================================================
