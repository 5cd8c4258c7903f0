------------------------------ MODULE MCPlanning ------------------------------
(* Small instances of Planning: two routes to Google Docs, an account for     *)
(* each, and a prompt for each part of the compiler.                          *)
EXTENDS Planning, TLC
CONSTANTS a1, a2
TwoAccounts == (a1 :> {"google"}) @@ (a2 :> {"google-docs"})

In(t, os) == {Call(t, o) : o \in os}
SmallCatalog ==
  In("google", {"docs.create", "docs.get", "gmail.list", "gmail.get", "gmail.threads.read",
                "gmail.send"})
  \cup SeparateDocs \cup In("canva", {"canva.presentation.create", "canva.export.create"})
  \cup In("google-sheets", {"google-sheets.add-multiple-rows"}) \cup {Chat, Backup}

Families ==
  [x \in Tools \cup Ops |->
     CASE x \in {"docs.create", "docs.get", "google-docs", "google-docs.create-document",
                 "google-docs.get-document"} -> "docs"
       [] x \in {"gmail.list", "gmail.get", "gmail.threads.read", "gmail.send"} -> "gmail"
       [] x \in {"canva", "canva.presentation.create", "canva.export.create"} -> "canva"
       [] x \in {"google-sheets", "google-sheets.add-multiple-rows"} -> "sheets"
       [] x \in {"anthropic", "anthropic.chat"} -> "anthropic"
       [] x = "google" -> "google"
       [] OTHER -> "aura"]

Creations == {"docs.create", "google-docs.create-document", "canva.presentation.create",
              "canva.export.create"}
Rowwise     == "google-sheets.add-multiple-rows"
Scopes      == [o \in Ops |-> IF o \in Creations \cup {"gmail.send", Rowwise} THEN "write"
                              ELSE "read"]
NamedScopes == [o \in Ops |-> IF o \in Creations \cup {"gmail.send"} THEN "write" ELSE "read"]
Effect      == [o \in Ops |-> CASE o \in Creations \cup {Rowwise} -> {"create"}
                                [] o = "gmail.send" -> {"send"}
                                [] OTHER -> {}]
Evidence    == [o \in Ops |-> CASE o = "docs.create" -> {"write_receipt"}
                                [] o = "docs.get" -> {"document_body"}
                                [] OTHER -> {}]

\* Prompts
Plain == [wants |-> {}, selected |-> {}, excluded |-> {}, routes |-> {}, apps |-> {},
          inputs |-> {}, exact |-> {}, reviewed |-> {}, musts |-> {}, bans |-> {},
          revises |-> FALSE, reuse |-> FALSE, mailOnly |-> FALSE, draftOnly |-> FALSE,
          customers |-> FALSE, quotesMail |-> FALSE, personal |-> FALSE, writesDoc |-> FALSE,
          providerOnly |-> FALSE]
Want(f, k) == [family |-> f, kind |-> k]

Story  == [Plain EXCEPT !.wants = {Want("docs", "create"), Want("gmail", "send")},
                        !.apps = {"docs", "gmail"}, !.writesDoc = TRUE]
Note   == [Plain EXCEPT !.wants = {Want("docs", "create")}, !.apps = {"docs"}]
Deck   == [Plain EXCEPT !.wants = {Want("canva", "create")}, !.selected = {"canva"},
                        !.excluded = {"docs"}, !.apps = {"canva", "anthropic"}]
Replies == [Plain EXCEPT !.mailOnly = TRUE, !.draftOnly = TRUE, !.customers = TRUE,
                         !.quotesMail = TRUE, !.apps = {"gmail"}]
Move   == [Plain EXCEPT !.revises = TRUE, !.reviewed = {Call("google", "docs.create")},
                        !.routes = {[family |-> "docs", tool |-> "google-docs"]},
                        !.apps = {"docs"}]
Rows   == [Plain EXCEPT !.apps = {"sheets"}, !.inputs = {"rows"}]
AllPrompts == {Story, Note, Deck, Replies, Move, Rows}

\* Drafts
Step(k, t, o) ==
  [key |-> k, tool |-> t, op |-> o, fallback |-> NoCall, optional |-> FALSE,
   consequential |-> FALSE, depends_on |-> {}, uses |-> {}, names |-> {}, inputs |-> {},
   vague |-> FALSE, narrative |-> FALSE, required_evidence |-> {}]
Writing(k) == {Step(k, "google-docs", "google-docs.create-document"),
               [Step(k, "google", "docs.create") EXCEPT !.required_evidence = {"document_body"}]}
Mail(k)   == Step(k, "google", "gmail.send")
Design(k) == Step(k, "canva", "canva.presentation.create")
Export(k) == Step(k, "canva", "canva.export.create")

AllDrafts ==
  [r \in AllPrompts |->
     CASE r = Story -> {<<d, [Mail(2) EXCEPT !.names = {n}]>> : d \in Writing(1), n \in {1, 2}}
       [] r = Note -> {<<d>> : d \in Writing(1)}
       [] r = Deck -> {<<Step(1, "anthropic", "anthropic.chat"), [Design(2) EXCEPT !.names = {1}]>>,
                       <<[Design(1) EXCEPT !.optional = TRUE]>>}
       [] r = Replies -> {<<Step(1, "google", "gmail.list"), Step(2, "google", o)>> :
                            o \in {"gmail.get", "gmail.threads.read", "gmail.send"}}
       [] r = Move -> {<<d>> : d \in Writing(1)} \cup {<<d, Design(2)>> : d \in Writing(1)}
                       \cup {<<[d EXCEPT !.inputs = {"folder"}]>> : d \in Writing(1)}
       [] r = Rows -> {<<[Step(1, "google-sheets", "google-sheets.add-multiple-rows")
                            EXCEPT !.inputs = {"rows"}]>>}]

AllRecipes ==
  [r \in AllPrompts |->
     IF r = Deck
     THEN {<<Design(1), [Export(2) EXCEPT !.uses = {1}, !.depends_on = {1}]>>}
     ELSE {}]
===============================================================================
