-------------------------------- MODULE MCViews --------------------------------
(***************************************************************************)
(* Values for TLC's run of the views.                                      *)
(***************************************************************************)
EXTENDS Views, TLC

Here     == [token |-> "festcal", rest |-> 1]
Service  == [token |-> "festcal", rest |-> 2]
Nameless == [token |-> "", rest |-> 1]

Kind(base, edge) ==
    [source |-> Here, type |-> [base |-> base, edge |-> edge], tags |-> {}, tokens |-> NoTokens]

Of(source, kind) == [kind EXCEPT !.source = source]

Ship(n) == [Kind("shipped", "none") EXCEPT !.tokens = n]

Tagged(keys) ==
    [Kind("note", "none") EXCEPT !.tags = {[key |-> k, value |-> "v"] : k \in keys}]

Decision == [Kind("decision", "none") EXCEPT !.tags = {CouldHaveAsked}]

Missions == {Kind("mission", "start"), Kind("mission", "end")}
Steps    == {Kind("step", "start"), Kind("step", "end")}
Tasks    == {Kind("task", "started"), Kind("task", "done")}

\* All events of all machines.
Every == Between(NoBound, NoBound)

\* Every limit that the code tells apart.
Limited == {[Every EXCEPT !.limit = n] : n \in {<<>>, <<-1>>, <<0>>, <<1>>, <<2>>, <<9>>}}

\* A query of one criterion, the newest of what it finds.
OfMachine(m) == [Every EXCEPT !.machine = <<m>>, !.limit = <<1>>]
OfTypes(types) == [Every EXCEPT !.type = <<types>>, !.limit = <<1>>]
OfSource(s) == [Every EXCEPT !.source = <<s>>]
OfProject(p) == [Every EXCEPT !.project = <<p>>, !.limit = <<1>>]

\* Blank criteria, which the server alone takes for none.
Blanks == {OfMachine(0), OfTypes({BlankType}), OfSource(BlankSource), OfProject("")}

\* Missions and tasks that overlap, in the order of their times.
Overlap == [there |-> {}, machines |-> {1}, kinds |-> Missions \cup Tasks,
            max |-> 4, once |-> FALSE, late |-> FALSE,
            asks |-> {Every, Between(1, 3), Between(2, NoBound),
                      OfTypes({k.type : k \in Missions})}]

\* The first event that machine 1 logged.
Event0(kind) ==
    [machine |-> 1, seq |-> 0, time |-> 1, source |-> kind.source,
     type |-> kind.type, tags |-> kind.tags, tokens |-> kind.tokens]

\* A mission, a step and a task, which may lie in each other three deep.
Nested == [machines |-> {1}, kinds |-> Missions \cup Steps \cup Tasks,
           max |-> 6, once |-> TRUE, late |-> FALSE, asks |-> {},
           there |-> {Event0(Kind("mission", "start"))}]

\* Two machines whose clocks differ.
Late == [there |-> {}, machines |-> {1, 2}, max |-> 3, once |-> FALSE, late |-> TRUE,
         kinds |-> Missions \cup {Kind("failure", "none"), Of(Service, Kind("push", "none"))},
         asks |-> Limited \cup {OfMachine(1), OfMachine(2), Between(2, 3), Between(NoBound, 2)}]

\* One machine that fails, ships, refuses and pushes.
Work == [there |-> {}, machines |-> {1}, max |-> 4, once |-> FALSE, late |-> FALSE,
         kinds |-> {Kind("failure", "none"), Kind("push", "none"),
                    Ship(NoTokens), Ship(1), Ship(4)},
         asks |-> {Every, OfTypes({FailureType, PushType})}]

\* Decisions that could have been asked about, refusals, and events that share values.
Notes == [there |-> {}, machines |-> {1, 2}, max |-> 3, once |-> FALSE, late |-> TRUE,
          kinds |-> {Of(Service, Tagged({"whim"})), Tagged({"whim", "task"}),
                     Of(Nameless, Decision), Kind("refusal", "none")},
          asks |-> Limited \cup Blanks \cup
                   {OfSource(Here), OfSource(Nameless), OfProject("festcal"),
                    OfTypes({RefusalType})}]

\* Types whose names are globs for others or blank, and a source that is blank.
Names == [there |-> {}, machines |-> {1}, max |-> 4, once |-> FALSE, late |-> FALSE,
          kinds |-> {Kind("build[12]", "start"), Kind("build1", "start"), Kind("*", "none"),
                     Kind("", "none"), Of(BlankSource, Kind("build1", "end"))},
          asks |-> Blanks \cup
                   {OfTypes({Kind("build1", "start").type}), OfTypes({Kind("*", "none").type})}]

AllWorkloads == {Overlap, Nested, Late, Work, Notes, Names}

AllTypes == {k.type : k \in UNION {w.kinds : w \in AllWorkloads}}

\* "build[12].start" matches what starts build1 or build2, and not itself.
WildTypes == Kind("build[12]", "start").type :> {Kind("build1", "start").type}
             @@ Kind("*", "none").type :> AllTypes
=============================================================================
