------------------------------- MODULE MCData --------------------------------
(***************************************************************************)
(* Conversions, searches and walks over data that share nothing with each  *)
(* other, side by side: one of them runs in each behaviour.                *)
(***************************************************************************)
EXTENDS Data, Integers, Sequences, FiniteSets, TLC

VARIABLES
    part,   \* the machine that runs in this behaviour
    ib_pc, ib_conf, ib_todo, ib_irqs, ib_cpudata, ib_stat, ib_affinity, ib_openFiles, ib_placed,
    ib_outside, ib_shifted, ib_rounds,
    ft_fs, ft_excl_list, ft_op, ft_pc, ft_stack, ft_attr, ft_before, ft_created, ft_calls

gnssVars ==
    <<gc_arg, gc_sent, gc_before, gc_discontinuity_count_to_handle_old_clock_type>>
irqVars ==
    <<ib_pc, ib_conf, ib_todo, ib_irqs, ib_cpudata, ib_stat, ib_affinity, ib_openFiles,
      ib_placed, ib_outside, ib_shifted, ib_rounds>>
featureVars ==
    <<sf_document, sf_instances, sf_instance, sf_thread, sf_answers, sf_cut>>
contextsVars ==
    <<pc_files, pc_lines, pc_prefixes, pc_contexts>>
treeVars ==
    <<ft_fs, ft_excl_list, ft_op, ft_pc, ft_stack, ft_attr, ft_before, ft_created, ft_calls>>
bufferVars ==
    <<bu_vec, bu_freed, bu_dup, bu_job, bu_over>>

\* GnssConvert
MCSatellites == 0 .. 255
MCLengths == {-1, 1, 64, 65}
MCTimes == 0 .. 1
MCBatches ==
    UNION {[1 .. n -> [kind : {"null", "gnss", "flp"}, flags : {{}, {0, 2}, {0, 7}}]] : n \in 0 .. 2}
MCFlags == {{}, {0, 3, 5, 7}, {0, 1, 4}, {9, 12, 31}}

\* IrqBalance: configurations that are complete, block IRQs, or are not usable
Base(n, o) == <<<<"cpun", n>>, <<"cpuo", o>>, <<"tdel", 1>>>>
IrqConfigurations ==
    {Base(3, 0), Base(3, 0) \o <<<<"blck", <<12>>>>>>, Base(2, 1) \o <<<<"blck", <<12, 99>>>>>>,
     Base(3, 0) \o <<<<"blck", <<1, 2, 3, 4, 5>>>>>>, <<<<"irq", 1>>>>, <<<<"cpun", 3>>>>, <<<<"cpuo", 0>>>>}

\* SecNativeFeature: a text in two pieces; an element within another, and again
Flat == <<<<"start", "root">>, <<"start", "a">>, <<"text", <<"true">>>>, <<"end", "a">>, <<"text", <<"x">>>>,
          <<"start", "b">>, <<"text", <<"5">>>>, <<"text", <<"5">>>>, <<"end", "b">>, <<"end", "root">>>>
Nested == <<<<"start", "a">>, <<"text", <<"no">>>>, <<"start", "b">>, <<"end", "b">>, <<"text", <<"x">>>>,
            <<"end", "a">>, <<"start", "a">>, <<"text", <<"no">>>>, <<"end", "a">>>>
MCDocuments == {Flat, Nested}

\* PropertyContexts: prefixes of each other, a wildcard, an exact name, ctl., half a line
Line(word, context, exact) == [words |-> <<word, <<context>>>>, context |-> context, exact |-> exact]
MCContextLines ==
    {Line(<<-1>>, "d", FALSE), Line(<<1>>, "a", FALSE), Line(<<1, 0>>, "b", FALSE), Line(<<1, 0, 2>>, "c", FALSE),
     Line(<<1, 2, 0, 1>>, "a", FALSE), Line(<<1, 1, 0, 1>>, "f", FALSE), Line(<<1, 0, 2>>, "e", TRUE),
     Line(<<9, 8, 7, 0>>, "a", FALSE), [words |-> <<<<1>>>>, context |-> "a", exact |-> FALSE]}
MCContextFiles == {{"contexts"}, {"system_plat", "vendor_vendor"}, {"system_plat", "vendor_nonplat"},
                   {"plat", "vendor"}, {"plat"}, {}}
MCNames == UNION {[1 .. n -> 0 .. 2] : n \in 1 .. 4}

\* FileTree: trees with links, special files, and a destination in the way
S == <<"s">>
D == <<"d">>
Node(n, kind, data, attr) == [n |-> n, kind |-> kind, data |-> data, attr |-> attr]
Tree(f) ==
    [ino   |-> [p \in DOMAIN f |-> f[p].n],
     inode |-> [i \in 1 .. Cardinality(DOMAIN f) |->
                  LET p == CHOOSE q \in DOMAIN f : f[q].n = i
                  IN  [kind |-> f[p].kind, data |-> f[p].data, attr |-> f[p].attr]]]
base == <<>> :> Node(1, "dir", "none", "a0")
deep == base @@ S :> Node(2, "dir", "none", "a1") @@ <<"s", "x">> :> Node(3, "dir", "none", "a2")
        @@ <<"s", "x", "y">> :> Node(4, "reg", "data", "a3") @@ <<"s", "x", "k">> :> Node(5, "reg", "keep", "a1")
        @@ <<"s", "z">> :> Node(6, "other", "none", "a2")
links == base @@ S :> Node(2, "dir", "none", "a1") @@ <<"s", "x">> :> Node(3, "lnk", <<"o">>, "link")
         @@ <<"s", "y">> :> Node(4, "reg", "data", "a3") @@ <<"o">> :> Node(5, "reg", "out", "a2")
into == links @@ D :> Node(6, "dir", "none", "a4") @@ <<"d", "y">> :> Node(7, "lnk", <<"s", "y">>, "link")
        @@ <<"d", "x">> :> Node(8, "dir", "none", "a2")
clash == deep @@ D :> Node(7, "dir", "none", "a4") @@ <<"d", "x">> :> Node(8, "reg", "theirs", "a4")
         @@ <<"d", "z">> :> Node(9, "reg", "theirs", "a4")
file == base @@ S :> Node(2, "reg", "data", "a1")
lnk == base @@ S :> Node(2, "lnk", <<"o">>, "link") @@ <<"o">> :> Node(3, "reg", "out", "a2")
       @@ D :> Node(4, "reg", "theirs", "a4")
fifo == base @@ S :> Node(2, "other", "none", "a1") @@ D :> Node(3, "dir", "none", "a4")
FileTrees == {Tree(t) : t \in {base, deep, links, into, clash, file, lnk, fifo,
                               deep @@ D :> Node(7, "dir", "none", "a4")}}

IB == INSTANCE IrqBalance WITH
    Configurations <- IrqConfigurations, Interrupts <- <<11, 12, 13, 14>>, Cpus <- 0 .. 2, Ticks
    <- {<<0, 0>>, <<1, 3>>, <<1, 0>>}, WrappedLoads <- {0, 1, 300}, MaxFiles <- 2, MaxRounds <-
    2, pc <- ib_pc, conf <- ib_conf, todo <- ib_todo, irqs <- ib_irqs, cpudata <- ib_cpudata,
    stat <- ib_stat, affinity <- ib_affinity, openFiles <- ib_openFiles, placed <- ib_placed,
    outside <- ib_outside, shifted <- ib_shifted, rounds <- ib_rounds

FT == INSTANCE FileTree WITH
    Trees <- FileTrees, Lists <- {{}, {"k"}}, Source <- S, Destination <- D, MaxCalls <- 2,
    MaxCreated <- 1, fs <- ft_fs, excl_list <- ft_excl_list, op <- ft_op, pc <- ft_pc, stack <-
    ft_stack, attr <- ft_attr, before <- ft_before, created <- ft_created, calls <- ft_calls

-----------------------------------------------------------------------------
\* A machine that does not run stays in one of its initial states.
Init ==
    /\ part \in {"gnss", "irq", "feature", "contexts", "tree", "buffer"}
    /\ IF part = "irq" THEN TRUE ELSE ib_todo = Base(3, 0)
    /\ IF part = "feature" THEN TRUE ELSE sf_document = Flat
    /\ IF part = "contexts" THEN TRUE ELSE pc_files = <<>>
    /\ IF part = "tree" THEN TRUE ELSE ft_fs = Tree(base)
    /\ IF part = "tree" THEN TRUE ELSE ft_excl_list = {}
    /\ GC!Init /\ IB!Init /\ SF!Init /\ PC!Init /\ FT!Init /\ BU!Init

Next ==
    \/ part = "gnss" /\ GC!Next
       /\ UNCHANGED <<part, irqVars, featureVars, contextsVars, treeVars, bufferVars>>
    \/ part = "irq" /\ IB!Next
       /\ UNCHANGED <<part, gnssVars, featureVars, contextsVars, treeVars, bufferVars>>
    \/ part = "feature" /\ SF!Next
       /\ UNCHANGED <<part, gnssVars, irqVars, contextsVars, treeVars, bufferVars>>
    \/ part = "contexts" /\ PC!Next
       /\ UNCHANGED <<part, gnssVars, irqVars, featureVars, treeVars, bufferVars>>
    \/ part = "tree" /\ FT!Next
       /\ UNCHANGED <<part, gnssVars, irqVars, featureVars, contextsVars, bufferVars>>
    \/ part = "buffer" /\ BU!Next
       /\ UNCHANGED <<part, gnssVars, irqVars, featureVars, contextsVars, treeVars>>

vars == <<part, gnssVars, irqVars, featureVars, contextsVars, treeVars, bufferVars>>
Spec == Init /\ [][Next]_vars

-----------------------------------------------------------------------------
(* Properties: those of Data, and those of the other machines in their own behaviours *)

\* IrqBalance: every round of irqbalance_main places all IRQs it may move on
\* cores that are online.
Balanced == IB!Balanced

\* PropertyContexts: list and trie give a name the context of its longest
\* prefix.
FindsLongestPrefix == part = "contexts" => PC!FindsLongestPrefix

\* FileTree: rm_rf, mv_f, cp_afc and link_dir do what they are called for and
\* lose nothing else.
TreesInv == part = "tree" => FT!TreesInv
=============================================================================
