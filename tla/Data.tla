-------------------------------- MODULE Data ---------------------------------
(***************************************************************************)
(* Machines that turn data they are given into other data and share no      *)
(* state with any other one: the conversions of the GNSS callbacks, the     *)
(* feature library, the growing buffers of resetprop, and the tables that   *)
(* give a property its context.  Each is declared here once, with its own   *)
(* constants and variables, for the run that checks them and for the proofs.*)
(***************************************************************************)
EXTENDS Integers, Sequences

CONSTANTS
    SatelliteNumbers, ListLengths, FlagWords, ClockTimes, LocationBatches, BatchLimit, CountLimit,
    FeatureThreads, FeatureFiles, FeatureTags, FeatureDefaults,
    VectorNames, VectorItems, VectorSize, ItemFrees, StreamReads, StreamBytes, LineBuffers, LineLength, ArraySizes,
    ContextLines, PropertyNames, ContextFiles, LinesRead

\* The numbers of the lists, of the clocks and of the bits of a flag word; a count
\* that has more than one value; slots of a batch.
ASSUME ConvertAssumption ==
    /\ SatelliteNumbers \subseteq Int /\ ListLengths \subseteq Int /\ ClockTimes \subseteq Int
    /\ FlagWords \subseteq SUBSET Nat
    /\ BatchLimit \in Nat /\ CountLimit \in Nat /\ CountLimit > 1
    /\ LocationBatches \subseteq Seq([kind : {"null", "gnss", "flp"}, flags : SUBSET Nat])

\* A feature file is a finite sequence of events.
ASSUME FeaturesAssumption == \A d \in FeatureFiles : d \in Seq({d[i] : i \in DOMAIN d})

\* A null pointer is no item; a read has a largest length; fdgets is given an array
\* of at least one byte.
ASSUME BuffersAssumption ==
    /\ "null" \notin VectorItems
    /\ StreamReads \subseteq Nat /\ \E m \in StreamReads : \A n \in StreamReads : n <= m
    /\ LineBuffers \subseteq Nat
    /\ ArraySizes \subseteq Nat \ {0}

\* The first word of a line of a property_contexts file has a character; "*" stands
\* alone.  No property has a name with a star.
ASSUME ContextsAssumption ==
    /\ \A line \in ContextLines : Len(line.words) >= 2 =>
         /\ line.words[1] \in Seq(Int) /\ line.words[1] # <<>>
         /\ line.words[1][1] = -1 => line.words[1] = <<-1>>
    /\ PropertyNames \subseteq Seq(Nat)

VARIABLES
    gc_arg, gc_sent, gc_before, gc_discontinuity_count_to_handle_old_clock_type,
    sf_document, sf_instances, sf_instance, sf_thread, sf_answers, sf_cut,
    bu_vec, bu_freed, bu_dup, bu_job, bu_over,
    pc_files, pc_lines, pc_prefixes, pc_contexts

GC == INSTANCE GnssConvert WITH
    Prns <- SatelliteNumbers, Counts <- ListLengths, Masks <- FlagWords, Times <- ClockTimes,
    Batches <- LocationBatches, MAX_LOCATIONS_PER_BATCH <- BatchLimit, CountRange <- CountLimit,
    arg <- gc_arg, sent <- gc_sent, before <- gc_before,
    discontinuity_count_to_handle_old_clock_type <- gc_discontinuity_count_to_handle_old_clock_type

SF == INSTANCE SecNativeFeature WITH
    Threads <- FeatureThreads, Documents <- FeatureFiles, Tags <- FeatureTags, Defaults <- FeatureDefaults,
    document <- sf_document, instances <- sf_instances, _instance <- sf_instance, thread <- sf_thread,
    answers <- sf_answers, cut <- sf_cut

BU == INSTANCE Buffers WITH
    Vectors <- VectorNames, Items <- VectorItems, MaxSize <- VectorSize, MaxFreed <- ItemFrees,
    Chunks <- StreamReads, MaxStream <- StreamBytes, LineSizes <- LineBuffers, MaxLine <- LineLength,
    Sizes <- ArraySizes, vec <- bu_vec, freed <- bu_freed, dup <- bu_dup, job <- bu_job, over <- bu_over

PC == INSTANCE PropertyContexts WITH
    Lines <- ContextLines, Lookups <- PropertyNames, FileSets <- ContextFiles, MaxLines <- LinesRead,
    files <- pc_files, lines <- pc_lines, prefixes <- pc_prefixes, contexts <- pc_contexts

-----------------------------------------------------------------------------
(* Properties *)

\* GnssConvert: a callback's arguments mean the same to the framework as in
\* gps.h, at the ends of every range.
ConversionsKept == GC!ConversionsKept

\* SecNativeFeature: every answer is the text of the feature file, whichever
\* instance gives it.
FeatureInv == SF!FeatureInv

\* Buffers: nothing is stored outside of its block or freed twice.
BuffersInv == BU!BuffersInv
=============================================================================
