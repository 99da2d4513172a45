-------------------------- MODULE SecNativeFeature --------------------------
(***************************************************************************)
(* libsecnativefeature: the features of /system/csc/feature.xml, read once  *)
(* by expat's callbacks into a map and asked for by any thread through an   *)
(* instance that is created without a lock.                                 *)
(***************************************************************************)
EXTENDS Integers, Sequences, SequencesExt

CONSTANTS
    Threads,
    Documents,   \* what a file may be: a sequence of expat's events
    Tags, Defaults

\* An event is <<"start", tag>>, <<"text", words>> or <<"end", tag>>; expat may
\* hand a text over in several pieces.

VARIABLES
    document,    \* the events of the file
    instances,   \* the _features of every instance created
    _instance,   \* the index of the one in use, 0 for NULL
    thread,      \* per thread: at, and the index of the instance it has created
    answers,     \* history: <<question, tag, default, answer>>
    cut          \* history: reading the file has failed at some time

vars == <<document, instances, _instance, thread, answers, cut>>

Init ==
    /\ document \in Documents
    /\ instances = <<>> /\ _instance = 0
    /\ thread = [t \in Threads |-> [at |-> "idle", own |-> 0]]
    /\ answers = {} /\ cut = FALSE

-----------------------------------------------------------------------------
(* _loadFeature *)

NoName == "none"

\* Fault: a text replaces what is there.
charDataHandler_Last(features, name, text) ==
    IF name = NoName THEN features ELSE (name :> text) @@ features

\* A text is appended to what the element has so far; one outside is dropped.
charDataHandler(features, name, text) ==
    IF name = NoName THEN features
    ELSE (name :> (IF name \in DOMAIN features THEN features[name] \o text ELSE text)) @@ features

\* startElement and endElement: the end of an element leaves no current name,
\* also when it was inside another one.
Handle(state, event) ==
    CASE event[1] = "start" -> [state EXCEPT !.name = event[2]]
      [] event[1] = "end"   -> [state EXCEPT !.name = NoName]
      [] event[1] = "text"  -> [state EXCEPT !.features = charDataHandler(@, state.name, event[2])]

\* A file is read as far as it goes; an error leaves the features before it.
_loadFeature(events) ==
    FoldLeft(Handle, [name |-> NoName, features |-> <<>>], events).features

-----------------------------------------------------------------------------
(* getInstance and the calls *)

Missing == _instance = 0

getInstance(t) ==
    /\ thread[t].at = "idle"
    /\ thread' = [thread EXCEPT ![t].at = IF Missing THEN "new" ELSE "use"]
    /\ UNCHANGED <<document, instances, _instance, answers, cut>>

\* The constructor: the whole file, or a part of it when reading or parsing fails.
New(t) ==
    /\ thread[t].at = "new"
    /\ \E n \in {Len(document), Len(document) \div 2} :
         /\ instances' = Append(instances, _loadFeature(SubSeq(document, 1, n)))
         /\ cut' = (cut \/ n < Len(document))
    /\ thread' = [thread EXCEPT ![t] = [at |-> "assign", own |-> Len(instances) + 1]]
    /\ UNCHANGED <<document, _instance, answers>>

Assign(t) ==
    /\ thread[t].at = "assign"
    /\ _instance' = thread[t].own
    /\ thread' = [thread EXCEPT ![t].at = "use"]
    /\ UNCHANGED <<document, instances, answers, cut>>

\* The three kinds of question; a feature that is not "true" is the default,
\* even if it is "false".
getEnableStatus(features, tag, default) ==
    IF tag \in DOMAIN features /\ features[tag] \in {<<"true">>, <<"TRUE">>} THEN "true" ELSE default
getString(features, tag, default) == IF tag \in DOMAIN features THEN features[tag] ELSE <<default>>
atoi(text) == IF text = <<"5">> THEN "5" ELSE IF text = <<"5", "5">> THEN "55" ELSE "0"
getInteger(features, tag, default) == IF tag \in DOMAIN features THEN atoi(features[tag]) ELSE default

\* A call of the C++ or the C interface, with a default or the one it implies.
Ask(t, tag) ==
    /\ thread[t].at = "use"
    /\ LET f == instances[_instance] IN
       \E default \in Defaults :
         answers' = answers \cup {[tag |-> tag, default |-> default, enabled |-> getEnableStatus(f, tag, default),
                                   string |-> getString(f, tag, default), integer |-> getInteger(f, tag, default)]}
    /\ thread' = [thread EXCEPT ![t].at = "idle"]
    /\ UNCHANGED <<document, instances, _instance, cut>>

Next == \E t \in Threads : getInstance(t) \/ New(t) \/ Assign(t) \/ \E tag \in Tags : Ask(t, tag)
Spec == Init /\ [][Next]_vars

-----------------------------------------------------------------------------
(* Properties *)

\* The text of an element: every piece that comes after its start and before
\* another start or end, in order.
TextOf(tag) ==
    LET Opens(i) == {j \in 1 .. i : document[j][1] # "text"}
        inside(i) == /\ document[i][1] = "text" /\ Opens(i) # {}
                     /\ document[CHOOSE j \in Opens(i) : \A k \in Opens(i) : k <= j] = <<"start", tag>>
        pieces == SelectSeq([i \in 1 .. Len(document) |-> i], inside)
    IN  FoldLeft(LAMBDA text, i : text \o document[i][2], <<>>, pieces)

\* However expat cuts a text into pieces and whichever of several instances
\* answers, an answer is the text of the file, and a default only stands for a
\* feature the file has not, as long as the file could be read.
FeatureText ==
    ~cut => \A a \in answers :
        a.string = IF TextOf(a.tag) # <<>> THEN TextOf(a.tag) ELSE <<a.default>>

\* getInstance never hands out NULL, and what it hands out is loaded.
InstanceThere == (\E t \in Threads : thread[t].at = "use") => _instance \in DOMAIN instances

\* Whichever of several instances answers, and whatever was created or assigned since
\* getInstance found it, an answer of each kind is the one that a single reading of
\* the file gives.
AnswersAgree ==
    ~cut => \A a \in answers :
        LET f == _loadFeature(document) IN
        /\ a.enabled = getEnableStatus(f, a.tag, a.default)
        /\ a.string = getString(f, a.tag, a.default)
        /\ a.integer = getInteger(f, a.tag, a.default)

\* getInstance and the questions: whichever thread asks, however late, it asks a
\* loaded instance and gets the text of the file.
FeatureInv == InstanceThere /\ AnswersAgree /\ FeatureText
=============================================================================
