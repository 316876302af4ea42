--------------------------- MODULE LibraryProofs ---------------------------
(***************************************************************************)
(* Proofs about Library for any number of commands and any names.          *)
(***************************************************************************)
EXTENDS Library, TLAPS

(* A file keeps to the name it was made for, open or not.                  *)
Begun(c) == pc[c] # "new"

NameInv ==
  \A n \in Names : name[n] # NoFile => Begun(name[n]) /\ arg[name[n]] = n

OpenInv ==
  \A c \in Cmd : pc[c] = "write" =>
    open[c] \in Cmd /\ Begun(open[c]) /\ arg[open[c]] = arg[c]

(* What is done to a library is not an export.                             *)
TaskInv ==
  \A c \in Cmd : pc[c] \in {"load", "open", "write"} =>
    arg[c] \in Names /\ (op[c] = "export" => arg[c] \in Outs)

DataInv ==
  ~troubled => \A c \in Cmd :
    pc[c] \in {"open", "write"} /\ arg[c] \in Libs => data[c] \in Whole

(* Who finds a library empty finds it being written.                       *)
Writing(f) == \E c \in Cmd : pc[c] = "write" /\ open[c] = f

WholeInv ==
  ~troubled => \A l \in Libs : name[l] # NoFile =>
    \/ content[name[l]] \in Whole
    \/ content[name[l]] = "mix" /\ name[l] \in crossed
    \/ content[name[l]] = "empty" /\ Writing(name[l])

(* Who writes to a file that is not crossed finds in it what he has to     *)
(* write himself, and so does everybody who has it open.                   *)
SameText(c) ==
  /\ content[open[c]] \in {"empty", data[c]}
  /\ \A d \in Cmd : pc[d] = "write" /\ open[d] = open[c] => data[d] = data[c]

TextInv ==
  ~troubled => \A c \in Cmd :
    pc[c] = "write" /\ arg[c] \in Libs /\ open[c] \notin crossed => SameText(c)

CrossedInv == \A f \in crossed : Begun(f)

IInv == Typed /\ NameInv /\ OpenInv /\ TaskInv /\ DataInv /\ WholeInv /\ TextInv /\ CrossedInv

-----------------------------------------------------------------------------
LEMMA CmdFacts == NoFile \notin Cmd
BY LibraryAssumption DEF NoFile, Cmd

LEMMA TypeInit == Init => Typed
<1> SUFFICES ASSUME Init PROVE Typed
  OBVIOUS
<1>1. name \in [Names -> {NoFile} \cup Cmd] /\ open \in [Cmd -> {NoFile} \cup Cmd]
  BY DEF Init
<1>2. content \in [Cmd -> Content] /\ data \in [Cmd -> Content]
  BY DEF Init, Content
<1>3. /\ op \in [Cmd -> {"none", "update", "remove", "export"}]
      /\ arg \in [Cmd -> Names \cup {NoFile}]
  BY DEF Init
<1>4. pc \in [Cmd -> Over \cup {"load", "open", "write"}] /\ todo \in [Cmd -> SUBSET Libs]
  BY DEF Init, Over
<1>5. overlapped \in [Cmd -> BOOLEAN] /\ crossed \subseteq Cmd /\ troubled \in BOOLEAN
  BY DEF Init
<1> QED
  BY <1>1, <1>2, <1>3, <1>4, <1>5 DEF Typed

LEMMA TypeNext ==
  ASSUME Typed, TaskInv, OpenInv, [Next]_vars
  PROVE  Typed'
<1> USE DEF Typed, Goto, fs
<1>1. CASE UNCHANGED vars
  BY <1>1 DEF vars
<1>2. ASSUME NEW c \in Cmd, Begin(c) PROVE Typed'
  <2>1. op' \in [Cmd -> {"none", "update", "remove", "export"}]
    BY <1>2 DEF Begin
  <2>2. arg' \in [Cmd -> Names \cup {NoFile}]
    BY <1>2 DEF Begin, Names
  <2>3. pc' \in [Cmd -> Over \cup {"load", "open", "write"}]
    BY <1>2 DEF Begin
  <2>4. todo' \in [Cmd -> SUBSET Libs]
    BY <1>2 DEF Begin
  <2>5. overlapped' \in [Cmd -> BOOLEAN]
    BY <1>2 DEF Begin
  <2> QED
    BY <1>2, <2>1, <2>2, <2>3, <2>4, <2>5 DEF Begin
<1>3. ASSUME NEW c \in Cmd, Load(c) PROVE Typed'
  <2>1. todo' \in [Cmd -> SUBSET Libs]
    BY <1>3 DEF Load
  <2>2. pc' \in [Cmd -> Over \cup {"load", "open", "write"}]
    BY <1>3 DEF Load, Over
  <2> QED
    BY <1>3, <2>1, <2>2 DEF Load
<1>4. ASSUME NEW c \in Cmd, Fetch(c) PROVE Typed'
  <2>1. data' \in [Cmd -> Content] /\ troubled' \in BOOLEAN
    <3>1. CASE UNCHANGED <<data, troubled>>
      BY <3>1
    <3>2. ASSUME NEW r \in Replies, r # "none", data' = [data EXCEPT ![c] = r],
                 troubled' = (troubled \/ r \notin Whole)
          PROVE  data' \in [Cmd -> Content] /\ troubled' \in BOOLEAN
      <4>1. r \in Content
        BY <3>2, LibraryAssumption DEF Content, Whole
      <4> QED
        BY <3>2, <4>1
    <3> QED
      BY <1>4, <3>1, <3>2 DEF Fetch
  <2>2. pc' \in [Cmd -> Over \cup {"load", "open", "write"}]
    BY <1>4 DEF Fetch, Over
  <2> QED
    BY <1>4, <2>1, <2>2 DEF Fetch
<1>5. ASSUME NEW c \in Cmd, Remove(c) PROVE Typed'
  BY <1>5 DEF Remove, Over
<1>6. ASSUME NEW c \in Cmd, CheckOutput(c) PROVE Typed'
  <2>1. data' \in [Cmd -> Content]
    BY <1>6 DEF CheckOutput, Content, Whole
  <2>2. pc' \in [Cmd -> Over \cup {"load", "open", "write"}]
    BY <1>6 DEF CheckOutput, Over
  <2> QED
    BY <1>6, <2>1, <2>2 DEF CheckOutput
<1>7. ASSUME NEW c \in Cmd, Open(c) PROVE Typed'
  <2>1. name' \in [Names -> {NoFile} \cup Cmd] /\ open' \in [Cmd -> {NoFile} \cup Cmd]
    <3>1. arg[c] \in Names
      BY <1>7 DEF Open, TaskInv
    <3>2. Opened(c) \in Cmd
      BY <3>1 DEF Opened
    <3> QED
      BY <1>7, <3>2 DEF Open
  <2>2. content' \in [Cmd -> Content] /\ crossed' \subseteq Cmd
    <3>1. arg[c] \in Names
      BY <1>7 DEF Open, TaskInv
    <3>2. Opened(c) \in Cmd
      BY <3>1 DEF Opened
    <3> QED
      BY <1>7, <3>2 DEF Open, Content
  <2>3. pc' \in [Cmd -> Over \cup {"load", "open", "write"}]
    BY <1>7 DEF Open, Over
  <2> QED
    BY <1>7, <2>1, <2>2, <2>3 DEF Open
<1>8. ASSUME NEW c \in Cmd, Write(c) PROVE Typed'
  <2>1. content' \in [Cmd -> Content]
    <3>1. open[c] \in Cmd
      BY <1>8 DEF Write, OpenInv
    <3>2. Overwrite(content[open[c]], data[c]) \subseteq Content
      BY <3>1 DEF Overwrite, Content, Whole
    <3> QED
      BY <1>8, <3>1, <3>2 DEF Write
  <2>2. pc' \in [Cmd -> Over \cup {"load", "open", "write"}]
    BY <1>8 DEF Write, Over
  <2> QED
    BY <1>8, <2>1, <2>2 DEF Write
<1>9. ASSUME NEW c \in Cmd, Kill(c) PROVE Typed'
  <2>1. content' \in [Cmd -> Content] /\ troubled' \in BOOLEAN
    <3>1. CASE pc[c] = "write"
      <4>1. open[c] \in Cmd
        BY <3>1 DEF OpenInv
      <4>2. Overwrite(content[open[c]], IF data[c] = "page" THEN "page" ELSE "part")
              \subseteq Content
        BY <4>1 DEF Overwrite, Content, Whole
      <4> QED
        BY <1>9, <3>1, <4>1, <4>2 DEF Kill
    <3>2. CASE pc[c] # "write"
      BY <1>9, <3>2 DEF Kill
    <3> QED
      BY <3>1, <3>2
  <2>2. pc' \in [Cmd -> Over \cup {"load", "open", "write"}]
    BY <1>9 DEF Kill, Over
  <2> QED
    BY <1>9, <2>1, <2>2 DEF Kill
<1> QED
  BY <1>1, <1>2, <1>3, <1>4, <1>5, <1>6, <1>7, <1>8, <1>9 DEF Next

-----------------------------------------------------------------------------
(* Who has which file.                                                     *)

LEMMA TaskNext ==
  ASSUME Typed, TaskInv, [Next]_vars
  PROVE  TaskInv'
<1> USE DEF TaskInv, Typed, Goto, fs
<1>1. CASE UNCHANGED vars
  BY <1>1 DEF vars
<1>2. ASSUME NEW c \in Cmd, Begin(c) PROVE TaskInv'
  BY <1>2 DEF Begin, Names
<1>3. ASSUME NEW c \in Cmd, Load(c) PROVE TaskInv'
  BY <1>3 DEF Load
<1>4. ASSUME NEW c \in Cmd, Fetch(c) \/ Remove(c) \/ CheckOutput(c) PROVE TaskInv'
  BY <1>4 DEF Fetch, Remove, CheckOutput, Loaded
<1>5. ASSUME NEW c \in Cmd, Open(c) \/ Write(c) \/ Kill(c) PROVE TaskInv'
  BY <1>5 DEF Open, Write, Kill
<1> QED
  BY <1>1, <1>2, <1>3, <1>4, <1>5 DEF Next

(* Nobody gets a new file or another task but at Open and Begin.           *)
LEMMA FileNext ==
  ASSUME Typed, TaskInv, NameInv, OpenInv, [Next]_vars
  PROVE  NameInv' /\ OpenInv'
<1> USE DEF NameInv, OpenInv, Begun, Typed, Goto, fs
<1>1. CASE UNCHANGED vars
  BY <1>1 DEF vars
<1>2. ASSUME NEW c \in Cmd, Begin(c) PROVE NameInv' /\ OpenInv'
  <2>1. pc[c] = "new" /\ pc' = [pc EXCEPT ![c] = "load"] /\ UNCHANGED <<name, open>>
    BY <1>2 DEF Begin
  <2>2. \A d \in Cmd : d # c => arg'[d] = arg[d]
    BY <1>2 DEF Begin
  <2> QED
    BY <2>1, <2>2, CmdFacts
<1>3. ASSUME NEW c \in Cmd, Load(c) \/ Fetch(c) \/ CheckOutput(c)
      PROVE  NameInv' /\ OpenInv'
  <2>1. UNCHANGED <<name, open, arg>>
    BY <1>3 DEF Load, Fetch, CheckOutput
  <2>2. \A d \in Cmd : (Begun(d) => pc'[d] # "new") /\ (pc'[d] = "write" => pc[d] = "write")
    BY <1>3 DEF Load, Fetch, CheckOutput, Loaded
  <2> QED
    BY <2>1, <2>2, CmdFacts
<1>4. ASSUME NEW c \in Cmd, Remove(c) PROVE NameInv' /\ OpenInv'
  <2>1. UNCHANGED <<open, arg>> /\ (\A n \in Names : name'[n] \in {NoFile, name[n]})
    BY <1>4 DEF Remove
  <2>2. \A d \in Cmd : (Begun(d) => pc'[d] # "new") /\ (pc'[d] = "write" => pc[d] = "write")
    BY <1>4 DEF Remove, Loaded
  <2> QED
    BY <2>1, <2>2, CmdFacts
<1>5. ASSUME NEW c \in Cmd, Open(c) PROVE NameInv' /\ OpenInv'
  <2>1. arg[c] \in Names /\ Begun(c) /\ UNCHANGED arg
    BY <1>5 DEF Open, TaskInv
  <2>2. \A d \in Cmd : Begun(d) => pc'[d] # "new"
    BY <1>5 DEF Open
  <2>3. CASE UNCHANGED <<name, open>> /\ pc' = [pc EXCEPT ![c] = "failed"]
    BY <2>1, <2>2, <2>3, CmdFacts
  <2>4. CASE \E f \in Cmd :
               /\ Begun(f) /\ arg[f] = arg[c]
               /\ name' = [name EXCEPT ![arg[c]] = f] /\ open' = [open EXCEPT ![c] = f]
               /\ pc' = [pc EXCEPT ![c] = "write"]
    BY <2>1, <2>2, <2>4, CmdFacts
  <2>5. Opened(c) \in Cmd /\ Begun(Opened(c)) /\ arg[Opened(c)] = arg[c]
    BY <2>1 DEF Opened
  <2> QED
    BY <1>5, <2>3, <2>4, <2>5 DEF Open
<1>6. ASSUME NEW c \in Cmd, Write(c) \/ Kill(c) PROVE NameInv' /\ OpenInv'
  <2>1. UNCHANGED <<name, open, arg>>
    BY <1>6 DEF Write, Kill
  <2>2. \A d \in Cmd : (Begun(d) => pc'[d] # "new") /\ (pc'[d] = "write" => pc[d] = "write")
    BY <1>6 DEF Write, Kill, Active, Over
  <2> QED
    BY <2>1, <2>2, CmdFacts
<1> QED
  BY <1>1, <1>2, <1>3, <1>4, <1>5, <1>6 DEF Next

-----------------------------------------------------------------------------
(* What is in the libraries.                                               *)

LEMMA DataNext ==
  ASSUME Typed, TaskInv, DataInv, Libs \cap Outs = {}, [Next]_vars
  PROVE  DataInv'
<1> USE DEF DataInv, Typed, Goto, fs
<1>1. CASE UNCHANGED vars
  BY <1>1 DEF vars
<1>2. ASSUME NEW c \in Cmd, Begin(c) PROVE DataInv'
  BY <1>2 DEF Begin
<1>3. ASSUME NEW c \in Cmd, Load(c) \/ Remove(c) PROVE DataInv'
  BY <1>3 DEF Load, Remove
<1>4. ASSUME NEW c \in Cmd, Fetch(c) PROVE DataInv'
  <2>1. UNCHANGED arg /\ (\A d \in Cmd : d # c => pc'[d] = pc[d] /\ data'[d] = data[d])
    BY <1>4 DEF Fetch
  <2>2. pc'[c] = "open" /\ ~troubled' => ~troubled /\ data'[c] \in Whole
    BY <1>4 DEF Fetch
  <2>3. pc'[c] \in {"notfound", "open"} /\ (troubled => troubled')
    BY <1>4 DEF Fetch
  <2> QED
    BY <2>1, <2>2, <2>3
<1>5. ASSUME NEW c \in Cmd, CheckOutput(c) PROVE DataInv'
  <2>1. arg[c] \notin Libs /\ UNCHANGED <<arg, troubled>>
    BY <1>5 DEF CheckOutput, Loaded, TaskInv
  <2>2. \A d \in Cmd : d # c => pc'[d] = pc[d] /\ data'[d] = data[d]
    BY <1>5 DEF CheckOutput
  <2> QED
    BY <2>1, <2>2
<1>6. ASSUME NEW c \in Cmd, Open(c) \/ Write(c) \/ Kill(c) PROVE DataInv'
  BY <1>6 DEF Open, Write, Kill
<1> QED
  BY <1>1, <1>2, <1>3, <1>4, <1>5, <1>6 DEF Next

(* A step that touches no content and ends no writing.                     *)
LEMMA WholeKept ==
  ASSUME Typed, WholeInv, UNCHANGED <<content, open, crossed>>, troubled => troubled',
         \A l \in Libs : name'[l] \in {NoFile, name[l]},
         \A d \in Cmd : pc[d] = "write" => pc'[d] = "write"
  PROVE  WholeInv'
BY DEF WholeInv, Writing

LEMMA WholeNext ==
  ASSUME Typed, NameInv, OpenInv, TaskInv, DataInv, TextInv, WholeInv, [Next]_vars
  PROVE  WholeInv'
<1> USE DEF Typed, Goto, fs
<1>1. CASE UNCHANGED vars
  BY <1>1 DEF vars, WholeInv, Writing
<1>2. ASSUME NEW c \in Cmd, Begin(c) \/ Load(c) \/ Fetch(c) \/ CheckOutput(c)
      PROVE  WholeInv'
  <2>1. UNCHANGED <<name, content, open, crossed>> /\ (troubled => troubled')
    BY <1>2 DEF Begin, Load, Fetch, CheckOutput
  <2>2. \A d \in Cmd : pc[d] = "write" => pc'[d] = "write"
    BY <1>2 DEF Begin, Load, Fetch, CheckOutput, Loaded
  <2> QED
    BY <2>1, <2>2, WholeKept
<1>3. ASSUME NEW c \in Cmd, Remove(c) PROVE WholeInv'
  <2>1. UNCHANGED <<content, open, crossed, troubled>> /\ (\A l \in Libs : name'[l] \in {NoFile, name[l]})
    BY <1>3 DEF Remove, Names
  <2>2. \A d \in Cmd : pc[d] = "write" => pc'[d] = "write"
    BY <1>3 DEF Remove, Loaded
  <2> QED
    BY <2>1, <2>2, WholeKept
<1>4. ASSUME NEW c \in Cmd, Open(c) PROVE WholeInv'
  <2>1. CASE UNCHANGED <<name, content, open, crossed, troubled>> /\ pc' = [pc EXCEPT ![c] = "failed"]
    <3>1. \A d \in Cmd : pc[d] = "write" => pc'[d] = "write"
      BY <1>4, <2>1 DEF Open
    <3> QED
      BY <2>1, <3>1, WholeKept
  <2>2. ASSUME NEW f \in Cmd,
               name' = [name EXCEPT ![arg[c]] = f], open' = [open EXCEPT ![c] = f],
               content' = [content EXCEPT ![f] = "empty"],
               pc' = [pc EXCEPT ![c] = "write"]
        PROVE  WholeInv'
    <3>1. content'[f] = "empty" /\ Writing(f)'
      BY <2>2 DEF Writing
    <3>2. \A g \in Cmd : g # f /\ Writing(g) => Writing(g)'
      BY <1>4, <2>2 DEF Writing, Open
    <3>3. UNCHANGED troubled /\ crossed \subseteq crossed'
      BY <1>4 DEF Open
    <3>4. \A l \in Libs : name'[l] \in {name[l], f}
      BY <2>2 DEF Names
    <3>5. \A g \in Cmd : g # f => content'[g] = content[g]
      BY <2>2
    <3> QED
      BY <3>1, <3>2, <3>3, <3>4, <3>5 DEF WholeInv, Names
  <2>3. arg[c] \in Names
    BY <1>4 DEF Open, TaskInv
  <2>4. Opened(c) \in Cmd
    BY <2>3 DEF Opened
  <2> QED
    BY <1>4, <2>1, <2>2, <2>4 DEF Open
<1>5. ASSUME NEW c \in Cmd, Write(c) PROVE WholeInv'
  <2> SUFFICES ASSUME ~troubled, NEW l \in Libs, name[l] # NoFile
               PROVE  \/ content'[name[l]] \in Whole
                      \/ content'[name[l]] = "mix" /\ name[l] \in crossed
                      \/ content'[name[l]] = "empty" /\ Writing(name[l])'
    BY <1>5 DEF Write, WholeInv
  <2>1. name[l] \in Cmd /\ arg[name[l]] = l
    BY DEF Names, NameInv
  <2>2. CASE open[c] = name[l]
    <3>1. data[c] \in Whole /\ arg[c] \in Libs /\ pc[c] = "write"
      BY <1>5, <2>1, <2>2 DEF Write, OpenInv, DataInv
    <3>2. \E x \in Overwrite(content[name[l]], data[c]) : content'[name[l]] = x
      BY <1>5, <2>1, <2>2 DEF Write
    <3>3. CASE name[l] \in crossed
      <4>1. Overwrite(content[name[l]], data[c]) \subseteq {data[c], "mix"}
        BY <3>1 DEF Overwrite, Whole
      <4> QED
        BY <3>1, <3>2, <3>3, <4>1
    <3>4. CASE name[l] \notin crossed
      <4>1. content[name[l]] \in {"empty", data[c]}
        BY <2>2, <3>1, <3>4 DEF TextInv, SameText
      <4>2. Overwrite(content[name[l]], data[c]) = {data[c]}
        BY <3>1, <4>1 DEF Overwrite
      <4> QED
        BY <3>1, <3>2, <4>2
    <3> QED
      BY <3>3, <3>4
  <2>3. CASE open[c] # name[l]
    <3>1. content'[name[l]] = content[name[l]]
      BY <1>5, <2>1, <2>3 DEF Write
    <3>2. Writing(name[l]) => Writing(name[l])'
      BY <1>5, <2>3 DEF Writing, Write
    <3> QED
      BY <3>1, <3>2 DEF WholeInv
  <2> QED
    BY <2>2, <2>3
<1>6. ASSUME NEW c \in Cmd, Kill(c) PROVE WholeInv'
  <2>1. CASE pc[c] = "write"
    BY <1>6, <2>1 DEF Kill, WholeInv
  <2>2. CASE pc[c] # "write"
    <3>1. UNCHANGED <<name, content, open, crossed, troubled>>
      BY <1>6, <2>2 DEF Kill
    <3>2. \A d \in Cmd : pc[d] = "write" => pc'[d] = "write"
      BY <1>6, <2>2 DEF Kill
    <3> QED
      BY <3>1, <3>2, WholeKept
  <2> QED
    BY <2>1, <2>2
<1> QED
  BY <1>1, <1>2, <1>3, <1>4, <1>5, <1>6 DEF Next

(* A step that touches no file and lets nobody in to write.                *)
LEMMA TextKept ==
  ASSUME TextInv, UNCHANGED <<content, open, crossed>>, troubled => troubled',
         \A d \in Cmd : pc'[d] = "write" =>
           pc[d] = "write" /\ data'[d] = data[d] /\ arg'[d] = arg[d]
  PROVE  TextInv'
BY DEF TextInv, SameText

LEMMA TextNext ==
  ASSUME Typed, NameInv, OpenInv, TaskInv, DataInv, TextInv, [Next]_vars
  PROVE  TextInv'
<1> USE DEF Typed, Goto, fs
<1>1. CASE UNCHANGED vars
  BY <1>1 DEF vars, TextInv, SameText
<1>2. ASSUME NEW c \in Cmd, Begin(c) \/ Load(c) \/ Fetch(c) \/ Remove(c) \/ CheckOutput(c)
      PROVE  TextInv'
  <2>1. UNCHANGED <<content, open, crossed>> /\ (troubled => troubled')
    BY <1>2 DEF Begin, Load, Fetch, Remove, CheckOutput
  <2>2. \A d \in Cmd : pc'[d] = "write" => d # c
    BY <1>2 DEF Begin, Load, Fetch, Remove, CheckOutput, Loaded
  <2>3. \A d \in Cmd : d # c => pc'[d] = pc[d] /\ data'[d] = data[d] /\ arg'[d] = arg[d]
    BY <1>2 DEF Begin, Load, Fetch, Remove, CheckOutput
  <2> QED
    BY <2>1, <2>2, <2>3, TextKept
<1>3. ASSUME NEW c \in Cmd, Open(c) PROVE TextInv'
  <2>1. pc[c] = "open" /\ arg[c] \in Names /\ UNCHANGED <<data, arg, troubled>>
    BY <1>3 DEF Open, TaskInv
  <2>2. CASE UNCHANGED <<content, open, crossed>> /\ pc' = [pc EXCEPT ![c] = "failed"]
    BY <2>1, <2>2, TextKept
  <2>3. ASSUME NEW f \in Cmd, open' = [open EXCEPT ![c] = f],
               content' = [content EXCEPT ![f] = "empty"],
               crossed' = IF Crosses(c, f) THEN crossed \cup {f} ELSE crossed,
               pc' = [pc EXCEPT ![c] = "write"]
        PROVE  TextInv'
    <3> SUFFICES ASSUME ~troubled, NEW d \in Cmd, pc'[d] = "write", arg[d] \in Libs,
                        open'[d] \notin crossed'
                 PROVE  SameText(d)'
      BY <2>1 DEF TextInv
    <3>1. content'[f] = "empty" /\ open'[c] = f
      BY <2>3
    <3>2. \A e \in Cmd : e # c => pc'[e] = pc[e] /\ open'[e] = open[e]
      BY <2>3
    <3>3. CASE open'[d] = f
      <4>1. ~Crosses(c, f)
        BY <2>3, <3>3
      <4>2. \A e \in Cmd : pc'[e] = "write" /\ open'[e] = f => data[e] = data[c]
        BY <3>2, <4>1 DEF Crosses
      <4> QED
        BY <2>1, <3>1, <3>3, <4>2 DEF SameText
    <3>4. CASE open'[d] # f
      <4>1. d # c /\ SameText(d)
        BY <2>3, <3>1, <3>2, <3>4 DEF TextInv
      <4>2. open[d] = open'[d] /\ content'[open[d]] = content[open[d]]
        BY <2>3, <3>2, <3>4, <4>1 DEF OpenInv
      <4> QED
        BY <2>1, <3>1, <3>2, <3>4, <4>1, <4>2 DEF SameText
    <3> QED
      BY <3>3, <3>4
  <2>4. Opened(c) \in Cmd
    BY <2>1 DEF Opened
  <2> QED
    BY <1>3, <2>2, <2>3, <2>4 DEF Open
<1>4. ASSUME NEW c \in Cmd, Write(c) PROVE TextInv'
  <2>1. /\ pc[c] = "write" /\ pc'[c] # "write"
        /\ UNCHANGED <<arg, data, open, crossed, troubled>>
        /\ \A d \in Cmd : d # c => pc'[d] = pc[d]
    BY <1>4 DEF Write
  <2> SUFFICES ASSUME ~troubled, NEW d \in Cmd, pc'[d] = "write", arg[d] \in Libs,
                      open[d] \notin crossed
               PROVE  SameText(d)'
    BY <2>1 DEF TextInv
  <2>2. d # c /\ SameText(d) /\ open[d] \in Cmd
    BY <2>1 DEF TextInv, OpenInv
  <2>3. CASE open[c] = open[d]
    <3>1. data[c] = data[d] /\ content[open[c]] \in {"empty", data[c]} /\ data[c] \in Whole
      BY <2>1, <2>2, <2>3 DEF SameText, DataInv
    <3>2. Overwrite(content[open[c]], data[c]) = {data[c]}
      BY <3>1 DEF Overwrite
    <3>3. content'[open[c]] = data[c]
      BY <1>4, <2>2, <2>3, <3>2 DEF Write
    <3> QED
      BY <2>1, <2>2, <2>3, <3>1, <3>3 DEF SameText
  <2>4. CASE open[c] # open[d]
    <3>1. content'[open[d]] = content[open[d]]
      BY <1>4, <2>2, <2>4 DEF Write
    <3> QED
      BY <2>1, <2>2, <3>1 DEF SameText
  <2> QED
    BY <2>3, <2>4
<1>5. ASSUME NEW c \in Cmd, Kill(c) PROVE TextInv'
  <2>1. CASE pc[c] = "write"
    BY <1>5, <2>1 DEF Kill, TextInv
  <2>2. CASE pc[c] # "write"
    <3>1. UNCHANGED <<content, open, crossed, troubled, data, arg>>
      BY <1>5, <2>2 DEF Kill
    <3>2. \A d \in Cmd : pc'[d] = "write" => pc[d] = "write"
      BY <1>5, <2>2 DEF Kill
    <3> QED
      BY <3>1, <3>2, TextKept
  <2> QED
    BY <2>1, <2>2
<1> QED
  BY <1>1, <1>2, <1>3, <1>4, <1>5 DEF Next

LEMMA CrossedNext ==
  ASSUME Typed, NameInv, TaskInv, CrossedInv, [Next]_vars
  PROVE  CrossedInv'
<1> USE DEF Typed, Goto, fs, CrossedInv, Begun
<1>1. CASE UNCHANGED vars
  BY <1>1 DEF vars
<1>2. ASSUME NEW c \in Cmd,
             Begin(c) \/ Load(c) \/ Fetch(c) \/ Remove(c) \/ CheckOutput(c) \/ Write(c) \/ Kill(c)
      PROVE  CrossedInv'
  <2>1. UNCHANGED crossed
    BY <1>2 DEF Begin, Load, Fetch, Remove, CheckOutput, Write, Kill
  <2>2. \A d \in Cmd : pc[d] # "new" => pc'[d] # "new"
    BY <1>2 DEF Begin, Load, Fetch, Remove, CheckOutput, Write, Kill
  <2> QED
    BY <2>1, <2>2
<1>3. ASSUME NEW c \in Cmd, Open(c) PROVE CrossedInv'
  <2>1. arg[c] \in Names /\ pc[c] = "open"
    BY <1>3 DEF Open, TaskInv
  <2>2. Opened(c) \in Cmd /\ Begun(Opened(c))
    BY <2>1 DEF Opened, NameInv
  <2>3. crossed' \subseteq crossed \cup {Opened(c)}
    BY <1>3 DEF Open
  <2>4. \A d \in Cmd : pc[d] # "new" => pc'[d] # "new"
    BY <1>3 DEF Open
  <2> QED
    BY <2>2, <2>3, <2>4
<1> QED
  BY <1>1, <1>2, <1>3 DEF Next

-----------------------------------------------------------------------------
LEMMA InvInit == Init => IInv
<1>1. Init => NameInv /\ OpenInv /\ TaskInv /\ DataInv /\ WholeInv /\ TextInv /\ CrossedInv
  BY DEF Init, NameInv, OpenInv, TaskInv, DataInv, WholeInv, TextInv, CrossedInv, Names
<1> QED
  BY <1>1, TypeInit DEF IInv

LEMMA InvNext == IInv /\ [Next]_vars => IInv'
BY TypeNext, TaskNext, FileNext, DataNext, WholeNext, TextNext, CrossedNext, LibraryAssumption DEF IInv

(* Every variable has its type, for any number of commands, libraries and  *)
(* exported files (sys.lua:59-95, vm.lua:202-224).                         *)
THEOREM TypeCorrect == Spec => []TypeOK
<1>1. IInv => TypeOK
  BY CmdFacts DEF IInv, TypeOK, OpenInv
<1> QED
  BY <1>1, InvInit, InvNext, PTL DEF Spec

(* Whatever commands overlap, the libraries are whole when all are over,   *)
(* unless one was killed in writing or a server sent what is no library;   *)
(* only where two commands had different texts to write to a library, and  *)
(* wrote at the same time, it may be left with some of both                *)
(* (sys.lua:75-81, 88-95).                                                 *)
THEOREM AtRestCorrect == Spec => []AtRest
<1>1. IInv => AtRest
  BY DEF IInv, WholeInv, AtRest, Writing, Active, Over
<1> QED
  BY <1>1, InvInit, InvNext, PTL DEF Spec
-----------------------------------------------------------------------------
(* Commands that nobody disturbs.                                          *)

(* What a command was given stays with it, and it comes only where its     *)
(* task leads.                                                             *)
GivenInv ==
  \A c \in Cmd :
    /\ Begun(c) => \/ op[c] \in {"update", "remove"} /\ arg[c] \in Libs
                   \/ op[c] = "export" /\ arg[c] \in Outs
    /\ pc[c] \in {"open", "write"} => op[c] \in {"update", "export"}
    /\ pc[c] = "exported" => op[c] = "export"

(* Commands are given one after the other; one that is not overlapped      *)
(* found nobody at work, and while it works nobody else does.              *)
AloneInv ==
  \A c, d \in Cmd :
    /\ d < c /\ Begun(c) => Begun(d)
    /\ d < c /\ Begun(c) /\ ~overlapped[c] => d \notin Active
    /\ c \in Active /\ d \in Active /\ c # d => overlapped[c]

(* What is still to be loaded is there, and what is open is the file the   *)
(* name leads to, and empty.                                               *)
UntouchedInv ==
  \A c \in Cmd : ~overlapped[c] =>
    /\ pc[c] = "load" => \A l \in todo[c] : name[l] # NoFile
    /\ pc[c] = "write" => name[arg[c]] = open[c] /\ content[open[c]] = "empty"

(* An exported file stays: of two commands that found none, each was there *)
(* when the other one was.                                                 *)
Ready(c) == op[c] = "export" /\ pc[c] \in {"open", "write", "exported"}

ExportInv ==
  \A c \in Cmd :
    /\ op[c] = "export" /\ pc[c] \in {"write", "exported"} => name[arg[c]] # NoFile
    /\ \A d \in Cmd :
         c # d /\ Ready(c) /\ Ready(d) /\ arg[c] = arg[d] => overlapped[c]

(* What was updated stays until a command that has begun is given it.      *)
AckInv ==
  \A c \in Cmd :
    pc[c] = "updated" /\ ~overlapped[c] /\ (\A d \in Cmd : d > c /\ Begun(d) => arg[d] # arg[c]) =>
      name[arg[c]] # NoFile /\ content[name[arg[c]]] = data[c]

UInv == GivenInv /\ AloneInv /\ UntouchedInv /\ ExportInv /\ AckInv /\ StartsAlone

LEMMA GivenNext ==
  ASSUME Typed, GivenInv, [Next]_vars
  PROVE  GivenInv'
<1> USE DEF GivenInv, Begun, Typed, Goto, fs
<1>1. CASE UNCHANGED vars
  BY <1>1 DEF vars
<1>2. ASSUME NEW c \in Cmd, Begin(c) PROVE GivenInv'
  BY <1>2 DEF Begin
<1>3. ASSUME NEW c \in Cmd, Load(c) \/ Fetch(c) \/ Remove(c) PROVE GivenInv'
  BY <1>3 DEF Load, Fetch, Remove, Loaded
<1>4. ASSUME NEW c \in Cmd, CheckOutput(c) PROVE GivenInv'
  BY <1>4 DEF CheckOutput, Loaded
<1>5. ASSUME NEW c \in Cmd, Open(c) \/ Kill(c) PROVE GivenInv'
  BY <1>5 DEF Open, Kill, Active, Over
<1>6. ASSUME NEW c \in Cmd, Write(c) PROVE GivenInv'
  BY <1>6 DEF Write
<1> QED BY <1>1, <1>2, <1>3, <1>4, <1>5, <1>6 DEF Next

(* A command that begins finds others at work, or it is the only one.      *)
LEMMA BeginAlone ==
  ASSUME Typed, AloneInv, NEW c \in Cmd, Begin(c)
  PROVE  AloneInv'
<1>1. pc[c] = "new" /\ (\A d \in 1..(c - 1) : pc[d] # "new") /\ pc' = [pc EXCEPT ![c] = "load"]
  BY DEF Begin, Goto
<1>2. overlapped' = [d \in Cmd |-> overlapped[d] \/ (Active # {} /\ d \in Active \cup {c})]
  BY DEF Begin
<1>3. \A d \in Cmd : Begun(d)' <=> Begun(d) \/ d = c
  BY <1>1 DEF Typed, Begun
<1>4. Active' = Active \cup {c}
  BY <1>1 DEF Typed, Active, Over
<1>5. c \notin Active
  BY <1>1 DEF Active, Over
<1>6. \A d \in Cmd : d < c => Begun(d)
  BY <1>1 DEF Begun, Cmd
<1>7. ASSUME NEW e \in Cmd, NEW d \in Cmd, d < e, Begun(e)'
      PROVE  Begun(d)' /\ (~overlapped'[e] => d \notin Active')
  <2>1. CASE e = c
    <3>1. ~overlapped'[c] => Active = {}
      BY <1>2
    <3>2. d # c
      BY <1>7, <2>1 DEF Cmd
    <3> QED BY <1>3, <1>4, <1>6, <1>7, <2>1, <3>1, <3>2
  <2>2. CASE e # c
    <3>1. Begun(e) /\ Begun(d)
      BY <1>3, <1>7, <2>2 DEF AloneInv
    <3>2. d # c
      BY <1>1, <3>1 DEF Begun
    <3>3. ~overlapped'[e] => ~overlapped[e]
      BY <1>2
    <3> QED BY <1>3, <1>4, <1>7, <3>1, <3>2, <3>3 DEF AloneInv
  <2> QED BY <2>1, <2>2
<1>8. ASSUME NEW e \in Cmd, NEW d \in Cmd, e \in Active', d \in Active', e # d
      PROVE  overlapped'[e]
  <2>1. Active # {} /\ e \in Active \cup {c}
    BY <1>4, <1>8
  <2> QED BY <1>2, <2>1
<1> QED BY <1>7, <1>8 DEF AloneInv

(* The other steps are those of a command at work.                         *)
Step(c) ==
  Load(c) \/ Fetch(c) \/ Remove(c) \/ CheckOutput(c) \/ Open(c) \/ Write(c) \/ Kill(c)

LEMMA StepPlace ==
  ASSUME Typed, NEW c \in Cmd, Step(c)
  PROVE  /\ c \in Active /\ UNCHANGED <<op, arg, overlapped>>
         /\ \A d \in Cmd : d # c => pc'[d] = pc[d] /\ todo'[d] = todo[d] /\ data'[d] = data[d] /\ open'[d] = open[d]
         /\ \A d \in Cmd : Begun(d)' <=> Begun(d)
         /\ Active' \subseteq Active /\ crossed \subseteq crossed'
         /\ pc'[c] # "load" \/ Load(c)
         /\ troubled => troubled'
<1> USE DEF Typed, Goto, fs, Active, Over, Begun
<1>1. CASE Load(c)
  BY <1>1, ZenonT(40) DEF Load
<1>2. CASE Fetch(c)
  BY <1>2 DEF Fetch, Loaded
<1>3. CASE Remove(c)
  BY <1>3 DEF Remove, Loaded
<1>4. CASE CheckOutput(c)
  BY <1>4 DEF CheckOutput, Loaded
<1>5. CASE Open(c)
  BY <1>5 DEF Open
<1>6. CASE Write(c)
  BY <1>6 DEF Write
<1>7. CASE Kill(c)
  BY <1>7 DEF Kill
<1> QED BY <1>1, <1>2, <1>3, <1>4, <1>5, <1>6, <1>7 DEF Step

LEMMA StepAlone ==
  ASSUME Typed, AloneInv, NEW c \in Cmd, Step(c)
  PROVE  AloneInv'
BY StepPlace DEF AloneInv

LEMMA UntouchedBegin ==
  ASSUME Typed, UntouchedInv, NEW c \in Cmd, Begin(c)
  PROVE  UntouchedInv'
<1>1. /\ pc[c] = "new" /\ pc' = [pc EXCEPT ![c] = "load"] /\ UNCHANGED <<name, content, open>>
      /\ todo' = [todo EXCEPT ![c] = {l \in Libs : name[l] # NoFile}]
  BY DEF Begin, Goto, fs
<1>2. \A d \in Cmd : d # c => arg'[d] = arg[d] /\ pc'[d] = pc[d] /\ todo'[d] = todo[d]
  BY DEF Begin, Goto, Typed
<1>3. \A d \in Cmd : ~overlapped'[d] => ~overlapped[d]
  BY DEF Begin
<1>4. pc'[c] = "load" /\ todo'[c] = {l \in Libs : name[l] # NoFile}
  BY <1>1 DEF Typed
<1> QED BY <1>1, <1>2, <1>3, <1>4 DEF UntouchedInv

(* A command that is not overlapped is only touched by itself.             *)
LEMMA UntouchedStep ==
  ASSUME Typed, TaskInv, OpenInv, AloneInv, UntouchedInv, NEW c \in Cmd, Step(c)
  PROVE  UntouchedInv'
<1> DEFINE Untouched(d) ==
      /\ pc[d] = "load" => \A l \in todo[d] : name[l] # NoFile
      /\ pc[d] = "write" => name[arg[d]] = open[d] /\ content[open[d]] = "empty"
<1>1. ASSUME NEW d \in Cmd, d # c, ~overlapped'[d]
      PROVE  pc'[d] \notin {"load", "write"}
  <2>1. d \notin Active
    BY <1>1, StepPlace DEF AloneInv
  <2> QED BY <1>1, <2>1, StepPlace DEF Active, Over, Typed
<1>2. ASSUME ~overlapped'[c] PROVE Untouched(c)'
  <2>1. ~overlapped[c]
    BY <1>2, StepPlace
  <2>2. CASE Load(c)
    <3>1. /\ \A l \in todo[c] : name[l] # NoFile
          /\ name' = name /\ todo'[c] \subseteq todo[c] /\ pc'[c] \in {"load", "aborted"}
      BY <2>1, <2>2 DEF Load, UntouchedInv, Typed, fs, Goto
    <3> QED BY <3>1
  <2>3. CASE Open(c)
    <3>1. CASE pc' = [pc EXCEPT ![c] = "failed"]
      BY <3>1 DEF Typed
    <3>2. ASSUME NEW f, f \in Cmd,
                 name' = [name EXCEPT ![arg[c]] = f], open' = [open EXCEPT ![c] = f],
                 content' = [content EXCEPT ![f] = "empty"], pc' = [pc EXCEPT ![c] = "write"]
          PROVE  Untouched(c)'
      <4>1. arg' = arg /\ arg[c] \in Names
        BY <2>3 DEF Open, TaskInv
      <4>2. name'[arg[c]] = f /\ open'[c] = f /\ content'[f] = "empty" /\ pc'[c] = "write"
        BY <3>2, <4>1 DEF Typed
      <4> QED BY <4>1, <4>2
    <3>3. arg[c] \in Names
      BY <2>3 DEF Open, TaskInv
    <3>4. Opened(c) \in Cmd
      BY <3>3 DEF Typed, Opened
    <3> QED BY <2>3, <3>1, <3>2, <3>4 DEF Open, Goto
  <2>4. CASE Fetch(c) \/ Remove(c) \/ CheckOutput(c) \/ Write(c) \/ Kill(c)
    BY <2>4 DEF Fetch, Remove, CheckOutput, Write, Kill, Goto, Typed
  <2> QED BY <2>2, <2>3, <2>4 DEF Step
<1> QED BY <1>1, <1>2 DEF UntouchedInv

-----------------------------------------------------------------------------
(* Exports.                                                                *)

(* Steps that make no command ready and take no exported file away.        *)
LEMMA ExportKept ==
  ASSUME ExportInv, \A d \in Cmd : overlapped[d] => overlapped'[d],
         \A d \in Cmd : Ready(d)' => Ready(d) /\ arg'[d] = arg[d],
         \A d \in Cmd : op'[d] = "export" /\ pc'[d] \in {"write", "exported"} => name'[arg'[d]] # NoFile
  PROVE  ExportInv'
BY DEF ExportInv

LEMMA ExportBegin ==
  ASSUME Typed, ExportInv, NEW c \in Cmd, Begin(c)
  PROVE  ExportInv'
<1>1. pc' = [pc EXCEPT ![c] = "load"] /\ UNCHANGED name
  BY DEF Begin, Goto, fs
<1>2. \A d \in Cmd : d # c => op'[d] = op[d] /\ arg'[d] = arg[d] /\ pc'[d] = pc[d]
  BY DEF Begin, Goto, Typed
<1>3. pc'[c] = "load" /\ \A d \in Cmd : overlapped[d] => overlapped'[d]
  BY <1>1 DEF Begin, Typed
<1> QED BY <1>1, <1>2, <1>3, ExportKept DEF ExportInv, Ready

LEMMA ExportStep ==
  ASSUME Typed, TaskInv, GivenInv, AloneInv, ExportInv, NEW c \in Cmd, Step(c)
  PROVE  ExportInv'
<1> USE CmdFacts
<1>1. /\ UNCHANGED <<op, arg, overlapped>> /\ c \in Active
      /\ \A d \in Cmd : d # c => pc'[d] = pc[d]
  BY StepPlace
<1>2. CASE Load(c) \/ Fetch(c) \/ Kill(c)
  <2>1. UNCHANGED name /\ (Ready(c)' => Ready(c))
        /\ (op[c] = "export" => pc'[c] \notin {"write", "exported"})
    BY <1>1, <1>2 DEF Load, Fetch, Kill, Loaded, Goto, Typed, fs, Ready
  <2>2. \A d \in Cmd : Ready(d)' => Ready(d)
    BY <1>1, <2>1 DEF Ready
  <2>3. \A d \in Cmd : op'[d] = "export" /\ pc'[d] \in {"write", "exported"} => name'[arg'[d]] # NoFile
    BY <1>1, <2>1 DEF ExportInv
  <2> QED BY <1>1, <2>2, <2>3, ExportKept
<1>3. CASE Remove(c)
  <2>1. arg[c] \in Libs /\ pc'[c] \in {"missing", "removed"} /\ name' = [name EXCEPT ![arg[c]] = NoFile]
    BY <1>3 DEF Remove, Loaded, GivenInv, Begun, Goto, Typed
  <2>2. \A d \in Cmd : Ready(d)' => Ready(d)
    BY <1>1, <2>1 DEF Ready
  <2>3. ASSUME NEW d \in Cmd, op'[d] = "export", pc'[d] \in {"write", "exported"}
        PROVE  name'[arg'[d]] # NoFile
    <3>1. d # c /\ op[d] = "export" /\ pc[d] \in {"write", "exported"}
      BY <1>1, <2>1, <2>3
    <3>2. arg[d] \in Outs /\ name[arg[d]] # NoFile
      BY <3>1 DEF GivenInv, Begun, ExportInv
    <3>3. arg[d] # arg[c]
      BY <2>1, <3>2, LibraryAssumption
    <3> QED BY <1>1, <2>1, <3>2, <3>3 DEF Typed, Names
  <2> QED BY <1>1, <2>2, <2>3, ExportKept
<1>4. CASE CheckOutput(c)
  <2>1. UNCHANGED name /\ pc'[c] \in {"failed", "missing", "kept", "open"} /\ pc[c] = "load"
    BY <1>4 DEF CheckOutput, Loaded, Goto, Typed, fs
  <2>2. pc'[c] = "open" => name[arg[c]] = NoFile
    BY <1>4 DEF CheckOutput, Goto, Typed
  <2>3. \A d \in Cmd : op'[d] = "export" /\ pc'[d] \in {"write", "exported"} => name'[arg'[d]] # NoFile
    BY <1>1, <2>1 DEF ExportInv
  <2>4. ASSUME NEW d \in Cmd, d # c, Ready(d), Ready(c)', arg[c] = arg[d]
        PROVE  overlapped[c] /\ overlapped[d]
    <3>1. pc[d] # "exported"
      BY <1>1, <2>1, <2>2, <2>4 DEF Ready, ExportInv
    <3>2. d \in Active
      BY <2>4, <3>1 DEF Ready, Active, Over
    <3> QED BY <1>1, <2>4, <3>2 DEF AloneInv
  <2>5. \A d \in Cmd : d # c => (Ready(d)' <=> Ready(d))
    BY <1>1 DEF Ready
  <2>6. ASSUME NEW e \in Cmd, NEW d \in Cmd, e # d, Ready(e)', Ready(d)', arg'[e] = arg'[d]
        PROVE  overlapped'[e]
    <3>1. CASE e = c
      BY <1>1, <2>4, <2>5, <2>6, <3>1
    <3>2. CASE d = c
      BY <1>1, <2>4, <2>5, <2>6, <3>2
    <3>3. CASE e # c /\ d # c
      BY <1>1, <2>5, <2>6, <3>3 DEF ExportInv
    <3> QED BY <3>1, <3>2, <3>3
  <2> QED BY <2>3, <2>6 DEF ExportInv
<1>5. CASE Open(c)
  <2>0. pc[c] = "open" /\ arg[c] \in Names
    BY <1>5 DEF Open, TaskInv
  <2>1. CASE UNCHANGED name /\ pc' = [pc EXCEPT ![c] = "failed"]
    <3>1. pc'[c] = "failed"
      BY <2>1 DEF Typed
    <3>2. \A d \in Cmd : Ready(d)' => Ready(d)
      BY <1>1, <3>1 DEF Ready
    <3>3. \A d \in Cmd : op'[d] = "export" /\ pc'[d] \in {"write", "exported"} => name'[arg'[d]] # NoFile
      BY <1>1, <2>1, <3>1 DEF ExportInv
    <3> QED BY <1>1, <3>2, <3>3, ExportKept
  <2>2. ASSUME NEW f, f \in Cmd, name' = [name EXCEPT ![arg[c]] = f], pc' = [pc EXCEPT ![c] = "write"]
        PROVE  ExportInv'
    <3>1. pc'[c] = "write" /\ \A d \in Cmd : Ready(d)' => Ready(d)
      BY <1>1, <2>0, <2>2 DEF Ready, Typed
    <3>2. \A n \in Names : name'[n] # name[n] => name'[n] = f
      BY <2>2 DEF Typed
    <3>3. name'[arg[c]] = f
      BY <2>0, <2>2 DEF Typed
    <3>4. ASSUME NEW d \in Cmd, op'[d] = "export", pc'[d] \in {"write", "exported"}
          PROVE  name'[arg'[d]] # NoFile
      <4>1. CASE d = c
        BY <1>1, <2>2, <3>3, <4>1
      <4>2. CASE d # c
        <5>1. op[d] = "export" /\ pc[d] \in {"write", "exported"} /\ name[arg[d]] # NoFile
          BY <1>1, <3>4, <4>2 DEF ExportInv
        <5>2. arg[d] \in Names
          BY <5>1 DEF GivenInv, Begun, Names
        <5> QED BY <1>1, <2>2, <3>2, <5>1, <5>2
      <4> QED BY <4>1, <4>2
    <3> QED BY <1>1, <3>1, <3>4, ExportKept
  <2>3. Opened(c) \in Cmd
    BY <2>0 DEF Typed, Opened
  <2> QED BY <1>5, <2>1, <2>2, <2>3 DEF Open, Goto, fs
<1>6. CASE Write(c)
  <2>1. UNCHANGED name /\ pc[c] = "write" /\ pc'[c] \in {"updated", "exported"}
    BY <1>6 DEF Write, Goto, Typed
  <2>2. \A d \in Cmd : Ready(d)' => Ready(d)
    BY <1>1, <2>1 DEF Ready
  <2>3. \A d \in Cmd : op'[d] = "export" /\ pc'[d] \in {"write", "exported"} => name'[arg'[d]] # NoFile
    BY <1>1, <2>1 DEF ExportInv
  <2> QED BY <1>1, <2>2, <2>3, ExportKept
<1> QED BY <1>2, <1>3, <1>4, <1>5, <1>6 DEF Step

-----------------------------------------------------------------------------
(* Updates, and starts.                                                    *)

LEMMA AckBegin ==
  ASSUME Typed, AckInv, NEW c \in Cmd, Begin(c)
  PROVE  AckInv'
<1>1. pc[c] = "new" /\ pc' = [pc EXCEPT ![c] = "load"] /\ UNCHANGED <<name, content, data>>
  BY DEF Begin, Goto, fs
<1>2. \A d \in Cmd : d # c => arg'[d] = arg[d] /\ pc'[d] = pc[d]
  BY DEF Begin, Goto, Typed
<1>3. pc'[c] = "load" /\ \A d \in Cmd : ~overlapped'[d] => ~overlapped[d]
  BY <1>1 DEF Begin, Typed
<1>4. ASSUME NEW d \in Cmd, pc'[d] = "updated", ~overlapped'[d],
             \A e \in Cmd : e > d /\ Begun(e)' => arg'[e] # arg'[d]
      PROVE  name'[arg'[d]] # NoFile /\ content'[name'[arg'[d]]] = data'[d]
  <2>1. d # c /\ pc[d] = "updated" /\ ~overlapped[d]
    BY <1>2, <1>3, <1>4
  <2>2. ASSUME NEW e \in Cmd, e > d, Begun(e) PROVE arg[e] # arg[d]
    <3>1. e # c /\ Begun(e)'
      BY <1>1, <1>2, <2>2 DEF Begun
    <3> QED BY <1>2, <1>4, <2>1, <2>2, <3>1
  <2> QED BY <1>1, <1>2, <2>1, <2>2 DEF AckInv
<1> QED BY <1>4 DEF AckInv

(* What a command does to the files is done to those of its own name.      *)
LEMMA FsStep ==
  ASSUME Typed, TaskInv, NameInv, OpenInv, NEW c \in Cmd, Step(c)
  PROVE  /\ \A n \in Names : n # arg[c] => name'[n] = name[n]
         /\ \A f \in Cmd : content'[f] # content[f] => arg[f] = arg[c]
<1>1. CASE Load(c) \/ Fetch(c) \/ Remove(c) \/ CheckOutput(c)
  BY <1>1 DEF Load, Fetch, Remove, CheckOutput, Typed, fs
<1>2. CASE Open(c)
  <2>1. CASE UNCHANGED fs
    BY <2>1 DEF fs
  <2>2. ASSUME NEW f, f \in Cmd, arg[f] = arg[c],
               name' = [name EXCEPT ![arg[c]] = f], content' = [content EXCEPT ![f] = "empty"]
        PROVE  /\ \A n \in Names : n # arg[c] => name'[n] = name[n]
               /\ \A g \in Cmd : content'[g] # content[g] => arg[g] = arg[c]
    BY <2>2 DEF Typed
  <2>3. arg[c] \in Names
    BY <1>2 DEF Open, TaskInv
  <2>4. Opened(c) \in Cmd /\ arg[Opened(c)] = arg[c]
    BY <2>3 DEF NameInv, Typed, Opened
  <2> QED BY <1>2, <2>1, <2>2, <2>4 DEF Open
<1>3. CASE Write(c) \/ Kill(c)
  <2>1. UNCHANGED name
    BY <1>3 DEF Write, Kill
  <2>2. content' = content \/ (pc[c] = "write" /\ \E x : content' = [content EXCEPT ![open[c]] = x])
    BY <1>3 DEF Write, Kill
  <2>3. pc[c] = "write" => open[c] \in Cmd /\ arg[open[c]] = arg[c]
    BY DEF OpenInv
  <2> QED BY <2>1, <2>2, <2>3 DEF Typed
<1> QED BY <1>1, <1>2, <1>3 DEF Step

LEMMA AckStep ==
  ASSUME IInv, AloneInv, GivenInv, UntouchedInv, AckInv, NEW c \in Cmd, Step(c)
  PROVE  AckInv'
<1> USE DEF IInv
<1>1. /\ UNCHANGED <<op, arg, overlapped>> /\ c \in Active
      /\ \A d \in Cmd : d # c => pc'[d] = pc[d] /\ data'[d] = data[d]
      /\ \A d \in Cmd : Begun(d)' <=> Begun(d)
  BY StepPlace
<1> SUFFICES ASSUME NEW d \in Cmd, pc'[d] = "updated", ~overlapped[d],
                    \A e \in Cmd : e > d /\ Begun(e) => arg[e] # arg[d]
             PROVE  name'[arg[d]] # NoFile /\ content'[name'[arg[d]]] = data'[d]
  BY <1>1 DEF AckInv
<1>2. CASE d = c
  <2>1. Write(c)
    BY <1>2 DEF Step, Load, Fetch, Remove, CheckOutput, Open, Kill, Goto, Typed
  <2>2. /\ pc[c] = "write" /\ UNCHANGED <<name, data>>
        /\ \E x \in Overwrite(content[open[c]], data[c]) : content' = [content EXCEPT ![open[c]] = x]
    BY <2>1 DEF Write
  <2>3. open[c] \in Cmd /\ name[arg[c]] = open[c] /\ content[open[c]] = "empty"
    BY <1>2, <2>2 DEF UntouchedInv, OpenInv
  <2>4. content'[open[c]] = data[c]
    BY <2>2, <2>3 DEF Overwrite, Typed
  <2> QED BY <1>2, <2>2, <2>3, <2>4, CmdFacts
<1>3. CASE d # c
  <2>1. pc[d] = "updated" /\ data'[d] = data[d]
    BY <1>1, <1>3
  <2>2. name[arg[d]] # NoFile /\ content[name[arg[d]]] = data[d]
    BY <2>1 DEF AckInv
  <2>3. ~(c < d)
    BY <1>1, <2>1 DEF AloneInv, Begun
  <2>4. c > d
    BY <1>3, <2>3 DEF Cmd
  <2>5. arg[c] # arg[d]
    BY <1>1, <2>4 DEF Active, Over, Begun
  <2>6. arg[d] \in Names
    BY <2>1 DEF GivenInv, Begun, Names
  <2>7. name'[arg[d]] = name[arg[d]] /\ name[arg[d]] \in Cmd /\ arg[name[arg[d]]] = arg[d]
    BY <2>2, <2>5, <2>6, FsStep DEF NameInv, Typed
  <2>8. content'[name[arg[d]]] = content[name[arg[d]]]
    BY <2>5, <2>7, FsStep
  <2> QED BY <2>1, <2>2, <2>7, <2>8
<1> QED BY <1>2, <1>3

LEMMA StartsStep ==
  ASSUME IInv, AloneInv, UntouchedInv, StartsAlone, NEW c \in Cmd, Step(c)
  PROVE  StartsAlone'
<1> USE DEF IInv
<1>1. /\ UNCHANGED overlapped /\ (troubled => troubled') /\ c \in Active
      /\ \A d \in Cmd : d # c => pc'[d] = pc[d]
  BY StepPlace
<1>2. ASSUME pc'[c] = "aborted", ~overlapped[c], ~troubled PROVE \E f \in crossed : arg[f] \in Libs
  <2>1. Load(c)
    BY <1>2 DEF Step, Fetch, Remove, CheckOutput, Open, Write, Kill, Goto, Typed
  <2>2. pc[c] = "load"
    BY <2>1 DEF Load
  <2>3. PICK l \in todo[c] : ~Sound(l)
    BY <1>2, <2>1, <2>2 DEF Load, Goto, Typed
  <2>4. l \in Libs /\ name[l] # NoFile
    BY <1>2, <2>2, <2>3 DEF UntouchedInv, Typed
  <2>5. ~Writing(name[l])
    <3> SUFFICES ASSUME NEW d \in Cmd, pc[d] = "write" PROVE FALSE
      BY DEF Writing
    <3>1. d \in Active /\ d # c
      BY <2>2 DEF Active, Over
    <3> QED BY <1>1, <1>2, <3>1 DEF AloneInv
  <2>6. content[name[l]] = "mix" /\ name[l] \in crossed
    BY <1>2, <2>3, <2>4, <2>5 DEF WholeInv, Sound
  <2>7. arg[name[l]] = l
    BY <2>4 DEF NameInv, Names
  <2> QED BY <2>4, <2>6, <2>7
<1>3. UNCHANGED arg /\ crossed \subseteq crossed'
  BY StepPlace
<1> QED BY <1>1, <1>2, <1>3 DEF StartsAlone

LEMMA UInvInit == Init => UInv
<1> SUFFICES ASSUME Init PROVE UInv
  OBVIOUS
<1>1. Active = {} /\ \A c \in Cmd : pc[c] = "new"
  BY DEF Init, Active, Over
<1> QED BY <1>1 DEF UInv, GivenInv, AloneInv, UntouchedInv, ExportInv, Ready, AckInv, StartsAlone, Begun

LEMMA UInvNext == IInv /\ UInv /\ [Next]_vars => UInv'
<1> SUFFICES ASSUME IInv, UInv, [Next]_vars PROVE UInv'
  OBVIOUS
<1> USE DEF IInv, UInv
<1>1. CASE UNCHANGED vars
  BY <1>1 DEF vars, GivenInv, AloneInv, UntouchedInv, ExportInv, Ready, AckInv, StartsAlone, Begun, Active
<1>2. GivenInv'
  BY GivenNext
<1>3. ASSUME NEW c \in Cmd, Begin(c) PROVE UInv'
  <2>1. StartsAlone'
    <3>1. pc[c] = "new" /\ pc' = [pc EXCEPT ![c] = "load"] /\ UNCHANGED <<crossed, troubled>>
      BY <1>3 DEF Begin, Goto
    <3>2. \A d \in Cmd : d # c => arg'[d] = arg[d] /\ pc'[d] = pc[d]
      BY <1>3 DEF Begin, Goto, Typed
    <3>3. \A d \in Cmd : overlapped[d] => overlapped'[d]
      BY <1>3 DEF Begin
    <3>4. c \notin crossed /\ crossed \subseteq Cmd /\ pc'[c] = "load"
      BY <3>1 DEF CrossedInv, Begun, Typed
    <3> QED BY <3>1, <3>2, <3>3, <3>4 DEF StartsAlone
  <2> QED BY <1>2, <1>3, <2>1, BeginAlone, UntouchedBegin, ExportBegin, AckBegin
<1>4. ASSUME NEW c \in Cmd, Step(c) PROVE UInv'
  BY <1>2, <1>4, StepAlone, UntouchedStep, ExportStep, AckStep, StartsStep
<1> QED BY <1>1, <1>3, <1>4 DEF Next, Step

(* A command that nobody disturbs does what it was given to do, for any    *)
(* number of commands, libraries and exported files: it is not ended by    *)
(* what others left (load.lua:45-58), what it said was updated is there    *)
(* (sys.lua:75-81), and it exports to no file that was exported before     *)
(* (vm.lua:215-222).                                                       *)
THEOREM UndisturbedCorrect == Spec => []Undisturbed
<1>1. IInv /\ UInv => Undisturbed
  <2> SUFFICES ASSUME IInv, UInv PROVE Undisturbed
    OBVIOUS
  <2>1. TypeOK
    BY CmdFacts DEF IInv, TypeOK, OpenInv
  <2>2. Acknowledged
    <3> SUFFICES ASSUME NEW c \in Cmd, pc[c] = "updated", ~overlapped[c],
                        \A d \in Cmd : d > c => arg[d] # arg[c]
                 PROVE  name[arg[c]] # NoFile /\ content[name[arg[c]]] = data[c]
      BY DEF Acknowledged
    <3> QED BY DEF UInv, AckInv
  <2>3. ExportOnce
    <3> SUFFICES ASSUME NEW c \in Cmd, NEW d \in Cmd, c # d, pc[c] = "exported", pc[d] = "exported",
                        arg[c] = arg[d]
                 PROVE  overlapped[c] /\ overlapped[d]
      BY DEF ExportOnce
    <3>1. Ready(c) /\ Ready(d)
      BY DEF UInv, GivenInv, Ready
    <3> QED BY <3>1 DEF UInv, ExportInv
  <2> QED BY <2>1, <2>2, <2>3 DEF Undisturbed, UInv
<1> QED BY <1>1, InvInit, InvNext, UInvInit, UInvNext, PTL DEF Spec
=============================================================================
