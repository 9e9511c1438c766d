----------------------------- MODULE MenuParser -----------------------------
(***************************************************************************)
(* The scan of grub.cfg (internal/grub/grub.go, parseMenuEntries), run     *)
(* against the file as GRUB understands it.                                *)
(*                                                                         *)
(* Each step writes the next line of a well-formed file and lets the       *)
(* parser read it.  GRUB's side is the nesting of the blocks; the parser   *)
(* sees of a line only its kind, its title and how many braces open and    *)
(* close on it.  A title is a value of Titles and a target is the sequence *)
(* of titles on the way to it, which the code joins with ">".              *)
(*                                                                         *)
(* Files are those grub-mkconfig writes: a block opens on the line of its  *)
(* command, titles of submenus are quoted, and braces inside a line that   *)
(* opens or closes no block are balanced.                                  *)
(***************************************************************************)
EXTENDS Integers, Sequences

CONSTANTS
    Titles,         \* titles in quotes
    NoTitle,        \* extractTitle's "" for a line without quotes
    MaxLines, MaxDepth  \* bounds: lines of the file and nesting of its blocks

ASSUME MenuAssumption == NoTitle \notin Titles /\ MaxLines \in Nat /\ MaxDepth \in Nat

VARIABLES
    nest,           \* GRUB: for each open block, how many submenus it lies in
    path,           \* GRUB: the titles of the open submenus
    targets,        \* GRUB: the entries with a title, in order
    stack, braceDepth, entries,     \* the parser's variables
    lines           \* how many lines were written

grubVars == <<nest, path, targets>>
parserVars == <<stack, braceDepth, entries>>
vars == <<grubVars, parserVars, lines>>

\* A submenuContext.
Context == [depth : Nat, title : Titles]

TypeOK ==
    /\ nest \in Seq(Nat) /\ path \in Seq(Titles) /\ targets \in Seq(Seq(Titles))
    /\ stack \in Seq(Context) /\ braceDepth \in Int /\ entries \in Seq(Seq(Titles))
    /\ lines \in Nat

Init ==
    /\ nest = <<>> /\ path = <<>> /\ targets = <<>>
    /\ stack = <<>> /\ braceDepth = 0 /\ entries = <<>>
    /\ lines = 0

----------------------------------------------------------------------------
(* The parser *)

\* buildTargetString: the titles of the stack, then that of the entry.
Target(s, title) == Append([i \in 1..Len(s) |-> s[i].title], title)

PoppedLate(s, depth) ==     \* mutation: a submenu ends only below its own depth
    SubSeq(s, 1, CHOOSE n \in 0..Len(s) :
                    /\ n > 0 => s[n].depth <= depth
                    /\ \A i \in (n + 1)..Len(s) : s[i].depth > depth)
PoppedOnce(s, depth) ==     \* mutation: one pop a line
    IF s # <<>> /\ s[Len(s)].depth >= depth THEN SubSeq(s, 1, Len(s) - 1) ELSE s

\* The loop that leaves the submenus that have ended: the stack is cut back to
\* its last context that is less deep than the line's end.
Popped(s, depth) ==
    SubSeq(s, 1, CHOOSE n \in 0..Len(s) :
                    /\ n > 0 => s[n].depth < depth
                    /\ \A i \in (n + 1)..Len(s) : s[i].depth >= depth)

AnyTitle(title) == TRUE     \* mutation: lines without a title are not skipped
Titled(title) == title # NoTitle

\* The body of the scan: the declaration first, then the braces, then the pops.
Scan(kind, title, open, close) ==
    LET depth == braceDepth + open - close
        pushed == IF kind = "submenu" /\ Titled(title)
                  THEN Append(stack, [depth |-> braceDepth, title |-> title])
                  ELSE stack
    IN  /\ entries' = IF kind = "menuentry" /\ Titled(title)
                      THEN Append(entries, Target(stack, title))
                      ELSE entries
        /\ braceDepth' = depth
        /\ stack' = Popped(pushed, depth)

----------------------------------------------------------------------------
(* The lines of a file *)

Open == nest' = Append(nest, Len(path))

\* submenu 'title' ... {
OpenSubmenu(title) ==
    /\ Open /\ path' = Append(path, title) /\ UNCHANGED targets
    /\ Scan("submenu", title, 1, 0)

\* menuentry 'title' ... {   or, closed on the same line,   { ... }
\* An entry without a quoted title cannot be selected by name.
Entry(title, closed) ==
    /\ IF closed THEN UNCHANGED nest ELSE Open
    /\ targets' = IF title = NoTitle THEN targets ELSE Append(targets, Append(path, title))
    /\ UNCHANGED path
    /\ Scan("menuentry", title, 1, IF closed THEN 1 ELSE 0)

\* function f {   and the like
OpenBlock == Open /\ UNCHANGED <<path, targets>> /\ Scan("other", NoTitle, 1, 0)

\* A line that closes n blocks.
Close(n) ==
    /\ nest' = SubSeq(nest, 1, Len(nest) - n)
    /\ path' = SubSeq(path, 1, nest[Len(nest) - n + 1])
    /\ UNCHANGED targets
    /\ Scan("other", NoTitle, 0, n)

\* Any other line; braces on it, as in ${prefix}, are balanced.
Plain(braces) == UNCHANGED grubVars /\ Scan("other", NoTitle, braces, braces)

Next ==
    /\ lines < MaxLines /\ lines' = lines + 1
    /\ \/ Len(nest) < MaxDepth /\ \E t \in Titles : OpenSubmenu(t)
       \/ Len(nest) < MaxDepth /\ \E t \in Titles \cup {NoTitle} : Entry(t, FALSE)
       \/ \E t \in Titles \cup {NoTitle} : Entry(t, TRUE)
       \/ Len(nest) < MaxDepth /\ OpenBlock
       \/ \E n \in 1..Len(nest) : Close(n)
       \/ \E b \in 0..1 : Plain(b)

Spec == Init /\ [][Next]_vars

----------------------------------------------------------------------------
(* Properties *)

\* parseMenuEntries returns exactly the entries that can be selected by name,
\* in the order of the file, each with the submenus it lies in: no block of
\* another kind, no early or late end of a submenu leads it astray.
TargetsReported == entries = targets

\* At the end of every line the stack names the open submenus, and nothing of
\* a submenu that has ended is left to prefix a later entry.
StackIsPath == Len(stack) = Len(path) /\ \A i \in 1..Len(path) : stack[i].title = path[i]
=============================================================================
