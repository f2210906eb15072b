------------------------------- MODULE Shell -------------------------------
(***************************************************************************)
(* The keyboard interrupt handler and command shell of src/keyboard.c,    *)
(* composed with the file-system operations it calls (FileSystem).        *)
(*                                                                         *)
(* fsInit ends with fileTest (three creat, one mk, ls, write and read of *)
(* fd 0), before kernelMain initialises the keyboard; after that the only *)
(* caller of ls, cd and mk is kbdInterruptHandler, run once per keyboard  *)
(* interrupt through an interrupt gate.  One key is one atomic step: the  *)
(* sti at the end of putc's and getPos's spinlockUnlock would let a second *)
(* key nest inside the handler, and that nesting is left out.             *)
(*                                                                         *)
(* line, cmd and arg are the char[50] arrays of keyboard.h, scaled to     *)
(* LINELEN bytes and indexed from 0 as in C.  A byte is 0, the blank SP,  *)
(* or one of Chars, the letters and digits the handler stores.  The       *)
(* command words "ls", "cd" and "mkdir" are each abstracted to one byte   *)
(* (CmdLs, CmdCd, CmdMk); every other byte of Chars is a name letter.     *)
(* Break codes, getc's -1 and keys that map to none of a-z, 0-9, ' ',     *)
(* '\b', '\n' change nothing and are left out.  An access outside line[] *)
(* (the arrays' layout is the linker's) stops the model with kfault.      *)
(***************************************************************************)
EXTENDS FileSystem

CONSTANTS
  LINELEN,  \* bytes of line[], cmd[] and arg[] (50 in keyboard.h)
  SP,       \* the byte ' '
  Chars,    \* bytes of the keys a-z, 0-9 that the handler stores
  CmdLs,    \* the byte standing for the word "ls"
  CmdCd,    \* the byte standing for the word "cd"
  CmdMk,    \* the byte standing for the word "mkdir"
  TestNames,  \* fileTest's names "orcas0" .. "orcas3", as 4 byte sequences
  TEXTLEN     \* strlen of fileTest's text (35, scaled)

VARIABLES
  line,    \* line[]
  pos,     \* pos: the next free index of line[]
  cmd,     \* cmd[]
  arg,     \* arg[]
  shown,   \* history: the line as echoed on the screen (putc, and '\b' erasing)
  last,    \* history: [typed, cmd, arg] of the last line parseCmd parsed
  kfault,  \* "none", or the out-of-bounds access that stops the model
  ft       \* the next call of fileTest; FileTestDone once it has returned

kvars == <<line, pos, cmd, arg, shown, last, kfault, ft>>
svars == <<vars, kvars>>

Idx == 0 .. LINELEN - 1
Buf == [Idx -> {0, SP} \cup Chars]

\* Bound: a '\b' on an empty line takes pos to -1; the model takes no
\* further '\b' there (a key at -1 already writes outside line[]).
PosFloor == -1

\* The C string held in buffer b.
Str(b) == CStr([i \in 1 .. LINELEN |-> b[i - 1]])

----------------------------------------------------------------------------
(* parseCmd(line, cmd, arg).  A scan state is [pl, to, k, b, over]: the   *)
(* index pl reads, the buffer p points into ("cmd" or "arg") at index k,  *)
(* the two buffers, and whether a read went past the end of line[].       *)

\* jump blank: skip ' ', '\0', '\b' and '\t' (only ' ' and 0 can be in line).
RECURSIVE SkipBlank(_, _)
SkipBlank(l, i) == IF i < LINELEN /\ l[i] \in {SP, 0} THEN SkipBlank(l, i + 1) ELSE i

WriteAt(b, to, k, v) == [b EXCEPT ![to] = [@ EXCEPT ![k] = v]]

\* Mutant: the blank is not stepped over, so it is copied into arg.
ParseStep_KeepBlank(l, s) ==
  LET t == IF l[s.pl] = SP
           THEN [s EXCEPT !.b = WriteAt(s.b, s.to, s.k, 0), !.to = "arg", !.k = 0]
           ELSE s
  IN  [t EXCEPT !.b = WriteAt(t.b, t.to, t.k, l[t.pl]), !.k = @ + 1, !.pl = @ + 1]

\* One iteration of while(*pl != '\0'): at a ' ', *p = '\0', p = arg,
\* pl++; then *p++ = *pl++.
ParseStep(l, s) ==
  LET t == IF l[s.pl] = SP
           THEN [s EXCEPT !.b = WriteAt(s.b, s.to, s.k, 0), !.to = "arg", !.k = 0,
                          !.pl = @ + 1]
           ELSE s
  IN  IF t.pl >= LINELEN THEN [t EXCEPT !.over = TRUE]
      ELSE [t EXCEPT !.b = WriteAt(t.b, t.to, t.k, l[t.pl]), !.k = @ + 1, !.pl = @ + 1]

RECURSIVE CopyLoop(_, _)
CopyLoop(l, s) ==
  IF s.over THEN s
  ELSE IF s.pl >= LINELEN THEN [s EXCEPT !.over = TRUE]
  ELSE IF l[s.pl] = 0 THEN s
  ELSE CopyLoop(l, ParseStep(l, s))

\* The whole of parseCmd, ending with *p = '\0'.
parseCmd(l, c, a) ==
  LET i == SkipBlank(l, 0)
      s == CopyLoop(l, [pl |-> i, to |-> "cmd", k |-> 0,
                        b |-> [cmd |-> c, arg |-> a], over |-> i >= LINELEN])
  IN  IF s.over THEN s ELSE [s EXCEPT !.b = WriteAt(s.b, s.to, s.k, 0)]

----------------------------------------------------------------------------
(* fileTest, called at the end of fsInit.                                  *)

FileTestDone == 7

\* One call of fileTest: fd0..fd2 = creat("orcas0".."orcas2"), mk("orcas3"),
\* ls(), write(fd0, text, size), read(fd0, buffer, size); creat returns
\* max_fd++, which fsInit set to 0, so fd0 is 0.
fileTest ==
  /\ ft < FileTestDone
  /\ CASE ft \in 0 .. 2 -> creat(TestNames[ft + 1])
       [] ft = 3       -> mk(TestNames[4])
       [] ft = 4       -> UNCHANGED vars
       [] ft = 5       -> write(0, TEXTLEN, Payload(0))
       [] ft = 6       -> read(0, TEXTLEN)
  /\ ft' = ft + 1
  /\ UNCHANGED <<line, pos, cmd, arg, shown, last, kfault>>

----------------------------------------------------------------------------
(* kbdInterruptHandler, one action per kind of make code.                  *)

ShellInit ==
  /\ Init
  /\ line = [i \in Idx |-> 0]
  /\ pos = 0
  /\ cmd = [i \in Idx |-> 0]
  /\ arg = [i \in Idx |-> 0]
  /\ shown = <<>>
  /\ last = [typed |-> <<>>, cmd |-> <<>>, arg |-> <<>>]
  /\ kfault = "none"
  /\ ft = 0

\* a-z, 0-9, ' ': putc(c); line[pos++] = c.
KeyChar(c) ==
  /\ kfault = "none"
  /\ IF pos \in Idx
     THEN /\ line' = [line EXCEPT ![pos] = c]
          /\ pos' = pos + 1
          /\ UNCHANGED kfault
     ELSE /\ kfault' = "line[pos] written out of bounds"
          /\ UNCHANGED <<line, pos>>
  /\ shown' = Append(shown, c)
  /\ UNCHANGED <<vars, cmd, arg, last>>

\* '\b': setPos erases the last character on the screen; pos--.
KeyBackspace ==
  /\ kfault = "none"
  /\ pos > PosFloor
  /\ pos' = pos - 1
  /\ shown' = IF shown = <<>> THEN <<>> ELSE SubSeq(shown, 1, Len(shown) - 1)
  /\ UNCHANGED <<vars, line, cmd, arg, last, kfault>>

\* mk(name): allocInode returning NULL prints an error and returns -1.
mkCall(name) ==
  IF allocInodeBits(ibmp).ino = -1 THEN UNCHANGED vars ELSE mk(name)

\* The strcmp chain: ls (which only reads and prints), cd, mkdir, or
\* "command not found".
Dispatch(c, a) ==
  CASE c = <<CmdCd>> -> cd(a)
    [] c = <<CmdMk>> -> mkCall(a)
    [] OTHER         -> UNCHANGED vars

\* '\n': if pos > 0, line[pos] = '\0', parseCmd, dispatch; then pos = 0 and
\* the prompt.
KeyEnter ==
  /\ kfault = "none"
  /\ pos' = 0
  /\ shown' = <<>>
  /\ IF pos <= 0
     THEN UNCHANGED <<vars, line, cmd, arg, last, kfault>>
     ELSE IF pos = LINELEN
     THEN /\ kfault' = "line[pos] written out of bounds"
          /\ UNCHANGED <<vars, line, cmd, arg, last>>
     ELSE LET l == [line EXCEPT ![pos] = 0]
              r == parseCmd(l, cmd, arg)
          IN  /\ line' = l
              /\ IF r.over
                 THEN /\ kfault' = "parseCmd read past line[]"
                      /\ UNCHANGED <<vars, cmd, arg, last>>
                 ELSE /\ cmd' = r.b.cmd
                      /\ arg' = r.b.arg
                      /\ last' = [typed |-> shown, cmd |-> Str(r.b.cmd),
                                  arg |-> Str(r.b.arg)]
                      /\ Dispatch(Str(r.b.cmd), Str(r.b.arg))
                      /\ UNCHANGED kfault

\* kbdDriverInit runs after fsInit has returned.
KbdNext ==
  /\ ft = FileTestDone /\ UNCHANGED ft
  /\ \/ \E c \in Chars \cup {SP} : KeyChar(c)
     \/ KeyBackspace
     \/ KeyEnter

ShellNext == fileTest \/ KbdNext

ShellSpec == ShellInit /\ [][ShellNext]_svars

----------------------------------------------------------------------------
(* Properties.                                                             *)

ShellTypeOK ==
  /\ line \in Buf /\ cmd \in Buf /\ arg \in Buf
  /\ pos \in PosFloor .. LINELEN
  /\ shown \in Seq(Chars \cup {SP})
  /\ last \in [typed : Seq(Chars \cup {SP}), cmd : Seq(Chars \cup {SP}),
               arg : Seq(Chars \cup {SP})]
  /\ kfault \in {"none", "line[pos] written out of bounds", "parseCmd read past line[]"}

(* parseCmd, checked against what the user typed: when the echoed line is *)
(* one word, or two words with one blank between them and none around     *)
(* them, kbdInterruptHandler's line[] and pos (after any '\b's) and       *)
(* parseCmd leave the first word in cmd and the second in arg.            *)
ParsedAsTyped ==
  LET t == last.typed IN
  /\ (\A i \in 1 .. Len(t) : t[i] # SP) => last.cmd = t
  /\ \A i \in 2 .. Len(t) - 1 :
       (t[i] = SP /\ \A j \in 1 .. Len(t) : j # i => t[j] # SP)
         => last.cmd = SubSeq(t, 1, i - 1) /\ last.arg = SubSeq(t, i + 1, Len(t))

(* Spec section 2, "cd <path>, mkdir <name>": cd and mkdir act on a name  *)
(* typed on their own line: arg, as parseCmd leaves it, is empty or a run *)
(* of bytes of the line the user just entered.                            *)
ArgFromLine ==
  last.cmd \in {<<CmdCd>>, <<CmdMk>>} =>
    \/ last.arg = <<>>
    \/ \E i \in 1 .. Len(last.typed) : \E j \in i .. Len(last.typed) :
          last.arg = SubSeq(last.typed, i, j)

(* kbdInterruptHandler and parseCmd read and write line[] only inside its *)
(* LINELEN bytes, whatever keys arrive.                                   *)
LineInBounds == kfault = "none"

=============================================================================
