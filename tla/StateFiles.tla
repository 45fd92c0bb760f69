---------------------------- MODULE StateFiles ----------------------------
(***************************************************************************)
(* The three state files of ~/.pppauth (key, counter, last card generated) *)
(* as src/ppp/keyfiles.c reads and writes them.                            *)
(*                                                                         *)
(* A file holds one number behind a header, and the header has grown over  *)
(* the releases:                                                           *)
(*                                                                         *)
(*   "raw"        <digits>                          unversioned            *)
(*   "versioned"  " PPP vvvv dddd " <digits>        digits at offset 15    *)
(*   "flagged"    " PPP vvvv dddd ffff " <digits>   digits at offset 20    *)
(*                                                                         *)
(* "empty" is the file between fopen(..., "w"), which truncates it, and    *)
(* fclose, which writes the stdio buffer out; "missing" is no file.        *)
(*                                                                         *)
(* readKeyFile reads the three files into one buffer that it clears only   *)
(* before the first, and decides from the key file's flags where the       *)
(* digits of all three start.  So a read depends on what was read before:  *)
(* buf.head is the file whose text starts the buffer, buf.tail the number  *)
(* whose digits stand at offset 20.  A counter is assumed to have at most  *)
(* four digits in a "versioned" file (below 62^4), so that its text and    *)
(* the final NUL end before offset 20.                                     *)
(***************************************************************************)
EXTENDS Integers

Formats == {"missing", "empty", "raw", "versioned", "flagged"}

\* PPP_FLAGS_PRESENT and PPP_DONT_SKIP_ON_FAILURES of ppp.h.
Flags == {"present", "dontSkip"}

Versions == {1, 2}

Contents == [fmt : Formats, ver : Versions, flags : SUBSET Flags, num : Int]

Buffers == [head : Contents, tail : Int]

Exists(file) == file.fmt # "missing"

Empty == [fmt |-> "empty", ver |-> 1, flags |-> {}, num |-> 0]

\* What _write_data leaves in the file once it is closed.
Written(ver, flags, num) ==
    [fmt |-> "flagged", ver |-> ver, flags |-> flags, num |-> num]

-----------------------------------------------------------------------------
(* The read buffer.                                                        *)

\* memset(buf, 0, sizeof(buf)): decodes like an empty unversioned file.
ZeroedBuffer == [head |-> Empty, tail |-> 0]

\* fread of an empty file transfers nothing and leaves the buffer as it was.
Fread(buf, file) ==
    IF file.fmt = "empty"
    THEN buf
    ELSE [head |-> file, tail |-> IF file.fmt = "flagged" THEN file.num ELSE buf.tail]

\* Variant: a file without header counts as version 0.
PppVersionZero(buf) ==
    IF buf.head.fmt \in {"versioned", "flagged"} THEN buf.head.ver ELSE 0

\* No leading blank, no header: such a file counts as version 1.
PppVersion(buf) ==
    IF buf.head.fmt \in {"versioned", "flagged"} THEN buf.head.ver ELSE 1

PppFlags(buf) ==
    IF buf.head.fmt = "flagged" THEN buf.head.flags \cup {"present"} ELSE {}

\* The header's flags field taken for digits: the hexadecimal word is short
\* enough to be the same number in radix 62.
FlagsWord(flags) ==
    (IF "present" \in flags THEN 1 ELSE 0) + (IF "dontSkip" \in flags THEN 2 ELSE 0)

\* Variant: the digits are always looked for at offset 15.
ReadDataUnflagged(buf, flags) ==
    IF buf.head.fmt = "flagged" THEN FlagsWord(buf.head.flags) ELSE buf.head.num

\* The number decoded from the buffer when "flags" are the flags in force.
ReadData(buf, flags) ==
    IF buf.head.fmt = "versioned" /\ "present" \in flags
    THEN buf.tail
    ELSE IF buf.head.fmt = "flagged" /\ "present" \notin flags
         THEN FlagsWord(buf.head.flags)
         ELSE buf.head.num

=============================================================================
