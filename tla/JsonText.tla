------------------------------ MODULE JsonText ------------------------------
(* What the chunks of an upload may change of how it is read: nothing.     *)
(* The reader of module JsonReader is compared with itself, when the whole *)
(* text is in its buffer and no chunk is left to be read.                  *)
EXTENDS JsonReader

\* The characters that are not read yet: those in the buffer, and what the
\* decoder will make of the bytes that it holds and of the rest of the file.
text == buffer \o Characters[partial \o rest]

Whole == INSTANCE JsonReader WITH rest <- <<>>, partial <- <<>>, buffer <- text, eof <- TRUE

\* Wherever the chunks of a well encoded upload end, within a character, a
\* string or a word too, each step of the reader is the step it would take with
\* the whole text before it: none is decided too early, refused or repeated
\* because the next character has not come yet (content.py:604-704).
ReadsAsWhole == [][WellEncoded(document) => Whole!Next \/ UNCHANGED Whole!vars]_vars

=============================================================================
