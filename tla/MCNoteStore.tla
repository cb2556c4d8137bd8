----------------------------- MODULE MCNoteStore -----------------------------
\* The instances of MCSyncNotes with the other methods of the store.
EXTENDS NoteStore, MCSyncNotes
==============================================================================
