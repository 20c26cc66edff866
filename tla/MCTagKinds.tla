----------------------------- MODULE MCTagKinds -----------------------------
EXTENDS TagKinds
MCEntries == <<1, 3, 4>>
MCFields == <<5, 6>>
=============================================================================
