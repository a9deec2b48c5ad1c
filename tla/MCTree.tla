------------------------------- MODULE MCTree -------------------------------
EXTENDS ModelTest

\* Two states that differ only in the signal that led to them are followed once; the
\* action property is still checked on every step.
MCView == <<m_childItems, nextId>>
============================================================================
