\* Two senders, one day.
SPECIFICATION NoticesSpec
CONSTANTS
    Slots = {s1, s2}
    None = None
    NoticeIds = {n1, n2}
    Days = {d1}
INVARIANT
    QueuedIsQueued
CHECK_DEADLOCK FALSE
