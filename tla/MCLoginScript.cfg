SPECIFICATION Spec
PROPERTIES
    LinkIsLive
\* The commands end.
CHECK_DEADLOCK FALSE
