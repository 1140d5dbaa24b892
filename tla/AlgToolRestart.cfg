\* sysRestart of a running AlgTool.
CONSTANTS t1 = t1  t2 = t2  Tools = {t1, t2}
SPECIFICATION Spec
PROPERTY RestartRuns
