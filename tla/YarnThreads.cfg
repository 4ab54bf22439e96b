CONSTANTS
  Workers = {t1, t2, t3}
  Main = Main
  Nobody = Nobody
SPECIFICATION ThreadsFairSpec
INVARIANTS ListOK NeverFails
PROPERTIES AllJoined CallsReturn
CHECK_DEADLOCK FALSE
