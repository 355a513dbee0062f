\* The modes of both chips on their buses, with up to two failing transfers in each call, and
\* a program that is killed at any step and another mode started.
CONSTANTS
  Apps = {"basic", "fifo", "dmp", "mpu6050"}
  Buses = {"iic", "spi"}
  MaxSlips = 2
SPECIFICATION Spec
INVARIANTS TypeOK Kept Readable Reads InitFailsClosed DeinitStops
